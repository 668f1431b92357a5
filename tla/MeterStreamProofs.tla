-------------------------- MODULE MeterStreamProofs --------------------------
(***************************************************************************)
(* Theorems of MeterStream, for any frames, any frame size, any loss and   *)
(* any place at which the stream is joined: an intact frame is shown, the  *)
(* buffer is bounded, a loss that is not reported is a whole number of     *)
(* frames, and with the real frames and decoder no piece of two frames is  *)
(* shown as a reading.  For a stream without loss: the parser implements   *)
(* the log of FrameLog.                                                    *)
(***************************************************************************)
EXTENDS MeterReadings, FrameParserProofs, FrameDecoderProofs

(* The types of the meter's side. *)
MeterTypes ==
  /\ frames \in Seq(MeterFrames) /\ Len(frames) > 0
  /\ sent \in 0..FrameSize

(* The frame under way is one the parser will find: no terminator can come *)
(* too early, because the buffer is too short for it or there is none.     *)
WillBeFound == whole /\ (inStep \/ ~HasInnerTerminator(Current))

(* The first n bytes of the frame f are the end of the buffer b. *)
EndsWith(b, f, n) ==
  /\ Len(b) >= n
  /\ \A i \in 1..n : b[Len(b) - n + i] = f[i]

(* What has arrived of such a frame is the end of the buffer, and in step  *)
(* it is all of the buffer.                                                *)
ArrivedIsBuffered ==
  WillBeFound /\ sent < FrameSize =>
    /\ EndsWith(buffer, Current, sent)
    /\ inStep => Len(buffer) = sent

(* The flag follows the frame under way from its first byte on. *)
FlagFollowsFrame ==
  whole /\ sent > 0 => (lastByteWasCarriageReturn <=> Current[sent] = CR)

StreamInv == /\ IInv
             /\ MeterTypes
             /\ ArrivedIsBuffered
             /\ FlagFollowsFrame
             /\ IntactFrameIsShown

(* A frame of the meter. *)
LEMMA FrameOfTheMeter ==
  ASSUME NEW f \in MeterFrames
  PROVE  /\ f \in [1..FrameSize -> Byte]
         /\ f[1] # LF /\ f[FrameSize - 1] = CR /\ f[FrameSize] = LF
BY MeterFramesAssumption

(* The frame under way is one of the meter's. *)
LEMMA CurrentIsAFrame == MeterTypes => Current \in MeterFrames
<1> SUFFICES ASSUME MeterTypes PROVE Current \in MeterFrames
  OBVIOUS
<1>1. Len(frames) \in 1..Len(frames) /\ frames \in Seq(MeterFrames)
  BY DEF MeterTypes
<1> QED BY <1>1, ElementOfSeq DEF Current

(* One more byte of a frame at the end of the buffer. *)
LEMMA OneMoreByte ==
  ASSUME NEW b \in Seq(Byte), NEW f \in [1..FrameSize -> Byte],
         NEW n \in 0..FrameSize - 1, EndsWith(b, f, n)
  PROVE  /\ Append(b, f[n + 1]) \in Seq(Byte)
         /\ Len(Append(b, f[n + 1])) = Len(b) + 1
         /\ EndsWith(Append(b, f[n + 1]), f, n + 1)
<1>1. PICK s : s = Append(b, f[n + 1])
  OBVIOUS
<1>2. f[n + 1] \in Byte
  BY FrameSizeAssumption
<1>3. /\ s \in Seq(Byte)
      /\ Len(s) = Len(b) + 1
      /\ Len(b) \in Nat
      /\ s[Len(b) + 1] = f[n + 1]
      /\ \A i \in 1..Len(b) : s[i] = b[i]
  BY <1>1, <1>2, AppendFacts
<1>4. /\ Len(b) >= n
      /\ \A i \in 1..n : b[Len(b) - n + i] = f[i]
  BY DEF EndsWith
<1>5. ASSUME NEW i \in 1..n + 1
      PROVE  s[Len(s) - (n + 1) + i] = f[i]
  <2>1. Len(s) - (n + 1) + i = Len(b) - n + i
    BY <1>3, FrameSizeAssumption
  <2>2. CASE i = n + 1
    <3>1. Len(b) - n + i = Len(b) + 1
      BY <1>3, <2>2, FrameSizeAssumption
    <3> QED BY <1>3, <2>1, <2>2, <3>1
  <2>3. CASE i \in 1..n
    <3>1. Len(b) - n + i \in 1..Len(b)
      BY <1>3, <1>4, <2>3, FrameSizeAssumption
    <3> QED BY <1>3, <1>4, <2>1, <2>3, <3>1
  <2>4. i = n + 1 \/ i \in 1..n
    BY FrameSizeAssumption
  <2> QED BY <2>2, <2>3, <2>4
<1>6. Len(s) >= n + 1
  BY <1>3, <1>4, FrameSizeAssumption
<1>7. EndsWith(s, f, n + 1)
  BY <1>5, <1>6 DEF EndsWith
<1> QED BY <1>1, <1>3, <1>7

(* No frame ends inside a frame that will be found: in step the buffer is  *)
(* too short, and out of step there is no terminator.                      *)
LEMMA NoEarlyEnd ==
  ASSUME StreamInv, WillBeFound, sent + 1 < FrameSize
  PROVE  ~(FrameIsEnding(Current[sent + 1])
             /\ LongEnough(Append(buffer, Current[sent + 1])))
<1>1. MeterTypes /\ ArrivedIsBuffered /\ FlagFollowsFrame
  BY DEF StreamInv
<1>2. sent \in 0..FrameSize - 2 /\ buffer \in Seq(Byte) /\ Current \in MeterFrames
  BY <1>1, CurrentIsAFrame, CountersFromInv, FrameSizeAssumption
     DEF MeterTypes, StreamInv, Counters
<1>3. /\ Current \in [1..FrameSize -> Byte]
      /\ Current[1] # LF
  BY <1>2, FrameOfTheMeter
<1>4. CASE sent = 0
  BY <1>3, <1>4 DEF FrameIsEnding
<1>5. CASE sent > 0 /\ inStep
  <2>1. Len(buffer) = sent
    <3>1. sent < FrameSize
      BY <1>2, FrameSizeAssumption
    <3> QED BY <1>1, <1>5, <3>1, Zenon DEF ArrivedIsBuffered
  <2>2. Current[sent + 1] \in Byte
    BY <1>2, <1>3, FrameSizeAssumption
  <2>3. Len(Append(buffer, Current[sent + 1])) = sent + 1
    BY <1>2, <2>1, <2>2, AppendFacts
  <2> QED BY <1>2, <2>3, FrameSizeAssumption DEF LongEnough
<1>6. CASE sent > 0 /\ ~HasInnerTerminator(Current)
  <2>1. sent \in 1..FrameSize - 2
    BY <1>2, <1>6
  <2>2. ~(Current[sent] = CR /\ Current[sent + 1] = LF)
    BY <1>6, <2>1 DEF HasInnerTerminator
  <2>3. lastByteWasCarriageReturn <=> Current[sent] = CR
    BY <1>1, <1>6 DEF FlagFollowsFrame, WillBeFound
  <2> QED BY <2>2, <2>3 DEF FrameIsEnding
<1> QED BY <1>2, <1>4, <1>5, <1>6 DEF WillBeFound

(* A frame that will be found is found with its last byte. *)
LEMMA FrameIsFound ==
  ASSUME StreamInv, WillBeFound, sent + 1 = FrameSize
  PROVE  /\ FrameIsEnding(Current[sent + 1])
         /\ LongEnough(Append(buffer, Current[sent + 1]))
         /\ LastFrame(Append(buffer, Current[sent + 1])) = Current
<1>1. MeterTypes /\ ArrivedIsBuffered /\ FlagFollowsFrame
  BY DEF StreamInv
<1>2. sent \in 1..FrameSize - 1 /\ buffer \in Seq(Byte) /\ Current \in MeterFrames
  BY <1>1, CurrentIsAFrame, CountersFromInv, FrameSizeAssumption
     DEF MeterTypes, StreamInv, Counters
<1>3. /\ Current \in [1..FrameSize -> Byte]
      /\ Current[sent] = CR /\ Current[sent + 1] = LF
  <2>1. /\ Current \in [1..FrameSize -> Byte]
        /\ Current[FrameSize - 1] = CR /\ Current[FrameSize] = LF
    BY <1>2, FrameOfTheMeter
  <2> QED BY <1>2, <2>1, FrameSizeAssumption
<1>4. FrameIsEnding(Current[sent + 1])
  <2>1. lastByteWasCarriageReturn <=> Current[sent] = CR
    BY <1>1, <1>2 DEF FlagFollowsFrame, WillBeFound
  <2> QED BY <1>3, <2>1 DEF FrameIsEnding
<1>5. PICK s : s = Append(buffer, Current[sent + 1])
  OBVIOUS
<1>6. EndsWith(s, Current, FrameSize)
  <2>1. sent \in 0..FrameSize - 1 /\ sent < FrameSize
    BY <1>2, FrameSizeAssumption
  <2>2. EndsWith(buffer, Current, sent)
    BY <1>1, <2>1 DEF ArrivedIsBuffered
  <2>3. EndsWith(s, Current, sent + 1)
    BY <1>2, <1>3, <1>5, <2>1, <2>2, OneMoreByte
  <2> QED BY <2>3
<1>7. /\ Len(s) >= FrameSize
      /\ \A i \in 1..FrameSize : s[Len(s) - FrameSize + i] = Current[i]
  BY <1>6 DEF EndsWith
<1>8. LongEnough(s)
  BY <1>7 DEF LongEnough
<1>9. LastFrame(s) = Current
  BY <1>3, <1>7 DEF LastFrame
<1> QED BY <1>4, <1>5, <1>8, <1>9

(* What a delivered byte is, and what it leaves alone. *)
LEMMA DeliverFacts ==
  ASSUME StreamInv, Deliver
  PROVE  /\ sent \in 0..FrameSize - 1 /\ sent' = sent + 1
         /\ Current \in [1..FrameSize -> Byte]
         /\ Current[sent + 1] \in Byte
         /\ ProcessByte(Current[sent + 1])
         /\ Current' = Current
         /\ WillBeFound' <=> WillBeFound
         /\ IInv'
<1>1. /\ sent \in 0..FrameSize - 1 /\ sent' = sent + 1
      /\ ProcessByte(Current[sent + 1])
      /\ frames' = frames
  BY FrameSizeAssumption DEF Deliver, StreamInv, MeterTypes
<1>2. UNCHANGED <<whole, inStep>>
  BY DEF Deliver
<1>3. Current' = Current
  BY <1>1 DEF Current
<1>4. HasInnerTerminator(Current)' <=> HasInnerTerminator(Current)
  BY <1>3 DEF HasInnerTerminator
<1>5. WillBeFound' <=> WillBeFound
  BY <1>2, <1>4 DEF WillBeFound
<1>6. Current \in [1..FrameSize -> Byte]
  BY CurrentIsAFrame, FrameOfTheMeter DEF StreamInv
<1>7. Current[sent + 1] \in Byte
  BY <1>1, <1>6, FrameSizeAssumption
<1>8. IInv'
  BY <1>1, <1>7, ParserStep DEF ParserNext, StreamInv
<1> QED BY <1>1, <1>3, <1>5, <1>6, <1>7, <1>8

(* A byte that is not the last of a frame that will be found is buffered.  *)
LEMMA DeliverInside ==
  ASSUME StreamInv, Deliver, WillBeFound, sent + 1 < FrameSize
  PROVE  /\ buffer' = Append(buffer, Current[sent + 1])
         /\ output' = output
<1>1. ProcessByte(Current[sent + 1])
  BY DeliverFacts
<1> QED BY <1>1, NoEarlyEnd DEF ProcessByte, KeepBuffering

(* With the last byte of a frame that will be found its row is printed. *)
LEMMA DeliverLast ==
  ASSUME StreamInv, Deliver, WillBeFound, sent + 1 = FrameSize
  PROVE  /\ buffer' = <<>>
         /\ Len(output') = Len(output) + 1
         /\ \A i \in 1..Len(output) : output'[i] = output[i]
         /\ output'[Len(output) + 1].at = Len(received')
         /\ output'[Len(output) + 1].values = ProcessFrame(Current)
         /\ row'.genuine
<1>1. PICK byte \in Byte : byte = Current[sent + 1]
  BY DeliverFacts
<1>2. ProcessByte(byte) /\ FrameIsEnding(byte) /\ LongEnough(Append(buffer, byte))
        /\ LastFrame(Append(buffer, byte)) = Current
  BY <1>1, DeliverFacts, FrameIsFound
<1>3. PICK line : line = Line(Append(buffer, byte), byteCount + 1)
  OBVIOUS
<1>4. buffer' = <<>> /\ output' = Append(output, line)
  BY <1>2, <1>3 DEF ProcessByte, EndFrame
<1>5. line.at = byteCount + 1 /\ line.values = ProcessFrame(Current)
  BY <1>2, <1>3 DEF Line
<1>6. byteCount + 1 = Len(received')
  BY <1>2, StepFacts DEF StreamInv
<1>7. output \in Seq(Lines) /\ output' \in Seq(Lines)
  BY CountersFromInv, DeliverFacts DEF StreamInv, IInv, TypeOK
<1>8. /\ Len(output') = Len(output) + 1
      /\ output'[Len(output) + 1] = line
      /\ \A i \in 1..Len(output) : output'[i] = output[i]
  BY <1>4, <1>7
<1>9. row'.genuine
  <2>1. output' # output
    BY <1>7, <1>8
  <2>2. row'.genuine = (whole /\ sent + 1 = FrameSize)
    BY <2>1 DEF Deliver
  <2> QED BY <2>2 DEF WillBeFound
<1> QED BY <1>4, <1>5, <1>6, <1>8, <1>9

LEMMA DeliverInv ==
  ASSUME StreamInv, Deliver
  PROVE  StreamInv'
<1>1. /\ sent \in 0..FrameSize - 1 /\ sent' = sent + 1
      /\ Current' = Current
      /\ IInv'
  BY DeliverFacts
<1>2. WillBeFound' <=> WillBeFound
  BY DeliverFacts
<1>3. MeterTypes'
  BY <1>1, FrameSizeAssumption DEF Deliver, StreamInv, MeterTypes
<1>4. ArrivedIsBuffered'
  <2> SUFFICES ASSUME WillBeFound', sent' < FrameSize
               PROVE  /\ EndsWith(buffer, Current, sent)'
                      /\ inStep' => Len(buffer') = sent'
    BY DEF ArrivedIsBuffered
  <2>1. sent + 1 < FrameSize /\ sent < FrameSize
    BY <1>1, FrameSizeAssumption
  <2>2. buffer' = Append(buffer, Current[sent + 1])
    BY <1>2, <2>1, DeliverInside
  <2>3. EndsWith(buffer, Current, sent) /\ (inStep => Len(buffer) = sent)
    BY <1>2, <2>1 DEF StreamInv, ArrivedIsBuffered
  <2>4. buffer \in Seq(Byte) /\ Current \in [1..FrameSize -> Byte]
    BY CountersFromInv, DeliverFacts DEF StreamInv, Counters
  <2>5. /\ Len(buffer') = Len(buffer) + 1
        /\ EndsWith(buffer', Current, sent + 1)
    BY <1>1, <2>2, <2>3, <2>4, OneMoreByte
  <2>6. EndsWith(buffer', Current', sent')
    BY <1>1, <2>5
  <2>7. inStep' = inStep
    BY DEF Deliver
  <2>8. Len(buffer) = sent => Len(buffer') = sent'
    BY <1>1, <2>5
  <2> QED BY <2>3, <2>6, <2>7, <2>8 DEF EndsWith
<1>5. FlagFollowsFrame'
  <2>1. lastByteWasCarriageReturn' = (Current[sent + 1] = CR)
    BY DeliverFacts DEF ProcessByte
  <2>2. Current'[sent'] = Current[sent + 1]
    BY <1>1
  <2> QED BY <2>1, <2>2 DEF FlagFollowsFrame
<1>6. IntactFrameIsShown'
  <2> SUFFICES ASSUME sent' = FrameSize, WillBeFound'
               PROVE  /\ output' # <<>>
                      /\ LastRow'.at = Len(received')
                      /\ LastRow'.values = ProcessFrame(Current')
                      /\ row'.genuine
    BY DEF IntactFrameIsShown, WillBeFound
  <2>1. sent + 1 = FrameSize /\ WillBeFound
    BY <1>1, <1>2
  <2>2. /\ Len(output') = Len(output) + 1
        /\ output'[Len(output) + 1].at = Len(received')
        /\ output'[Len(output) + 1].values = ProcessFrame(Current)
    BY <2>1, DeliverLast
  <2>3. row'.genuine
    BY <2>1, DeliverLast
  <2>4. output \in Seq(Lines)
    BY CountersFromInv DEF StreamInv, Counters
  <2>5. output' # <<>>
    BY <2>2, <2>4
  <2>6. LastRow' = output'[Len(output) + 1]
    BY <2>2 DEF LastRow
  <2> QED BY <1>1, <2>2, <2>3, <2>5, <2>6
<1> QED BY <1>1, <1>3, <1>4, <1>5, <1>6 DEF StreamInv

LEMMA LoseInv ==
  ASSUME StreamInv, Lose
  PROVE  StreamInv'
<1>1. ~whole'
  BY DEF Lose
<1>2. IInv'
  BY ParserStep DEF Lose, StreamInv
<1>3. MeterTypes'
  BY FrameSizeAssumption DEF Lose, StreamInv, MeterTypes
<1>4. ArrivedIsBuffered' /\ FlagFollowsFrame' /\ IntactFrameIsShown'
  BY <1>1 DEF ArrivedIsBuffered, WillBeFound, FlagFollowsFrame, IntactFrameIsShown
<1> QED BY <1>2, <1>3, <1>4 DEF StreamInv

(* Nothing has arrived yet of a frame that begins. *)
LEMMA NothingArrived ==
  ASSUME buffer \in Seq(Byte), sent = 0
  PROVE  EndsWith(buffer, Current, sent)
<1>1. Len(buffer) \in Nat
  OBVIOUS
<1> QED BY <1>1 DEF EndsWith

LEMMA NextFrameInv ==
  ASSUME StreamInv, NextFrame
  PROVE  StreamInv'
<1>1. /\ UNCHANGED parserVars
      /\ sent' = 0
      /\ inStep' = (buffer = <<>>)
  BY DEF NextFrame
<1>2. IInv'
  BY <1>1, ParserStep DEF StreamInv
<1>3. buffer' = buffer /\ buffer \in Seq(Byte)
  BY <1>1, CountersFromInv DEF StreamInv, Counters, parserVars
<1>4. MeterTypes'
  <2>1. PICK f \in MeterFrames : frames' = Append(frames, f)
    BY DEF NextFrame
  <2>2. frames \in Seq(MeterFrames)
    BY DEF StreamInv, MeterTypes
  <2>3. frames' \in Seq(MeterFrames) /\ Len(frames') = Len(frames) + 1 /\ Len(frames) \in Nat
    BY <2>1, <2>2, AppendFacts
  <2> QED BY <1>1, <2>3, FrameSizeAssumption DEF MeterTypes
<1>5. ArrivedIsBuffered'
  <2>1. Len(buffer') \in Nat
    BY <1>3
  <2>2. EndsWith(buffer', Current', sent')
    BY <1>1, <2>1 DEF EndsWith
  <2>3. inStep' => Len(buffer') = sent'
    BY <1>1, <1>3
  <2> QED BY <2>2, <2>3 DEF ArrivedIsBuffered, EndsWith
<1>6. FlagFollowsFrame'
  BY <1>1 DEF FlagFollowsFrame
<1>7. IntactFrameIsShown'
  BY <1>1, FrameSizeAssumption DEF IntactFrameIsShown
<1> QED BY <1>2, <1>4, <1>5, <1>6, <1>7 DEF StreamInv

LEMMA StreamInitInv == StreamInit => StreamInv
<1> SUFFICES ASSUME StreamInit PROVE StreamInv
  OBVIOUS
<1>1. ParserInit /\ buffer = <<>> /\ sent \in 0..FrameSize - 1
  BY DEF StreamInit, ParserInit
<1>2. whole <=> sent = 0
  BY DEF StreamInit
<1>3. IInv
  BY <1>1, InitInv
<1>4. MeterTypes
  <2>1. PICK f \in MeterFrames : frames = <<f>>
    BY DEF StreamInit
  <2>2. frames \in Seq(MeterFrames) /\ Len(frames) = 1
    BY <2>1
  <2> QED BY <1>1, <2>2, FrameSizeAssumption DEF MeterTypes
<1>5. ArrivedIsBuffered
  <2> SUFFICES ASSUME sent = 0
               PROVE  EndsWith(buffer, Current, sent) /\ (inStep => Len(buffer) = sent)
    BY <1>2 DEF ArrivedIsBuffered, WillBeFound
  <2>1. Len(buffer) = 0 /\ buffer \in Seq(Byte)
    BY <1>1
  <2> QED BY <2>1, NothingArrived
<1>6. FlagFollowsFrame
  BY <1>1, <1>2 DEF FlagFollowsFrame
<1>7. IntactFrameIsShown
  BY <1>1, FrameSizeAssumption DEF IntactFrameIsShown
<1> QED BY <1>3, <1>4, <1>5, <1>6, <1>7 DEF StreamInv

LEMMA StutterInv ==
  ASSUME StreamInv, UNCHANGED streamVars
  PROVE  StreamInv'
<1>1. UNCHANGED parserVars /\ UNCHANGED <<frames, sent, row>>
  BY DEF streamVars, meterVars
<1>2. UNCHANGED whole /\ UNCHANGED inStep
  BY DEF streamVars, meterVars
<1>3. IInv'
  BY <1>1, ParserStep DEF StreamInv
<1>4. UNCHANGED <<buffer, received, output>> /\ UNCHANGED lastByteWasCarriageReturn
  BY <1>1 DEF parserVars
<1>5. MeterTypes' /\ Current' = Current /\ LastRow' = LastRow
  BY <1>1, <1>4 DEF StreamInv, MeterTypes, Current, LastRow
<1>6. WillBeFound' <=> WillBeFound
  BY <1>2, <1>5 DEF WillBeFound, HasInnerTerminator
<1>7. ArrivedIsBuffered'
  BY <1>1, <1>2, <1>4, <1>5, <1>6 DEF StreamInv, ArrivedIsBuffered, EndsWith
<1>8. FlagFollowsFrame'
  BY <1>1, <1>2, <1>4, <1>5 DEF StreamInv, FlagFollowsFrame
<1>9. IntactFrameIsShown'
  BY <1>1, <1>4, <1>5, <1>6 DEF StreamInv, IntactFrameIsShown, WillBeFound
<1> QED BY <1>3, <1>5, <1>7, <1>8, <1>9 DEF StreamInv

(* Also behind a lossy link the state of the parser describes the stream   *)
(* it received, and what has arrived of an intact frame is in the buffer.  *)
THEOREM StreamInvariant == StreamSpec => []StreamInv
<1>1. StreamInv /\ [StreamNext]_streamVars => StreamInv'
  <2> SUFFICES ASSUME StreamInv, [StreamNext]_streamVars PROVE StreamInv'
    OBVIOUS
  <2>1. CASE Deliver
    BY <2>1, DeliverInv
  <2>2. CASE Lose
    BY <2>2, LoseInv
  <2>3. CASE NextFrame
    BY <2>3, NextFrameInv
  <2>4. CASE UNCHANGED streamVars
    BY <2>4, StutterInv
  <2> QED BY <2>1, <2>2, <2>3, <2>4 DEF StreamNext
<1> QED
  BY StreamInitInv, <1>1, PTL DEF StreamSpec

(* A frame that arrives whole is shown with its own values as soon as its  *)
(* last byte is in, whatever was lost before it; CR LF in its values does  *)
(* not matter if the parser was in step.                                   *)
THEOREM IntactFrameShown == StreamSpec => []IntactFrameIsShown
<1>1. StreamInv => IntactFrameIsShown
  BY DEF StreamInv
<1> QED BY <1>1, StreamInvariant, PTL

-----------------------------------------------------------------------------
(* Without loss the parser is always in step, and has shown every frame    *)
(* but the one under way.                                                  *)
LosslessInv ==
  /\ StreamInv
  /\ whole /\ inStep
  /\ sent < FrameSize => Len(frames) = Len(output) + 1
  /\ sent = FrameSize => Len(frames) = Len(output) /\ buffer = <<>>

LEMMA LosslessWillBeFound == LosslessInv => WillBeFound
BY DEF LosslessInv, WillBeFound

(* The values of the rows so far, and what one more row adds to them. *)
LEMMA RowsStep ==
  ASSUME output \in Seq(Lines), output' \in Seq(Lines),
         Len(output') = Len(output) + 1,
         \A i \in 1..Len(output) : output'[i] = output[i]
  PROVE  [i \in 1..Len(output') |-> output'[i].values]
           = Append([i \in 1..Len(output) |-> output[i].values],
                    output'[Len(output) + 1].values)
OBVIOUS

LEMMA LosslessDeliver ==
  ASSUME LosslessInv, Deliver
  PROVE  /\ LosslessInv'
         /\ [Log!LogNext]_(Log!logVars)
<1>1. StreamInv /\ WillBeFound
  BY LosslessWillBeFound DEF LosslessInv
<1>2. StreamInv'
  BY <1>1, DeliverInv
<1>3. whole' /\ inStep'
  BY DEF Deliver, LosslessInv
<1>4. /\ sent \in 0..FrameSize - 1 /\ sent' = sent + 1
      /\ frames' = frames
      /\ Len(frames) = Len(output) + 1
  <2>1. sent \in 0..FrameSize - 1 /\ sent' = sent + 1 /\ frames' = frames
    BY <1>1, DeliverFacts DEF Deliver
  <2>2. sent < FrameSize
    BY <2>1, FrameSizeAssumption
  <2> QED BY <2>1, <2>2 DEF LosslessInv
<1>5. output \in Seq(Lines) /\ output' \in Seq(Lines)
  BY <1>1, <1>2, CountersFromInv DEF StreamInv, IInv, TypeOK
<1>6. CASE sent + 1 < FrameSize
  <2>1. output' = output
    BY <1>1, <1>6, DeliverInside
  <2>2. LosslessInv'
    BY <1>2, <1>3, <1>4, <1>6, <2>1, FrameSizeAssumption DEF LosslessInv
  <2>3. UNCHANGED Log!logVars
    BY <1>4, <2>1 DEF Log!logVars
  <2> QED BY <2>2, <2>3
<1>7. CASE sent + 1 = FrameSize
  <2>1. /\ buffer' = <<>>
        /\ Len(output') = Len(output) + 1
        /\ \A i \in 1..Len(output) : output'[i] = output[i]
        /\ output'[Len(output) + 1].values = ProcessFrame(Current)
    BY <1>1, <1>7, DeliverLast
  <2>2. LosslessInv'
    BY <1>2, <1>3, <1>4, <1>7, <2>1, FrameSizeAssumption DEF LosslessInv
  <2>3. Len([i \in 1..Len(output) |-> output[i].values]) = Len(output)
    BY <1>5
  <2>4. Current = frames[Len(output) + 1]
    BY <1>4 DEF Current
  <2>5. Log!Show
    BY <1>4, <1>5, <2>1, <2>3, <2>4, RowsStep DEF Log!Show
  <2> QED BY <2>2, <2>5 DEF Log!LogNext
<1>8. sent + 1 < FrameSize \/ sent + 1 = FrameSize
  BY <1>4, FrameSizeAssumption
<1> QED BY <1>6, <1>7, <1>8

LEMMA LosslessNextFrame ==
  ASSUME LosslessInv, NextFrame
  PROVE  /\ LosslessInv'
         /\ [Log!LogNext]_(Log!logVars)
<1>1. StreamInv'
  BY NextFrameInv DEF LosslessInv
<1>2. /\ sent = FrameSize /\ sent' = 0
      /\ buffer = <<>> /\ Len(frames) = Len(output)
      /\ output' = output
  BY DEF NextFrame, LosslessInv, parserVars
<1>3. whole' /\ inStep'
  BY <1>2 DEF NextFrame
<1>4. PICK f \in MeterFrames : frames' = Append(frames, f)
  BY DEF NextFrame
<1>5. frames \in Seq(MeterFrames) /\ output \in Seq(Lines)
  BY CountersFromInv DEF LosslessInv, StreamInv, MeterTypes, Counters
<1>6. Len(frames') = Len(output') + 1
  BY <1>2, <1>4, <1>5
<1>7. LosslessInv'
  BY <1>1, <1>2, <1>3, <1>6, FrameSizeAssumption DEF LosslessInv
<1>8. Log!NewFrame
  <2>1. Len([i \in 1..Len(output) |-> output[i].values]) = Len(output)
    BY <1>5
  <2> QED BY <1>2, <1>4, <2>1 DEF Log!NewFrame
<1> QED BY <1>7, <1>8 DEF Log!LogNext

(* Every step of the parser behind a link that loses nothing is a step of  *)
(* the abstract log or leaves it alone: each frame is decoded once, in     *)
(* order, and the meter never gets ahead of the log by a whole frame,      *)
(* whatever CR LF its values contain.                                      *)
THEOREM LogImplemented ==
  LosslessSpec => Log!LogInit /\ [][Log!LogNext]_(Log!logVars)
<1>1. StreamInit /\ sent = 0 => LosslessInv /\ Log!LogInit
  <2> SUFFICES ASSUME StreamInit, sent = 0 PROVE LosslessInv /\ Log!LogInit
    OBVIOUS
  <2>1. StreamInv
    BY StreamInitInv
  <2>2. whole /\ inStep
    BY DEF StreamInit
  <2>3. PICK f \in MeterFrames : frames = <<f>>
    BY DEF StreamInit
  <2>4. output = <<>>
    BY DEF StreamInit, ParserInit
  <2>5. Len(frames) = Len(output) + 1
    BY <2>3, <2>4
  <2>6. LosslessInv
    BY <2>1, <2>2, <2>5, FrameSizeAssumption DEF LosslessInv
  <2>7. Log!LogInit
    BY <2>3, <2>4 DEF Log!LogInit
  <2> QED BY <2>6, <2>7
<1>2. LosslessInv /\ [Deliver \/ NextFrame]_streamVars
        => LosslessInv' /\ [Log!LogNext]_(Log!logVars)
  <2> SUFFICES ASSUME LosslessInv, [Deliver \/ NextFrame]_streamVars
               PROVE  LosslessInv' /\ [Log!LogNext]_(Log!logVars)
    OBVIOUS
  <2>1. CASE UNCHANGED streamVars
    <3>1. StreamInv'
      BY <2>1, StutterInv DEF LosslessInv
    <3>2. UNCHANGED <<sent, frames, buffer, output>>
      BY <2>1 DEF streamVars, meterVars, parserVars
    <3>3. whole' /\ inStep'
      BY <2>1 DEF streamVars, meterVars, LosslessInv
    <3>4. LosslessInv'
      BY <3>1, <3>2, <3>3 DEF LosslessInv
    <3>5. UNCHANGED Log!logVars
      BY <3>2 DEF Log!logVars
    <3> QED BY <3>4, <3>5
  <2> QED BY <2>1, LosslessDeliver, LosslessNextFrame
<1> QED
  BY <1>1, <1>2, PTL DEF LosslessSpec

-----------------------------------------------------------------------------
(* The buffer.                                                             *)

(* Bytes of the frame under way that have been sent. *)
UnderWay == IF sent = FrameSize THEN 0 ELSE sent

(* If the byte sent last arrived, the flag is about it. *)
FlagIsLastSent ==
  sent > 0 /\ PreviousArrived => (lastByteWasCarriageReturn <=> Current[sent] = CR)

(* What bounds the buffer while a frame is under way. *)
Filling == Len(buffer) < FrameSize * (torn + 1) + UnderWay

BoundInv ==
  /\ StreamInv
  /\ torn \in Nat /\ gap \in Nat
  /\ FlagIsLastSent
  /\ Filling

(* The bound's steps from one frame to the next. *)
LEMMA FrameSizes ==
  ASSUME NEW t \in Nat
  PROVE  /\ FrameSize * (t + 1) \in Nat
         /\ FrameSize * (t + 2) = FrameSize * (t + 1) + FrameSize
         /\ FrameSize * ((t + 1) + 1) = FrameSize * (t + 1) + FrameSize
         /\ FrameSize * (0 + 1) = FrameSize
         /\ FrameSize <= FrameSize * (t + 1)
<1>1. FrameSize \in Nat
  BY FrameSizeAssumption
<1>2. FrameSize * (t + 1) = FrameSize * t + FrameSize /\ FrameSize * t \in Nat
  BY <1>1
<1>3. FrameSize * (t + 2) = FrameSize * t + FrameSize + FrameSize
  BY <1>1
<1> QED BY <1>1, <1>2, <1>3

(* A delivered byte makes the buffer longer by one, or empties it; with    *)
(* the whole terminator of a frame it leaves less than a frame.            *)
LEMMA DeliverFills ==
  ASSUME BoundInv, Deliver
  PROVE  /\ Len(buffer') <= Len(buffer) + 1
         /\ sent + 1 = FrameSize /\ PreviousArrived => Len(buffer') < FrameSize
<1>1. StreamInv
  BY DEF BoundInv
<1>2. PICK byte \in Byte : byte = Current[sent + 1]
  BY <1>1, DeliverFacts
<1>3. ProcessByte(byte) /\ sent \in 0..FrameSize - 1 /\ buffer \in Seq(Byte)
  BY <1>1, <1>2, DeliverFacts, CountersFromInv DEF StreamInv, Counters
<1>4. PICK s : s = Append(buffer, byte)
  OBVIOUS
<1>5. Len(s) = Len(buffer) + 1 /\ Len(buffer) \in Nat
  BY <1>3, <1>4, AppendFacts
<1>6. \/ FrameIsEnding(byte) /\ LongEnough(s) /\ buffer' = <<>>
      \/ ~(FrameIsEnding(byte) /\ LongEnough(s)) /\ buffer' = s
  BY <1>3, <1>4 DEF ProcessByte, EndFrame, KeepBuffering
<1>7. Len(buffer') <= Len(buffer) + 1
  BY <1>5, <1>6
<1>8. ASSUME sent + 1 = FrameSize, PreviousArrived
      PROVE  Len(buffer') < FrameSize
  <2>1. sent > 0 /\ sent = FrameSize - 1
    BY <1>3, <1>8, FrameSizeAssumption
  <2>2. Current[FrameSize - 1] = CR /\ Current[FrameSize] = LF
    BY <1>1, CurrentIsAFrame, FrameOfTheMeter DEF StreamInv
  <2>3. lastByteWasCarriageReturn
    BY <1>8, <2>1, <2>2 DEF BoundInv, FlagIsLastSent
  <2>4. byte = LF
    BY <1>2, <1>8, <2>2
  <2>5. FrameIsEnding(byte)
    BY <2>3, <2>4 DEF FrameIsEnding
  <2>6. CASE LongEnough(s)
    <3>1. Len(buffer') = 0
      BY <1>6, <2>5, <2>6
    <3> QED BY <3>1, FrameSizeAssumption
  <2>7. CASE ~LongEnough(s)
    BY <1>5, <1>6, <2>7, FrameSizeAssumption DEF LongEnough
  <2> QED BY <2>6, <2>7
<1> QED BY <1>7, <1>8

LEMMA DeliverBound ==
  ASSUME BoundInv, Deliver
  PROVE  BoundInv'
<1>1. StreamInv /\ StreamInv'
  BY DeliverInv DEF BoundInv
<1>2. /\ sent \in 0..FrameSize - 1 /\ sent' = sent + 1 /\ Current' = Current
      /\ ProcessByte(Current[sent + 1])
  BY <1>1, DeliverFacts
<1>3. /\ Len(buffer) \in Nat /\ Len(buffer') \in Nat
  BY <1>1, CountersFromInv DEF StreamInv, IInv, TypeOK
<1>4. torn \in Nat /\ gap' = gap /\ gap \in Nat
  BY DEF BoundInv, Deliver
<1>5. FlagIsLastSent'
  <2>1. lastByteWasCarriageReturn' = (Current[sent + 1] = CR)
    BY <1>2 DEF ProcessByte
  <2>2. Current'[sent'] = Current[sent + 1]
    BY <1>2
  <2> QED BY <2>1, <2>2 DEF FlagIsLastSent
<1>6. PICK k \in Nat : k = FrameSize * (torn + 1)
  BY <1>4, FrameSizes
<1>7. Len(buffer) < k + sent
  BY <1>2, <1>6, FrameSizeAssumption DEF BoundInv, Filling, UnderWay
<1>8. CASE sent + 1 < FrameSize
  <2>1. torn' = torn
    BY <1>8 DEF Deliver
  <2>2. Len(buffer') < k + (sent + 1)
    BY <1>2, <1>3, <1>7, DeliverFills
  <2>3. UnderWay' = sent + 1
    BY <1>2, <1>8, FrameSizeAssumption DEF UnderWay
  <2>4. Filling'
    BY <1>6, <2>1, <2>2, <2>3 DEF Filling
  <2> QED BY <1>1, <1>4, <1>5, <2>1, <2>4 DEF BoundInv
<1>9. CASE sent + 1 = FrameSize
  <2>1. UnderWay' = 0
    BY <1>2, <1>9 DEF UnderWay
  <2>2. CASE PreviousArrived
    <3>1. torn' = 0
      BY <1>9, <2>2, FrameSizeAssumption DEF Deliver
    <3>2. Len(buffer') < FrameSize * (0 + 1)
      BY <1>9, <2>2, <1>4, DeliverFills, FrameSizes
    <3>3. Filling'
      <4>1. Len(buffer') < FrameSize * (0 + 1) + 0
        BY <3>2, FrameSizeAssumption
      <4> QED BY <2>1, <3>1, <4>1 DEF Filling
    <3> QED BY <1>1, <1>4, <1>5, <3>1, <3>3 DEF BoundInv
  <2>3. CASE ~PreviousArrived
    <3>1. torn' = torn + 1
      BY <1>9, <2>3, FrameSizeAssumption DEF Deliver
    <3>2. FrameSize * ((torn + 1) + 1) = k + FrameSize
      BY <1>4, <1>6, FrameSizes
    <3>3. Len(buffer') < k + FrameSize
      BY <1>2, <1>3, <1>7, <1>9, DeliverFills, FrameSizeAssumption
    <3>4. Filling'
      <4>1. Len(buffer') < FrameSize * ((torn + 1) + 1) + 0
        BY <3>2, <3>3, FrameSizeAssumption
      <4> QED BY <2>1, <3>1, <4>1 DEF Filling
    <3>5. torn' \in Nat
      BY <1>4, <3>1
    <3> QED BY <1>1, <1>4, <1>5, <3>4, <3>5 DEF BoundInv
  <2> QED BY <2>2, <2>3
<1> QED BY <1>2, <1>8, <1>9, FrameSizeAssumption

LEMMA LoseBound ==
  ASSUME BoundInv, Lose
  PROVE  BoundInv'
<1>1. StreamInv /\ StreamInv'
  BY LoseInv DEF BoundInv
<1>2. /\ sent \in 0..FrameSize - 1 /\ sent' = sent + 1
      /\ UNCHANGED <<buffer, received>>
      /\ gap' = Len(received)
  BY <1>1, FrameSizeAssumption DEF Lose, StreamInv, MeterTypes, parserVars
<1>3. Len(buffer) \in Nat /\ received \in Seq(Byte) /\ torn \in Nat
  BY <1>1, CountersFromInv DEF StreamInv, IInv, TypeOK, BoundInv
<1>4. gap' \in Nat
  BY <1>2, <1>3
<1>5. FlagIsLastSent'
  <2>1. ~PreviousArrived'
    BY <1>2, <1>3 DEF PreviousArrived
  <2> QED BY <2>1 DEF FlagIsLastSent
<1>6. PICK k \in Nat : k = FrameSize * (torn + 1)
  BY <1>3, FrameSizes
<1>7. Len(buffer) < k + sent
  BY <1>2, <1>6, FrameSizeAssumption DEF BoundInv, Filling, UnderWay
<1>8. CASE sent + 1 < FrameSize
  <2>1. torn' = torn
    BY <1>8 DEF Lose
  <2>2. UnderWay' = sent + 1
    BY <1>2, <1>8, FrameSizeAssumption DEF UnderWay
  <2>3. Len(buffer') < k + (sent + 1)
    BY <1>2, <1>3, <1>7
  <2>4. Filling'
    BY <1>6, <2>1, <2>2, <2>3 DEF Filling
  <2> QED BY <1>1, <1>3, <1>4, <1>5, <2>1, <2>4 DEF BoundInv
<1>9. CASE sent + 1 = FrameSize
  <2>1. torn' = torn + 1 /\ torn' \in Nat
    BY <1>3, <1>9, FrameSizeAssumption DEF Lose
  <2>2. UnderWay' = 0
    BY <1>2, <1>9 DEF UnderWay
  <2>3. FrameSize * ((torn + 1) + 1) = k + FrameSize
    BY <1>3, <1>6, FrameSizes
  <2>4. Len(buffer') < FrameSize * ((torn + 1) + 1) + 0
    BY <1>2, <1>3, <1>7, <1>9, <2>3, FrameSizeAssumption
  <2>5. Filling'
    BY <2>1, <2>2, <2>4 DEF Filling
  <2> QED BY <1>1, <1>4, <1>5, <2>1, <2>5 DEF BoundInv
<1> QED BY <1>2, <1>8, <1>9, FrameSizeAssumption

LEMMA NextFrameBound ==
  ASSUME BoundInv, NextFrame
  PROVE  BoundInv'
<1>1. StreamInv'
  BY NextFrameInv DEF BoundInv
<1>2. sent = FrameSize /\ sent' = 0 /\ UNCHANGED <<gap, torn, buffer>>
  BY DEF NextFrame, parserVars
<1>3. UnderWay = 0 /\ UnderWay' = 0
  BY <1>2 DEF UnderWay
<1>4. Filling'
  BY <1>2, <1>3 DEF BoundInv, Filling
<1>5. FlagIsLastSent'
  BY <1>2 DEF FlagIsLastSent
<1> QED BY <1>1, <1>2, <1>4, <1>5 DEF BoundInv

(* The buffer never outgrows two frames, and one more for each terminator  *)
(* in a row that did not arrive.                                           *)
THEOREM BufferBounded == StreamSpec => []BufferIsBounded
<1>1. StreamInit => BoundInv
  <2> SUFFICES ASSUME StreamInit PROVE BoundInv
    OBVIOUS
  <2>1. StreamInv
    BY StreamInitInv
  <2>2. /\ torn = 0 /\ gap = 0 /\ Len(buffer) = 0 /\ Len(received) = 0
        /\ sent \in 0..FrameSize - 1
    BY DEF StreamInit, ParserInit
  <2>3. FlagIsLastSent
    BY <2>2 DEF FlagIsLastSent, PreviousArrived
  <2>4. FrameSize * (0 + 1) = FrameSize
    BY FrameSizes
  <2>5. Filling
    BY <2>2, <2>4, FrameSizeAssumption DEF Filling, UnderWay
  <2> QED BY <2>1, <2>2, <2>3, <2>5 DEF BoundInv
<1>2. BoundInv /\ [StreamNext]_streamVars => BoundInv'
  <2> SUFFICES ASSUME BoundInv, [StreamNext]_streamVars PROVE BoundInv'
    OBVIOUS
  <2>1. CASE UNCHANGED streamVars
    <3>1. StreamInv'
      BY <2>1, StutterInv DEF BoundInv
    <3>2. UNCHANGED <<sent, gap, torn, frames, buffer, received>>
            /\ UNCHANGED lastByteWasCarriageReturn
      BY <2>1 DEF streamVars, meterVars, parserVars
    <3>3. Current' = Current /\ UnderWay' = UnderWay
      BY <3>2 DEF Current, UnderWay
    <3>4. FlagIsLastSent'
      BY <3>2, <3>3 DEF BoundInv, FlagIsLastSent, PreviousArrived
    <3>5. Filling'
      BY <3>2, <3>3 DEF BoundInv, Filling
    <3> QED BY <3>1, <3>2, <3>4, <3>5 DEF BoundInv
  <2> QED BY <2>1, DeliverBound, LoseBound, NextFrameBound DEF StreamNext
<1>3. BoundInv => BufferIsBounded
  <2> SUFFICES ASSUME BoundInv PROVE BufferIsBounded
    OBVIOUS
  <2>1. torn \in Nat /\ sent \in 0..FrameSize /\ Len(buffer) \in Nat
    BY CountersFromInv DEF BoundInv, StreamInv, MeterTypes, IInv, TypeOK
  <2>2. PICK k \in Nat : k = FrameSize * (torn + 1)
    BY <2>1, FrameSizes
  <2>3. FrameSize * (torn + 2) = k + FrameSize
    BY <2>1, <2>2, FrameSizes
  <2>4. Len(buffer) < k + FrameSize
    BY <2>1, <2>2, FrameSizeAssumption DEF BoundInv, Filling, UnderWay
  <2> QED BY <2>3, <2>4 DEF BufferIsBounded
<1> QED BY <1>1, <1>2, <1>3, PTL DEF StreamSpec

-----------------------------------------------------------------------------
(* Losses that no row shows.                                               *)

(* What was buffered and what was lost since the last row is whole frames  *)
(* and the bytes of the one under way.                                     *)
WholeFramesPassed ==
  \E k \in Nat : Len(buffer) + lost = k * FrameSize + UnderWay

LossInv ==
  /\ StreamInv
  /\ lost \in Nat
  /\ WholeFramesPassed
  /\ ~whole /\ sent < FrameSize => lost > 0
  /\ SilentLossIsWholeFrames

(* Only the last byte of a frame ends a row. *)
LEMMA RowsEndWithFrames ==
  ASSUME LineFeedsEndFrames, StreamInv, Deliver, output' # output
  PROVE  sent + 1 = FrameSize
<1>1. /\ sent \in 0..FrameSize - 1 /\ ProcessByte(Current[sent + 1])
      /\ Current \in MeterFrames
  BY DeliverFacts, CurrentIsAFrame DEF StreamInv
<1>2. Current[sent + 1] = LF
  BY <1>1 DEF ProcessByte, KeepBuffering, FrameIsEnding
<1>3. \A n \in 1..FrameSize - 1 : Current[n] # LF
  BY <1>1 DEF LineFeedsEndFrames
<1>4. sent + 1 \in 1..FrameSize
  BY <1>1, FrameSizeAssumption
<1> QED BY <1>2, <1>3, <1>4, FrameSizeAssumption

(* One more row is another list of rows, and the row is its last. *)
LEMMA OneMoreRow ==
  ASSUME NEW R, NEW q \in Seq(R), NEW r
  PROVE  Append(q, r) # q /\ Append(q, r)[Len(Append(q, r))] = r
<1>1. Len(q) \in Nat /\ Len(Append(q, r)) = Len(q) + 1 /\ Append(q, r)[Len(q) + 1] = r
  OBVIOUS
<1> QED BY <1>1

(* What is left of a multiple of the frame size. *)
LEMMA MultipleOfFrameSize ==
  ASSUME NEW k \in Nat
  PROVE  /\ k * FrameSize \in Nat
         /\ (k * FrameSize) % FrameSize = 0
         /\ (k + 1) * FrameSize = k * FrameSize + FrameSize
         /\ 0 * FrameSize = 0
<1>1. FrameSize \in Nat \ {0}
  BY FrameSizeAssumption
<1>2. PICK F \in Nat \ {0} : F = FrameSize
  BY <1>1
<1>3. k * F \in Nat /\ (k * F) % F = 0
  OBVIOUS
<1>4. (k + 1) * F = k * F + F /\ 0 * F = 0
  OBVIOUS
<1> QED BY <1>2, <1>3, <1>4

(* A byte that is passed over, buffered or lost, keeps the count. *)
LEMMA OneMorePassed ==
  ASSUME NEW n \in Nat, NEW s \in 0..FrameSize - 1,
         \E k \in Nat : n = k * FrameSize + s
  PROVE  \E k \in Nat : n + 1 = k * FrameSize + (IF s + 1 = FrameSize THEN 0 ELSE s + 1)
<1>1. PICK k \in Nat : n = k * FrameSize + s
  OBVIOUS
<1>2. PICK m \in Nat : m = k * FrameSize /\ (k + 1) * FrameSize = m + FrameSize
  BY MultipleOfFrameSize
<1>3. CASE s + 1 = FrameSize
  <2>1. n + 1 = (k + 1) * FrameSize + 0
    BY <1>1, <1>2, <1>3, FrameSizeAssumption
  <2>2. k + 1 \in Nat
    OBVIOUS
  <2> QED BY <1>3, <2>1, <2>2
<1>4. CASE s + 1 # FrameSize
  <2>1. n + 1 = k * FrameSize + (s + 1)
    BY <1>1, <1>2
  <2> QED BY <1>4, <2>1
<1> QED BY <1>3, <1>4

LEMMA DeliverRowLoss ==
  ASSUME LineFeedsEndFrames, LossInv, Deliver, output' # output
  PROVE  LossInv'
<1>1. StreamInv /\ StreamInv'
  BY DeliverInv DEF LossInv
<1>2. /\ sent \in 0..FrameSize - 1 /\ sent' = sent + 1
      /\ sent + 1 = FrameSize
      /\ ProcessByte(Current[sent + 1])
  BY <1>1, DeliverFacts, RowsEndWithFrames
<1>3. /\ lost' = 0 /\ row'.genuine = (whole /\ sent + 1 = FrameSize) /\ row'.lost = lost
      /\ whole' = whole
  BY DEF Deliver
<1>4. PICK s : s = Append(buffer, Current[sent + 1])
  OBVIOUS
<1>5. EndFrame(s, byteCount + 1)
  BY <1>2, <1>4 DEF ProcessByte, KeepBuffering
<1>6. buffer' = <<>> /\ output' = Append(output, Line(s, byteCount + 1))
  BY <1>5 DEF EndFrame
<1>7. UnderWay' = 0 /\ UnderWay = sent
  BY <1>2, FrameSizeAssumption DEF UnderWay
<1>8. WholeFramesPassed'
  <2>1. Len(buffer') + lost' = 0 * FrameSize + 0
    BY <1>3, <1>6, MultipleOfFrameSize
  <2> QED BY <1>7, <2>1 DEF WholeFramesPassed
<1>9. SilentLossIsWholeFrames'
  <2> SUFFICES ASSUME output' # <<>>, LastRow'.diff = 0, ~row'.genuine
               PROVE  row'.lost > 0 /\ row'.lost % FrameSize = 0
    BY DEF SilentLossIsWholeFrames
  <2>1. LastRow' = Line(s, byteCount + 1)
    <3>1. output \in Seq(Lines)
      BY <1>1 DEF StreamInv, IInv, TypeOK
    <3>2. output'[Len(output')] = Line(s, byteCount + 1)
      BY <1>6, <3>1, OneMoreRow
    <3> QED BY <3>2 DEF LastRow
  <2>2. AlignmentError(byteCount + 1) = 0
    BY <2>1 DEF Line
  <2>3. /\ Len(buffer) \in Nat /\ byteCount \in Nat /\ lastFrameByteCount \in Nat
        /\ byteCount = lastFrameByteCount + Len(buffer)
    BY <1>1, CountersFromInv DEF StreamInv, IInv, TypeOK, Counters, CountersAgree
  <2>4. Len(buffer) + 1 = FrameSize
    BY <2>2, <2>3, FrameSizeAssumption DEF AlignmentError
  <2>5. PICK k \in Nat : Len(buffer) + lost = k * FrameSize + sent
    BY <1>7 DEF LossInv, WholeFramesPassed
  <2>6. lost = k * FrameSize
    BY <1>2, <2>3, <2>4, <2>5, MultipleOfFrameSize, FrameSizeAssumption DEF LossInv
  <2>7. ~whole
    BY <1>2, <1>3
  <2>8. lost > 0
    BY <1>2, <2>7, FrameSizeAssumption DEF LossInv
  <2> QED BY <1>3, <2>6, <2>8, MultipleOfFrameSize
<1>10. lost' \in Nat
  BY <1>3
<1>11. ~(sent' < FrameSize)
  BY <1>2, FrameSizeAssumption
<1> QED BY <1>1, <1>8, <1>9, <1>10, <1>11 DEF LossInv

LEMMA DeliverNoRowLoss ==
  ASSUME LossInv, Deliver, output' = output
  PROVE  LossInv'
<1>1. StreamInv /\ StreamInv'
  BY DeliverInv DEF LossInv
<1>2. /\ sent \in 0..FrameSize - 1 /\ sent' = sent + 1
      /\ Current[sent + 1] \in Byte
      /\ ProcessByte(Current[sent + 1])
  BY <1>1, DeliverFacts
<1>3. UNCHANGED <<lost, row, whole>>
  BY DEF Deliver
<1>4. PICK s : s = Append(buffer, Current[sent + 1])
  OBVIOUS
<1>5. output \in Seq(Lines) /\ buffer \in Seq(Byte)
  BY <1>1 DEF StreamInv, IInv, TypeOK
<1>6. Append(output, Line(s, byteCount + 1)) # output
  BY <1>5, OneMoreRow
<1>7. buffer' = s
  BY <1>2, <1>4, <1>6 DEF ProcessByte, EndFrame, KeepBuffering
<1>8. Len(buffer') = Len(buffer) + 1 /\ Len(buffer) \in Nat
  BY <1>2, <1>4, <1>5, <1>7, AppendFacts
<1>9. WholeFramesPassed'
  <2>1. UnderWay = sent /\ UnderWay' = IF sent + 1 = FrameSize THEN 0 ELSE sent + 1
    BY <1>2, FrameSizeAssumption DEF UnderWay
  <2>2. PICK n \in Nat : n = Len(buffer) + lost
    BY <1>8 DEF LossInv
  <2>3. \E k \in Nat : n = k * FrameSize + sent
    BY <2>1, <2>2 DEF LossInv, WholeFramesPassed
  <2>4. Len(buffer') + lost' = n + 1
    BY <1>3, <1>8, <2>2 DEF LossInv
  <2>5. \E k \in Nat : n + 1 = k * FrameSize + UnderWay'
    BY <1>2, <2>1, <2>3, OneMorePassed
  <2> QED BY <2>4, <2>5 DEF WholeFramesPassed
<1>10. ~whole' /\ sent' < FrameSize => lost' > 0
  BY <1>2, <1>3, FrameSizeAssumption DEF LossInv
<1>11. SilentLossIsWholeFrames'
  BY <1>3 DEF LossInv, SilentLossIsWholeFrames, LastRow
<1> QED BY <1>1, <1>3, <1>9, <1>10, <1>11 DEF LossInv

LEMMA LoseLoss ==
  ASSUME LossInv, Lose
  PROVE  LossInv'
<1>1. StreamInv'
  BY LoseInv DEF LossInv
<1>2. /\ sent \in 0..FrameSize - 1 /\ sent' = sent + 1
      /\ UNCHANGED <<buffer, output, row>>
      /\ lost' = lost + 1 /\ lost \in Nat /\ Len(buffer) \in Nat
  BY CountersFromInv, FrameSizeAssumption
     DEF Lose, LossInv, StreamInv, MeterTypes, parserVars, IInv, TypeOK
<1>3. WholeFramesPassed'
  <2>1. UnderWay = sent /\ UnderWay' = IF sent + 1 = FrameSize THEN 0 ELSE sent + 1
    BY <1>2, FrameSizeAssumption DEF UnderWay
  <2>2. PICK n \in Nat : n = Len(buffer) + lost
    BY <1>2
  <2>3. \E k \in Nat : n = k * FrameSize + sent
    BY <2>1, <2>2 DEF LossInv, WholeFramesPassed
  <2>4. Len(buffer') + lost' = n + 1
    BY <1>2, <2>2
  <2>5. \E k \in Nat : n + 1 = k * FrameSize + UnderWay'
    BY <1>2, <2>1, <2>3, OneMorePassed
  <2> QED BY <2>4, <2>5 DEF WholeFramesPassed
<1>4. lost' \in Nat /\ lost' > 0
  BY <1>2
<1>5. SilentLossIsWholeFrames'
  BY <1>2 DEF LossInv, SilentLossIsWholeFrames, LastRow
<1> QED BY <1>1, <1>3, <1>4, <1>5 DEF LossInv

LEMMA NextFrameLoss ==
  ASSUME LossInv, NextFrame
  PROVE  LossInv'
<1>1. StreamInv'
  BY NextFrameInv DEF LossInv
<1>2. sent = FrameSize /\ sent' = 0 /\ whole' /\ UNCHANGED <<buffer, output, row, lost>>
  BY DEF NextFrame, parserVars
<1>3. UnderWay = 0 /\ UnderWay' = 0
  BY <1>2 DEF UnderWay
<1>4. WholeFramesPassed'
  BY <1>2, <1>3 DEF LossInv, WholeFramesPassed
<1>5. SilentLossIsWholeFrames'
  BY <1>2 DEF LossInv, SilentLossIsWholeFrames, LastRow
<1>6. lost' \in Nat
  BY <1>2 DEF LossInv
<1> QED BY <1>1, <1>2, <1>4, <1>5, <1>6 DEF LossInv

(* If only the last byte of a frame is an LF, the losses that no alignment *)
(* error reports are whole frame sizes, for every frame size and any       *)
(* losses.                                                                 *)
THEOREM SilentLossCounted ==
  ASSUME LineFeedsEndFrames
  PROVE  StreamSpec => []SilentLossIsWholeFrames
<1>1. StreamInit => LossInv
  <2> SUFFICES ASSUME StreamInit PROVE LossInv
    OBVIOUS
  <2>1. StreamInv
    BY StreamInitInv
  <2>2. /\ sent \in 0..FrameSize - 1 /\ lost = sent /\ whole = (sent = 0)
        /\ Len(buffer) = 0 /\ output = <<>>
    BY DEF StreamInit, ParserInit
  <2>3. lost \in Nat /\ (~whole => lost > 0)
    <3>1. sent \in Nat /\ (sent # 0 => sent > 0)
      BY <2>2, FrameSizeAssumption
    <3>2. ~whole => sent # 0
      BY <2>2
    <3> QED BY <2>2, <3>1, <3>2
  <2>4. WholeFramesPassed
    <3>1. UnderWay = sent
      BY <2>2, FrameSizeAssumption DEF UnderWay
    <3>2. Len(buffer) + lost = 0 * FrameSize + sent
      BY <2>2, MultipleOfFrameSize
    <3> QED BY <3>1, <3>2 DEF WholeFramesPassed
  <2>5. SilentLossIsWholeFrames
    BY <2>2 DEF SilentLossIsWholeFrames
  <2> QED BY <2>1, <2>3, <2>4, <2>5 DEF LossInv
<1>2. LossInv /\ [StreamNext]_streamVars => LossInv'
  <2> SUFFICES ASSUME LossInv, [StreamNext]_streamVars PROVE LossInv'
    OBVIOUS
  <2>1. CASE UNCHANGED streamVars
    <3>1. StreamInv'
      BY <2>1, StutterInv DEF LossInv
    <3>2. UNCHANGED <<sent, whole, lost, row, buffer, output>>
      BY <2>1 DEF streamVars, meterVars, parserVars
    <3>3. UnderWay' = UnderWay
      BY <3>2 DEF UnderWay
    <3>4. WholeFramesPassed'
      BY <3>2, <3>3 DEF LossInv, WholeFramesPassed
    <3>5. SilentLossIsWholeFrames'
      BY <3>2 DEF LossInv, SilentLossIsWholeFrames, LastRow
    <3> QED BY <3>1, <3>2, <3>4, <3>5 DEF LossInv
  <2> QED
    BY <2>1, DeliverRowLoss, DeliverNoRowLoss, LoseLoss, NextFrameLoss DEF StreamNext
<1>3. LossInv => SilentLossIsWholeFrames
  BY DEF LossInv
<1> QED BY <1>1, <1>2, <1>3, PTL DEF StreamSpec

-----------------------------------------------------------------------------
(* Readings out of step.                                                   *)

(* The sizes, the bytes, the meter and the decoder are those of the code.  *)
RealMeter ==
  /\ Byte = FrameByte /\ CR = 13 /\ LF = 10 /\ FrameSize = frame_size
  /\ \A f \in MeterFrames : IsFramed(f)
  /\ \A d \in [1..frame_size -> FrameByte] : ProcessFrame(d) = processFrame(d)

(* Bytes received since the last loss. *)
Arrived == Len(received) - gap

(* The byte the meter sent i - 1 bytes before the last one. *)
LastSent(i) ==
  IF i <= sent THEN Current[sent + 1 - i]
  ELSE frames[Len(frames) - 1][FrameSize + sent + 1 - i]

(* What was received since the last loss is what the meter sent, across    *)
(* the frame boundary.                                                     *)
ReceivedIsSent ==
  \A i \in 1..FrameSize - 1 :
    i <= Arrived => received[Len(received) + 1 - i] = LastSent(i)

ReadingInv ==
  /\ StreamInv
  /\ gap \in 0..Len(received)
  /\ ~whole => Arrived < sent
  /\ Arrived > sent => Len(frames) > 1
  /\ ReceivedIsSent
  /\ NoFalseReading

(* The bytes of a frame are numbered within it. *)
LEMMA ReceivedTypes ==
  ASSUME StreamInv
  PROVE  /\ received \in Seq(Byte) /\ buffer \in Seq(Byte) /\ output \in Seq(Lines)
         /\ Len(received) \in Nat /\ Len(buffer) \in Nat
         /\ byteCount = Len(received)
         /\ byteCount = lastFrameByteCount + Len(buffer)
         /\ lastFrameByteCount \in Nat
BY CountersFromInv DEF StreamInv, Counters, CountersAgree

(* A row cut from bytes that followed each other is a frame that arrived   *)
(* whole, or the end of one frame and the beginning of the next.           *)
LEMMA ContiguousWindow ==
  ASSUME ReadingInv, NEW byte \in Byte, byte = Current[sent + 1],
         sent + 1 < FrameSize, Arrived + 1 >= FrameSize,
         FrameIsEnding(byte), NEW s, s = Append(buffer, byte), LongEnough(s)
  PROVE  /\ Len(frames) > 1
         /\ LastFrame(s) = [i \in 1..FrameSize |->
              IF i + (sent + 1) <= FrameSize
              THEN frames[Len(frames) - 1][i + (sent + 1)]
              ELSE Current[i + (sent + 1) - FrameSize]]
         /\ LastFrame(s)[FrameSize - 1] = CR /\ LastFrame(s)[FrameSize] = LF
<1>1. StreamInv /\ sent \in 0..FrameSize /\ FrameSize \in Nat /\ FrameSize >= 2
  BY FrameSizeAssumption DEF ReadingInv, StreamInv, MeterTypes
<1>2. PICK r \in Nat, b \in Nat, l \in Nat :
        r = Len(received) /\ b = Len(buffer) /\ l = lastFrameByteCount /\ r = l + b
  BY <1>1, ReceivedTypes
<1>3. s \in Seq(Byte) /\ Len(s) = b + 1 /\ s[b + 1] = byte /\ \A i \in 1..b : s[i] = buffer[i]
  BY <1>1, <1>2, ReceivedTypes, AppendFacts
<1>4. b + 1 >= FrameSize
  BY <1>3 DEF LongEnough
<1>5. \A i \in 1..b : buffer[i] = received[l + i]
  BY <1>1, <1>2 DEF StreamInv, IInv, BufferIsUnframedTail, BufferIsTail
<1>6. Arrived \in Int /\ Arrived > sent /\ Arrived >= FrameSize - 1
  BY <1>1, <1>2 DEF ReadingInv, Arrived
<1>7. \A i \in 1..FrameSize - 1 : s[b + 1 - FrameSize + i] = LastSent(FrameSize - i)
  <2> SUFFICES ASSUME NEW i \in 1..FrameSize - 1
               PROVE  s[b + 1 - FrameSize + i] = LastSent(FrameSize - i)
    OBVIOUS
  <2>1. PICK j \in 1..FrameSize - 1 : j = FrameSize - i
    BY <1>1
  <2>2. b + 1 - j \in 1..b /\ b + 1 - FrameSize + i = b + 1 - j /\ l + (b + 1 - j) = r + 1 - j
    BY <1>1, <1>2, <1>4, <2>1
  <2>3. s[b + 1 - j] = received[r + 1 - j]
    BY <1>3, <1>5, <2>2
  <2>4. received[r + 1 - j] = LastSent(j)
    BY <1>1, <1>2, <1>6 DEF ReadingInv, ReceivedIsSent
  <2> QED BY <2>1, <2>2, <2>3, <2>4
<1>8. /\ LastFrame(s) = [i \in 1..FrameSize |-> LastFrame(s)[i]]
      /\ \A i \in 1..FrameSize : LastFrame(s)[i] = s[b + 1 - FrameSize + i]
  <2>1. LastFrame(s) = [i \in 1..FrameSize |-> LastFrame(s)[i]]
    BY DEF LastFrame
  <2>2. \A i \in 1..FrameSize : LastFrame(s)[i] = s[Len(s) - FrameSize + i]
    BY DEF LastFrame
  <2>3. Len(s) - FrameSize = b + 1 - FrameSize
    BY <1>1, <1>2, <1>3
  <2> QED BY <2>1, <2>2, <2>3
<1>9. \A i \in 1..FrameSize :
        s[b + 1 - FrameSize + i] =
          IF i + (sent + 1) <= FrameSize
          THEN frames[Len(frames) - 1][i + (sent + 1)]
          ELSE Current[i + (sent + 1) - FrameSize]
  <2> SUFFICES ASSUME NEW i \in 1..FrameSize
               PROVE  s[b + 1 - FrameSize + i] =
                        IF i + (sent + 1) <= FrameSize
                        THEN frames[Len(frames) - 1][i + (sent + 1)]
                        ELSE Current[i + (sent + 1) - FrameSize]
    OBVIOUS
  <2>1. CASE i = FrameSize
    <3>1. b + 1 - FrameSize + i = b + 1 /\ i + (sent + 1) - FrameSize = sent + 1
          /\ ~(i + (sent + 1) <= FrameSize)
      BY <1>1, <1>2, <2>1
    <3> QED BY <1>3, <3>1
  <2>2. CASE i < FrameSize /\ i + (sent + 1) <= FrameSize
    <3>1. ~(FrameSize - i <= sent) /\ FrameSize + sent + 1 - (FrameSize - i) = i + (sent + 1)
      BY <1>1, <2>2
    <3>2. i \in 1..FrameSize - 1
      BY <1>1, <2>2
    <3> QED BY <1>7, <2>2, <3>1, <3>2 DEF LastSent
  <2>3. CASE i < FrameSize /\ ~(i + (sent + 1) <= FrameSize)
    <3>1. FrameSize - i <= sent /\ sent + 1 - (FrameSize - i) = i + (sent + 1) - FrameSize
      BY <1>1, <2>3
    <3>2. i \in 1..FrameSize - 1
      BY <1>1, <2>3
    <3> QED BY <1>7, <2>3, <3>1, <3>2 DEF LastSent
  <2>4. i = FrameSize \/ i < FrameSize
    BY <1>1
  <2> QED BY <2>1, <2>2, <2>3, <2>4
<1>10. LastFrame(s)[FrameSize] = byte /\ byte = LF
  <2>1. b + 1 - FrameSize + FrameSize = b + 1 /\ FrameSize \in 1..FrameSize
    BY <1>1, <1>2
  <2> QED BY <1>3, <1>8, <2>1 DEF FrameIsEnding
<1>11. LastFrame(s)[FrameSize - 1] = CR
  <2>1. received[byteCount] = CR
    BY <1>1 DEF FrameIsEnding, StreamInv, IInv, BufferIsUnframedTail, FlagIsLastByte
  <2>2. received[r] = CR
    BY <1>1, <1>2, <2>1, ReceivedTypes
  <2>3. /\ b \in 1..b /\ l + b = r /\ b + 1 - FrameSize + (FrameSize - 1) = b
        /\ FrameSize - 1 \in 1..FrameSize
    BY <1>1, <1>2, <1>4
  <2>4. s[b] = CR
    BY <1>3, <1>5, <2>2, <2>3
  <2> QED BY <1>8, <2>3, <2>4
<1>12. Len(frames) > 1
  BY <1>6 DEF ReadingInv
<1>13. \A i \in 1..FrameSize :
         LastFrame(s)[i] =
           IF i + (sent + 1) <= FrameSize
           THEN frames[Len(frames) - 1][i + (sent + 1)]
           ELSE Current[i + (sent + 1) - FrameSize]
  BY <1>8, <1>9
<1> QED BY <1>8, <1>10, <1>11, <1>12, <1>13

(* The real decoder shows no values for such a piece of two frames. *)
LEMMA PieceIsRefused ==
  ASSUME RealMeter, StreamInv, NEW k \in 1..FrameSize - 1, Len(frames) > 1, NEW w,
         w = [i \in 1..FrameSize |->
                IF i + k <= FrameSize THEN frames[Len(frames) - 1][i + k]
                ELSE Current[i + k - FrameSize]],
         w[FrameSize - 1] = CR, w[FrameSize] = LF
  PROVE  ProcessFrame(w) = Refused
<1>1. FrameSize = 17 /\ CR = 13 /\ LF = 10 /\ frame_size = 17
  BY DEF RealMeter, frame_size
<1>2. Len(frames) - 1 \in 1..Len(frames) /\ frames \in Seq(MeterFrames)
  BY DEF StreamInv, MeterTypes
<1>3. PICK f \in MeterFrames : f = frames[Len(frames) - 1]
  BY <1>2
<1>4. PICK g \in MeterFrames : g = Current
  BY CurrentIsAFrame DEF StreamInv
<1>5. IsFramed(f) /\ IsFramed(g)
  BY <1>3, <1>4 DEF RealMeter
<1>6. w = Misaligned(f, g, k)
  BY <1>1, <1>3, <1>4 DEF Misaligned
<1>7. EndsInCRLF(Misaligned(f, g, k))
  <2>1. FrameSize - 1 = 16
    BY <1>1
  <2>2. w[16] = 13 /\ w[17] = 10
    BY <1>1, <2>1
  <2> QED BY <1>6, <2>2 DEF EndsInCRLF
<1>8. processFrame(w) = Refused
  <2>1. k \in 1..16
    BY <1>1
  <2>2. processFrame(Misaligned(f, g, k)) = Refused
    BY <1>5, <1>7, <2>1, MisalignedIsRefused
  <2> QED BY <1>6, <2>2
<1>9. w \in [1..frame_size -> FrameByte]
  <2>1. f \in [1..17 -> FrameByte] /\ g \in [1..17 -> FrameByte]
    BY <1>5 DEF IsFramed, frame_size
  <2>2. ASSUME NEW i \in 1..17
        PROVE  /\ i + k <= 17 => i + k \in 1..17
               /\ ~(i + k <= 17) => i + k - 17 \in 1..17
    <3>1. k \in 1..16
      BY <1>1
    <3> QED BY <3>1
  <2>3. w = [i \in 1..17 |-> IF i + k <= 17 THEN f[i + k] ELSE g[i + k - 17]]
    BY <1>1, <1>3, <1>4
  <2>4. ASSUME NEW i \in 1..17
        PROVE  (IF i + k <= 17 THEN f[i + k] ELSE g[i + k - 17]) \in FrameByte
    BY <2>1, <2>2
  <2>5. w \in [1..17 -> FrameByte]
    BY <2>3, <2>4
  <2> QED BY <1>1, <2>5
<1> QED BY <1>8, <1>9 DEF RealMeter

(* A row of bytes that followed each other is a frame or shows no values.  *)
LEMMA RowIsHonest ==
  ASSUME RealMeter, ReadingInv, Deliver, output' # output
  PROVE  NoFalseReading'
<1> SUFFICES ASSUME row'.contiguous, LastRow'.values # Refused
             PROVE  row'.genuine
  BY DEF NoFalseReading
<1>1. StreamInv /\ FrameSize \in Nat /\ FrameSize >= 2
  BY FrameSizeAssumption DEF ReadingInv
<1>2. PICK byte \in Byte : byte = Current[sent + 1]
  BY <1>1, DeliverFacts
<1>3. sent \in 0..FrameSize - 1 /\ ProcessByte(byte)
  BY <1>1, <1>2, DeliverFacts
<1>4. PICK s : s = Append(buffer, byte)
  OBVIOUS
<1>5. FrameIsEnding(byte) /\ LongEnough(s) /\ EndFrame(s, byteCount + 1)
  BY <1>3, <1>4 DEF ProcessByte, KeepBuffering
<1>6. LastRow'.values = ProcessFrame(LastFrame(s))
  <2>1. output' = Append(output, Line(s, byteCount + 1))
    BY <1>5 DEF EndFrame
  <2>2. output'[Len(output')] = Line(s, byteCount + 1)
    BY <1>1, <2>1, ReceivedTypes, OneMoreRow
  <2> QED BY <2>2 DEF LastRow, Line
<1>7. /\ whole /\ sent + 1 = FrameSize => row'.genuine
      /\ Len(received) + 1 - gap >= FrameSize
  <2>1. row' = [genuine    |-> whole /\ sent + 1 = FrameSize,
                contiguous |-> Len(received) + 1 - gap >= FrameSize,
                lost       |-> lost]
    BY DEF Deliver
  <2>2. row'.genuine = (whole /\ sent + 1 = FrameSize)
    BY <2>1
  <2>3. row'.contiguous = (Len(received) + 1 - gap >= FrameSize)
    BY <2>1
  <2> QED BY <2>2, <2>3
<1>8. Arrived + 1 >= FrameSize /\ Arrived \in Int
  <2>1. Len(received) + 1 - gap >= FrameSize
    BY <1>7
  <2>2. gap \in Int /\ Len(received) \in Int
    BY <1>1, ReceivedTypes DEF ReadingInv
  <2> QED BY <1>1, <2>1, <2>2 DEF Arrived
<1>9. sent + 1 = FrameSize
  <2> SUFFICES ASSUME sent + 1 # FrameSize PROVE FALSE
    OBVIOUS
  <2>1. sent + 1 < FrameSize /\ sent + 1 \in 1..FrameSize - 1
    BY <1>1, <1>3
  <2>2. PICK w : w = LastFrame(s)
    OBVIOUS
  <2>3. PICK k \in 1..FrameSize - 1 : k = sent + 1
    BY <2>1
  <2>4. /\ Len(frames) > 1
        /\ w = [i \in 1..FrameSize |->
                  IF i + k <= FrameSize THEN frames[Len(frames) - 1][i + k]
                  ELSE Current[i + k - FrameSize]]
        /\ w[FrameSize - 1] = CR /\ w[FrameSize] = LF
    BY <1>2, <1>4, <1>5, <1>8, <2>1, <2>2, <2>3, ContiguousWindow
  <2>5. ProcessFrame(w) = Refused
    BY <1>1, <2>4, PieceIsRefused
  <2> QED BY <1>6, <2>2, <2>5
<1>10. whole
  BY <1>1, <1>3, <1>8, <1>9 DEF ReadingInv
<1> QED BY <1>7, <1>9, <1>10

LEMMA DeliverReading ==
  ASSUME RealMeter, ReadingInv, Deliver
  PROVE  ReadingInv'
<1>1. StreamInv /\ StreamInv' /\ FrameSize \in Nat /\ FrameSize >= 2
  BY DeliverInv, FrameSizeAssumption DEF ReadingInv
<1>2. /\ sent \in 0..FrameSize - 1 /\ sent' = sent + 1 /\ Current' = Current
      /\ Current[sent + 1] \in Byte
      /\ ProcessByte(Current[sent + 1])
  BY <1>1, DeliverFacts
<1>3. UNCHANGED <<frames, whole, gap>>
  BY DEF Deliver
<1>4. PICK r \in Seq(Byte), n \in Nat : r = received /\ n = Len(r)
  BY <1>1, ReceivedTypes
<1>5a. PICK byte \in Byte : byte = Current[sent + 1]
  BY <1>2
<1>5. PICK q : byte = Current[sent + 1] /\ q = received'
  BY <1>5a
<1>6. q = Append(r, byte)
  BY <1>2, <1>4, <1>5 DEF ProcessByte
<1>7. Len(q) = n + 1 /\ q[n + 1] = byte /\ \A i \in 1..n : q[i] = r[i]
  BY <1>4, <1>6, AppendFacts
<1>8. gap \in 0..n /\ Arrived = n - gap /\ Arrived' = n + 1 - gap
  BY <1>3, <1>4, <1>5, <1>7 DEF ReadingInv, Arrived
<1>9. ~whole' => Arrived' < sent'
  BY <1>2, <1>3, <1>8 DEF ReadingInv
<1>10. Arrived' > sent' => Len(frames') > 1
  BY <1>2, <1>3, <1>8 DEF ReadingInv
<1>11. ReceivedIsSent'
  <2> SUFFICES ASSUME NEW i \in 1..FrameSize - 1, i <= n + 1 - gap
               PROVE  q[n + 1 + 1 - i] =
                        IF i <= sent + 1 THEN Current[sent + 1 + 1 - i]
                        ELSE frames[Len(frames) - 1][FrameSize + (sent + 1) + 1 - i]
    BY <1>2, <1>3, <1>5, <1>7, <1>8 DEF ReceivedIsSent, LastSent
  <2>1. CASE i = 1
    BY <1>2, <1>4, <1>5, <1>7, <2>1
  <2>2. CASE i # 1
    <3>1. PICK j \in 1..FrameSize - 1 : j = i - 1
      BY <1>1, <2>2
    <3>2. /\ j <= n - gap /\ n + 1 + 1 - i = n + 1 - j /\ n + 1 - j \in 1..n
          /\ sent + 1 + 1 - i = sent + 1 - j
          /\ FrameSize + (sent + 1) + 1 - i = FrameSize + sent + 1 - j
          /\ (i <= sent + 1 <=> j <= sent)
      BY <1>1, <1>2, <1>4, <1>8, <3>1
    <3>3. received[Len(received) + 1 - j] = LastSent(j)
      BY <1>8, <3>2 DEF ReadingInv, ReceivedIsSent
    <3>4. q[n + 1 - j] = LastSent(j)
      BY <1>4, <1>7, <3>2, <3>3
    <3> QED BY <3>2, <3>4 DEF LastSent
  <2> QED BY <2>1, <2>2
<1>12. NoFalseReading'
  <2>1. CASE output' = output
    <3>1. row' = row
      BY <2>1 DEF Deliver
    <3> QED BY <2>1, <3>1 DEF ReadingInv, NoFalseReading, LastRow
  <2> QED BY <2>1, RowIsHonest
<1>13. gap' \in 0..Len(received')
  BY <1>3, <1>4, <1>5, <1>7, <1>8
<1> QED BY <1>1, <1>9, <1>10, <1>11, <1>12, <1>13 DEF ReadingInv

LEMMA LoseReading ==
  ASSUME ReadingInv, Lose
  PROVE  ReadingInv'
<1>1. StreamInv /\ StreamInv' /\ FrameSize \in Nat /\ FrameSize >= 2
  BY LoseInv, FrameSizeAssumption DEF ReadingInv
<1>2. /\ sent \in 0..FrameSize - 1 /\ sent' = sent + 1
      /\ UNCHANGED <<output, row, received>>
      /\ gap' = Len(received) /\ Len(received) \in Nat
  BY <1>1, ReceivedTypes DEF Lose, StreamInv, MeterTypes, parserVars
<1>3. Arrived' = 0 /\ Arrived' < sent' /\ gap' \in 0..Len(received')
  BY <1>2 DEF Arrived
<1>4. ReceivedIsSent'
  BY <1>3 DEF ReceivedIsSent
<1>5. NoFalseReading'
  BY <1>2 DEF ReadingInv, NoFalseReading, LastRow
<1>6. ~(Arrived' > sent')
  BY <1>2, <1>3
<1> QED BY <1>1, <1>3, <1>4, <1>5, <1>6 DEF ReadingInv

LEMMA NextFrameReading ==
  ASSUME ReadingInv, NextFrame
  PROVE  ReadingInv'
<1>1. StreamInv /\ StreamInv' /\ FrameSize \in Nat /\ FrameSize >= 2
  BY NextFrameInv, FrameSizeAssumption DEF ReadingInv
<1>2. sent = FrameSize /\ sent' = 0 /\ whole' /\ UNCHANGED <<received, gap, output, row>>
  BY DEF NextFrame, parserVars
<1>3. PICK f \in MeterFrames : frames' = Append(frames, f)
  BY DEF NextFrame
<1>4. PICK n \in Nat \ {0} : n = Len(frames)
  BY <1>1 DEF StreamInv, MeterTypes
<1>5. Len(frames') = n + 1 /\ frames'[n] = frames[n]
  BY <1>1, <1>3, <1>4, AppendFacts DEF StreamInv, MeterTypes
<1>6. Current = frames[n] /\ Len(frames') > 1
  BY <1>4, <1>5 DEF Current
<1>7. Arrived' = Arrived
  BY <1>2 DEF Arrived
<1>8. ReceivedIsSent'
  <2> SUFFICES ASSUME NEW i \in 1..FrameSize - 1, i <= Arrived
               PROVE  received[Len(received) + 1 - i] = LastSent(i)'
    BY <1>2, <1>7 DEF ReceivedIsSent
  <2>1. LastSent(i)' = frames'[Len(frames') - 1][FrameSize + 0 + 1 - i]
    BY <1>1, <1>2 DEF LastSent
  <2>2. LastSent(i) = Current[FrameSize + 1 - i]
    BY <1>1, <1>2 DEF LastSent
  <2>3. Len(frames') - 1 = n /\ FrameSize + 0 + 1 - i = FrameSize + 1 - i
    BY <1>1, <1>4, <1>5
  <2>4. LastSent(i)' = LastSent(i)
    BY <1>5, <1>6, <2>1, <2>2, <2>3
  <2> QED BY <2>4 DEF ReadingInv, ReceivedIsSent
<1>9. NoFalseReading'
  BY <1>2 DEF ReadingInv, NoFalseReading, LastRow
<1>10. gap' \in 0..Len(received')
  BY <1>2 DEF ReadingInv
<1> QED BY <1>1, <1>2, <1>6, <1>8, <1>9, <1>10 DEF ReadingInv

(* With the real frames and the real decoder, whatever is measured and     *)
(* wherever bytes are lost: a row of bytes that followed each other shows  *)
(* values only if they are those of one frame.                             *)
THEOREM NoFalseReadingShown ==
  ASSUME RealMeter
  PROVE  StreamSpec => []NoFalseReading
<1>1. StreamInit => ReadingInv
  <2> SUFFICES ASSUME StreamInit PROVE ReadingInv
    OBVIOUS
  <2>1. StreamInv
    BY StreamInitInv
  <2>2. /\ sent \in 0..FrameSize - 1 /\ whole = (sent = 0)
        /\ gap = 0 /\ Len(received) = 0 /\ output = <<>>
    BY DEF StreamInit, ParserInit
  <2>3. Arrived = 0 /\ gap \in 0..Len(received)
    BY <2>2 DEF Arrived
  <2>4. ~(Arrived > sent) /\ (sent # 0 => Arrived < sent)
    BY <2>2, <2>3, FrameSizeAssumption
  <2>5. ReceivedIsSent
    BY <2>3 DEF ReceivedIsSent
  <2>6. NoFalseReading
    BY <2>2 DEF NoFalseReading
  <2> QED BY <2>1, <2>2, <2>3, <2>4, <2>5, <2>6 DEF ReadingInv
<1>2. ReadingInv /\ [StreamNext]_streamVars => ReadingInv'
  <2> SUFFICES ASSUME ReadingInv, [StreamNext]_streamVars PROVE ReadingInv'
    OBVIOUS
  <2>1. CASE UNCHANGED streamVars
    <3>1. StreamInv'
      BY <2>1, StutterInv DEF ReadingInv
    <3>2. UNCHANGED <<sent, whole, gap, row, frames, received, output>>
      BY <2>1 DEF streamVars, meterVars, parserVars
    <3>3. Arrived' = Arrived /\ ReceivedIsSent'
      BY <3>2 DEF ReadingInv, Arrived, ReceivedIsSent, LastSent, Current
    <3>4. NoFalseReading'
      BY <3>2 DEF ReadingInv, NoFalseReading, LastRow
    <3> QED BY <3>1, <3>2, <3>3, <3>4 DEF ReadingInv
  <2> QED
    BY <2>1, DeliverReading, LoseReading, NextFrameReading DEF StreamNext
<1>3. ReadingInv => NoFalseReading
  BY DEF ReadingInv
<1> QED BY <1>1, <1>2, <1>3, PTL DEF StreamSpec

(* The values of every intact frame of the meter are shown, whatever they  *)
(* are and whatever was lost before: the parser finds the frame and the    *)
(* decoder reads it.                                                       *)
THEOREM IntactReadingShown ==
  ASSUME RealMeter, \A f \in MeterFrames : IsMeterFrame(f)
  PROVE  StreamSpec => []IntactReadingIsShown
<1>1. ASSUME StreamInv PROVE IntactReadingIsShown
  <2> SUFFICES ASSUME sent = FrameSize, whole, inStep \/ ~HasInnerTerminator(Current)
               PROVE  output # <<>> /\ LastRow.values = Reading(Current)
    BY DEF IntactReadingIsShown
  <2>1. output # <<>> /\ LastRow.values = ProcessFrame(Current)
    BY <1>1 DEF StreamInv, IntactFrameIsShown
  <2>2. PICK f \in MeterFrames : f = Current
    BY <1>1, CurrentIsAFrame DEF StreamInv
  <2>3. IsMeterFrame(f) /\ f \in [1..frame_size -> FrameByte]
    BY DEF RealMeter, IsFramed
  <2>4. ProcessFrame(f) = processFrame(f)
    BY <2>3 DEF RealMeter
  <2>5. processFrame(f) = Reading(f)
    BY <2>3, MeterFrameIsRead
  <2> QED BY <2>1, <2>2, <2>4, <2>5
<1> QED BY <1>1, StreamInvariant, PTL

=============================================================================
