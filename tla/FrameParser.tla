----------------------------- MODULE FrameParser -----------------------------
(***************************************************************************)
(* UT612ByteStreamParser::processByte: cuts the byte stream of the LCR     *)
(* meter into fixed-size frames.  A frame has no length field and no       *)
(* checksum; the only mark is the CR LF pair that ends it, and CR LF may   *)
(* also occur inside a frame (a reading of 3338 is the bytes 0x0d 0x0a).   *)
(*                                                                         *)
(* The private members of the class are the first five variables, without  *)
(* the leading underscore.  `received' and `output' are what goes in and   *)
(* what comes out: the bytes handed to processByte so far, and one record  *)
(* per printed line.                                                       *)
(***************************************************************************)
EXTENDS Integers, Sequences

CONSTANTS
  Byte,             \* the values a byte takes
  CR, LF,           \* 0x0d and 0x0a
  FrameSize,        \* frame_size, 17 in the code
  ProcessFrame(_)   \* what processFrame makes of a frame: a reading or Invalid

ASSUME ByteAssumption == CR \in Byte /\ LF \in Byte /\ CR # LF
ASSUME FrameSizeAssumption == FrameSize \in Nat /\ FrameSize >= 2

VARIABLES
  byteCount,                  \* bytes seen
  lastFrameByteCount,         \* byteCount at the end of the last frame
  frameCount,                 \* lines printed, the NO column
  buffer,                     \* bytes since the last frame
  lastByteWasCarriageReturn,
  received,                   \* history: every byte handed to processByte
  output                      \* the lines printed so far

parserVars == <<byteCount, lastFrameByteCount, frameCount, buffer,
                lastByteWasCarriageReturn, received, output>>

-----------------------------------------------------------------------------

(* Mutant of LastFrame: the frame is taken to be all that is buffered. *)
LastFrameWholeBuffer(s) == s

(* Mutant of LastFrame: the frame is taken from the head of the buffer. *)
LastFrameFirst(s) == [i \in 1..FrameSize |-> s[i]]

(* The last FrameSize bytes of s: &_buffer[_buffer.size() - frame_size]. *)
LastFrame(s) == [i \in 1..FrameSize |-> s[Len(s) - FrameSize + i]]

ParserInit ==
  /\ byteCount = 0
  /\ lastFrameByteCount = 0
  /\ frameCount = 0
  /\ buffer = <<>>
  /\ lastByteWasCarriageReturn = FALSE
  /\ received = <<>>
  /\ output = <<>>

(* The line terminator has just arrived. *)
FrameIsEnding(byte) == lastByteWasCarriageReturn /\ byte = LF

(* Mutant of LongEnough: only a buffer of exactly one frame is processed. *)
LongEnoughExact(s) == Len(s) = FrameSize

(* Mutant of LongEnough: the length check is off by one. *)
LongEnoughStrict(s) == Len(s) > FrameSize

(* A terminator counts only when a whole frame is buffered: an inner CR LF *)
(* of a frame that started at the head of the buffer comes too early.      *)
LongEnough(s) == Len(s) >= FrameSize

(* Mutant of AlignmentError: nothing is reported on the first line, because
   nothing had been framed yet. *)
AlignmentErrorNotFirst(count) ==
  LET bytesSinceLastFrame == count - lastFrameByteCount
  IN  IF lastFrameByteCount # 0 /\ bytesSinceLastFrame # FrameSize
      THEN bytesSinceLastFrame ELSE 0

(* The diff= of the alignment error, 0 when none is printed.  It compares  *)
(* two counters; the buffer is not looked at.                              *)
AlignmentError(count) ==
  LET bytesSinceLastFrame == count - lastFrameByteCount
  IN  IF bytesSinceLastFrame # FrameSize THEN bytesSinceLastFrame ELSE 0

(* The line printed for the buffer s when byteCount has become count. `at' *)
(* is history: where in the stream the frame ended.                        *)
Line(s, count) ==
  [no     |-> frameCount,
   diff   |-> AlignmentError(count),
   values |-> ProcessFrame(LastFrame(s)),
   at     |-> count]

(* Mutant of EndFrame: the buffer keeps growing, it is never cleared. *)
EndFrameNoClear(s, count) ==
  /\ lastFrameByteCount' = count
  /\ frameCount' = frameCount + 1
  /\ output' = Append(output, Line(s, count))
  /\ buffer' = s

(* A frame ended: warn, print, forget every byte buffered so far, those in *)
(* front of the frame included.                                            *)
EndFrame(s, count) ==
  /\ lastFrameByteCount' = count
  /\ frameCount' = frameCount + 1
  /\ output' = Append(output, Line(s, count))
  /\ buffer' = <<>>

KeepBuffering(s) ==
  /\ buffer' = s
  /\ UNCHANGED <<lastFrameByteCount, frameCount, output>>

ProcessByte(byte) ==
  LET s    == Append(buffer, byte)
      ends == FrameIsEnding(byte) /\ LongEnough(s)
  IN  /\ byteCount' = byteCount + 1
      /\ received' = Append(received, byte)
      /\ lastByteWasCarriageReturn' = (byte = CR)
      /\ \/ ends  /\ EndFrame(s, byteCount + 1)
         \/ ~ends /\ KeepBuffering(s)

ParserNext == \E byte \in Byte : ProcessByte(byte)

ParserSpec == ParserInit /\ [][ParserNext]_parserVars

-----------------------------------------------------------------------------
(* Properties.                                                             *)

Values == {ProcessFrame(w) : w \in [1..FrameSize -> Byte]}

Lines == [no : Nat, diff : Nat, values : Values, at : Nat]

(* Types of the members, the history and the printed lines. *)
TypeOK ==
  /\ byteCount \in Nat /\ lastFrameByteCount \in Nat /\ frameCount \in Nat
  /\ buffer \in Seq(Byte) /\ received \in Seq(Byte)
  /\ lastByteWasCarriageReturn \in BOOLEAN
  /\ output \in Seq(Lines)

(* CR LF ends at byte e of the stream. *)
Terminator(e) == e >= 2 /\ received[e - 1] = CR /\ received[e] = LF

(* Where frame i - 1 ended, 0 in front of the first one. *)
PreviousEnd(i) == IF i = 1 THEN 0 ELSE output[i - 1].at

(* Where frame i ended, or the byte still to come if it has not ended yet. *)
End(i) == IF i <= Len(output) THEN output[i].at ELSE Len(received) + 1

CountersAgree ==
  /\ byteCount = Len(received)
  /\ frameCount = Len(output)
  /\ lastFrameByteCount = PreviousEnd(Len(output) + 1)
  /\ byteCount = lastFrameByteCount + Len(buffer)

BufferIsTail ==
  \A i \in 1..Len(buffer) : buffer[i] = received[lastFrameByteCount + i]

FlagIsLastByte ==
  lastByteWasCarriageReturn <=> byteCount > 0 /\ received[byteCount] = CR

(* The three counters, the flag and the buffer that processByte maintains  *)
(* separately describe one stream: the buffer is exactly the bytes behind  *)
(* the last frame.  The alignment check (line 534) compares byteCount with *)
(* lastFrameByteCount and relies on it.                                    *)
BufferIsUnframedTail == CountersAgree /\ BufferIsTail /\ FlagIsLastByte

(* Framing as a property of the whole stream: frames end at CR LF, hold    *)
(* FrameSize bytes of their own (no byte belongs to two frames), and each  *)
(* one ends at the first CR LF that could end it: no terminator is missed  *)
(* and none too early is taken.                                            *)
FramesEndAtFirstTerminator ==
  /\ \A i \in 1..Len(output) :
        /\ output[i].at \in 1..Len(received)
        /\ Terminator(output[i].at)
        /\ output[i].at - PreviousEnd(i) >= FrameSize
  /\ \A i \in 1..Len(output) + 1 :
        \A e \in 1..Len(received) :
          PreviousEnd(i) + FrameSize <= e /\ e < End(i) => ~Terminator(e)

(* What is printed is what was received: lines are numbered without gaps,  *)
(* a line shows the FrameSize bytes that end at its terminator, and the    *)
(* alignment error tells how many bytes were consumed exactly when bytes   *)
(* in front of that frame were discarded: no byte is dropped silently.     *)
LinesMatchTheStream ==
  \A i \in 1..Len(output) :
    LET consumed == output[i].at - PreviousEnd(i)
    IN  /\ output[i].no = i - 1
        /\ output[i].values =
             ProcessFrame([j \in 1..FrameSize |-> received[output[i].at - FrameSize + j]])
        /\ output[i].diff = IF consumed = FrameSize THEN 0 ELSE consumed

=============================================================================
