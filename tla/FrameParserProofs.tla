-------------------------- MODULE FrameParserProofs --------------------------
(***************************************************************************)
(* The framing invariants of FrameParser, for every alphabet, frame size,  *)
(* decoder and stream.  The invariant is inductive only as a whole: where  *)
(* a frame ends is decided from the buffer and the flag, and what they say *)
(* about the stream is the first part of the invariant.                    *)
(***************************************************************************)
EXTENDS FrameParser, SequenceTheorems, TLAPS

IInv == /\ TypeOK
        /\ BufferIsUnframedTail
        /\ FramesEndAtFirstTerminator
        /\ LinesMatchTheStream

(* The frame cut from a long enough sequence of bytes is a frame of bytes. *)
LEMMA LastFrameType ==
  ASSUME NEW s \in Seq(Byte), Len(s) >= FrameSize
  PROVE  LastFrame(s) \in [1..FrameSize -> Byte]
<1>1. ASSUME NEW i \in 1..FrameSize
      PROVE  s[Len(s) - FrameSize + i] \in Byte
  <2>1. Len(s) - FrameSize + i \in 1..Len(s)
    BY FrameSizeAssumption
  <2> QED BY <2>1, ElementOfSeq
<1> QED BY <1>1 DEF LastFrame

(* The printed diff is a natural number. *)
LEMMA AlignmentErrorType ==
  ASSUME NEW c \in Nat, lastFrameByteCount \in Nat, c >= lastFrameByteCount
  PROVE  AlignmentError(c) \in Nat
BY DEF AlignmentError

(* What Append does to a sequence. *)
LEMMA AppendFacts ==
  ASSUME NEW R, NEW q \in Seq(R), NEW x \in R
  PROVE  /\ Append(q, x) \in Seq(R)
         /\ Len(Append(q, x)) = Len(q) + 1
         /\ Len(q) \in Nat
         /\ Append(q, x)[Len(q) + 1] = x
         /\ \A i \in 1..Len(q) : Append(q, x)[i] = q[i]
OBVIOUS

(* The fields of a printed line. *)
LEMMA LineFields ==
  ASSUME output \in Seq(Lines), NEW i \in 1..Len(output)
  PROVE  /\ output[i] \in Lines
         /\ output[i].at \in Nat
<1>1. output[i] \in Lines
  BY ElementOfSeq
<1> QED BY <1>1 DEF Lines

(* The parts of the invariant that do not speak of the carriage return flag. *)
Counters == /\ byteCount \in Nat /\ lastFrameByteCount \in Nat /\ frameCount \in Nat
            /\ buffer \in Seq(Byte) /\ received \in Seq(Byte)
            /\ output \in Seq(Lines)
            /\ CountersAgree

LEMMA CountersFromInv == IInv => Counters
BY DEF IInv, TypeOK, BufferIsUnframedTail, Counters

(* A frame ends at byte FrameSize of the stream at the earliest. *)
LEMMA EndIsLate ==
  ASSUME Counters, FramesEndAtFirstTerminator, NEW i \in 1..Len(output)
  PROVE  output[i].at \in FrameSize..Len(received)
<1>1. /\ output[i].at \in 1..Len(received)
      /\ output[i].at - PreviousEnd(i) >= FrameSize
  BY DEF FramesEndAtFirstTerminator
<1>2. PreviousEnd(i) \in Nat
  <2>1. CASE i = 1
    BY <2>1 DEF PreviousEnd
  <2>2. CASE i # 1
    <3>1. i - 1 \in 1..Len(output) /\ output \in Seq(Lines)
      BY <2>2 DEF Counters
    <3> QED BY <2>2, <3>1, LineFields DEF PreviousEnd
  <2> QED BY <2>1, <2>2
<1> QED BY <1>1, <1>2, FrameSizeAssumption

(* The state after the constructor satisfies the invariant. *)
LEMMA InitInv == ParserInit => IInv
<1> SUFFICES ASSUME ParserInit PROVE IInv
  OBVIOUS
<1>1. /\ byteCount = 0 /\ lastFrameByteCount = 0 /\ frameCount = 0
      /\ buffer = <<>> /\ received = <<>> /\ output = <<>>
  BY DEF ParserInit
<1>2. lastByteWasCarriageReturn = FALSE
  BY DEF ParserInit
<1>3. /\ byteCount \in Nat /\ lastFrameByteCount \in Nat /\ frameCount \in Nat
      /\ buffer \in Seq(Byte) /\ received \in Seq(Byte) /\ output \in Seq(Lines)
  BY <1>1
<1>4. TypeOK
  BY <1>2, <1>3 DEF TypeOK
<1>5. CountersAgree /\ BufferIsTail
  BY <1>1 DEF CountersAgree, BufferIsTail, PreviousEnd
<1>6. ~(byteCount > 0)
  BY <1>1
<1>7. FlagIsLastByte
  BY <1>2, <1>6 DEF FlagIsLastByte
<1>8. FramesEndAtFirstTerminator
  BY <1>1 DEF FramesEndAtFirstTerminator
<1>9. LinesMatchTheStream
  BY <1>1 DEF LinesMatchTheStream
<1> QED
  BY <1>4, <1>5, <1>7, <1>8, <1>9 DEF IInv, BufferIsUnframedTail

(* What every call of processByte does, whether a frame ends or not. *)
LEMMA StepFacts ==
  ASSUME IInv, NEW byte \in Byte, ProcessByte(byte)
  PROVE  /\ byteCount' = byteCount + 1
         /\ byteCount' = Len(received')
         /\ received' \in Seq(Byte)
         /\ Len(received') = Len(received) + 1
         /\ received'[Len(received')] = byte
         /\ \A i \in 1..Len(received) : received'[i] = received[i]
         /\ lastByteWasCarriageReturn' \in BOOLEAN
         /\ FlagIsLastByte'
<1>1. /\ byteCount' = byteCount + 1
      /\ received' = Append(received, byte)
  BY DEF ProcessByte
<1>2. lastByteWasCarriageReturn' = (byte = CR)
  BY DEF ProcessByte
<1>3. Counters
  BY CountersFromInv
<1>4. /\ received \in Seq(Byte)
       /\ byteCount = Len(received)
  BY <1>3 DEF Counters, CountersAgree
<1>5. /\ received' \in Seq(Byte)
      /\ Len(received') = Len(received) + 1
      /\ Len(received) \in Nat
      /\ received'[Len(received) + 1] = byte
      /\ \A i \in 1..Len(received) : received'[i] = received[i]
  BY <1>1, <1>4, AppendFacts
<1>6. /\ byteCount' = Len(received')
       /\ byteCount' > 0
       /\ received'[Len(received')] = byte
       /\ received'[byteCount'] = byte
  BY <1>1, <1>4, <1>5
<1>7. FlagIsLastByte'
  BY <1>2, <1>6 DEF FlagIsLastByte
<1>8. lastByteWasCarriageReturn' \in BOOLEAN
  BY <1>2
<1> QED BY <1>1, <1>5, <1>6, <1>7, <1>8

(* The byte completes a CR LF pair exactly when processByte says so. *)
LEMMA TerminatorStep ==
  ASSUME IInv, NEW byte \in Byte, ProcessByte(byte)
  PROVE  /\ \A e \in 1..Len(received) : Terminator(e)' <=> Terminator(e)
         /\ Terminator(Len(received))' <=> FrameIsEnding(byte)
<1>1. Counters
  BY CountersFromInv
<1>2. /\ Len(received') = Len(received) + 1
      /\ received'[Len(received')] = byte
      /\ \A i \in 1..Len(received) : received'[i] = received[i]
  BY StepFacts
<1>3. Len(received) \in Nat /\ byteCount = Len(received)
  BY <1>1 DEF Counters, CountersAgree
<1>4. ASSUME NEW e \in 1..Len(received)
      PROVE  Terminator(e)' <=> Terminator(e)
  BY <1>2, <1>3 DEF Terminator
<1>5. Terminator(Len(received))'
        <=> Len(received) > 0 /\ received[Len(received)] = CR /\ byte = LF
  BY <1>2, <1>3 DEF Terminator
<1>6. lastByteWasCarriageReturn <=> Len(received) > 0 /\ received[Len(received)] = CR
  BY <1>3 DEF IInv, BufferIsUnframedTail, FlagIsLastByte
<1>7. Terminator(Len(received))' <=> FrameIsEnding(byte)
  BY <1>5, <1>6 DEF FrameIsEnding
<1> QED BY <1>4, <1>7

(* The buffer with the new byte still is the tail of the stream. *)
LEMMA BufferStep ==
  ASSUME IInv, NEW byte \in Byte, ProcessByte(byte)
  PROVE  /\ Append(buffer, byte) \in Seq(Byte)
         /\ Len(Append(buffer, byte)) = Len(buffer) + 1
         /\ Len(received') = lastFrameByteCount + Len(buffer) + 1
         /\ \A i \in 1..Len(buffer) + 1 :
              Append(buffer, byte)[i] = received'[lastFrameByteCount + i]
<1>1. Counters /\ BufferIsTail
  BY CountersFromInv DEF IInv, BufferIsUnframedTail
<1>2. /\ Len(received') = Len(received) + 1
      /\ received'[Len(received')] = byte
      /\ \A i \in 1..Len(received) : received'[i] = received[i]
  BY StepFacts
<1>3. /\ Append(buffer, byte) \in Seq(Byte)
      /\ Len(Append(buffer, byte)) = Len(buffer) + 1
      /\ Append(buffer, byte)[Len(buffer) + 1] = byte
      /\ \A i \in 1..Len(buffer) : Append(buffer, byte)[i] = buffer[i]
  BY <1>1, AppendFacts DEF Counters
<1>4. /\ Len(buffer) \in Nat /\ lastFrameByteCount \in Nat
      /\ Len(received) = lastFrameByteCount + Len(buffer)
  BY <1>1 DEF Counters, CountersAgree
<1>5. ASSUME NEW i \in 1..Len(buffer) + 1
      PROVE  Append(buffer, byte)[i] = received'[lastFrameByteCount + i]
  <2>1. CASE i = Len(buffer) + 1
    BY <1>2, <1>3, <1>4, <2>1
  <2>2. CASE i # Len(buffer) + 1
    <3>1. i \in 1..Len(buffer) /\ lastFrameByteCount + i \in 1..Len(received)
      BY <1>4, <2>2
    <3> QED BY <1>1, <1>2, <1>3, <3>1 DEF BufferIsTail
  <2> QED BY <2>1, <2>2
<1> QED BY <1>2, <1>3, <1>4, <1>5

(* A byte that ends no frame preserves the invariant. *)
LEMMA KeepInv ==
  ASSUME IInv, NEW byte \in Byte, ProcessByte(byte),
         ~(FrameIsEnding(byte) /\ LongEnough(Append(buffer, byte)))
  PROVE  IInv'
<1>1. /\ buffer' = Append(buffer, byte)
      /\ lastFrameByteCount' = lastFrameByteCount
      /\ frameCount' = frameCount
      /\ output' = output
  BY DEF ProcessByte, KeepBuffering
<1>2. /\ byteCount' = byteCount + 1
      /\ byteCount' = Len(received')
      /\ received' \in Seq(Byte)
      /\ Len(received') = Len(received) + 1
      /\ \A i \in 1..Len(received) : received'[i] = received[i]
      /\ lastByteWasCarriageReturn' \in BOOLEAN
      /\ FlagIsLastByte'
  BY StepFacts
<1>3. Counters /\ FramesEndAtFirstTerminator /\ LinesMatchTheStream
  BY CountersFromInv DEF IInv
<1>4. /\ buffer' \in Seq(Byte)
      /\ Len(buffer') = Len(buffer) + 1
      /\ \A i \in 1..Len(buffer') : buffer'[i] = received'[lastFrameByteCount' + i]
  BY <1>1, BufferStep
<1>5. /\ byteCount' \in Nat /\ lastFrameByteCount' \in Nat /\ frameCount' \in Nat
      /\ output' \in Seq(Lines)
  BY <1>1, <1>2, <1>3 DEF Counters
<1>6. TypeOK'
  BY <1>2, <1>4, <1>5 DEF TypeOK
<1>7. \A i : PreviousEnd(i)' = PreviousEnd(i)
  BY <1>1 DEF PreviousEnd
<1>8. BufferIsUnframedTail'
  <2>1. CountersAgree'
    <3>1. /\ byteCount = lastFrameByteCount + Len(buffer)
          /\ frameCount = Len(output)
          /\ lastFrameByteCount = PreviousEnd(Len(output) + 1)
          /\ byteCount \in Nat /\ lastFrameByteCount \in Nat /\ Len(buffer) \in Nat
      BY <1>3 DEF Counters, CountersAgree
    <3>2. byteCount' = lastFrameByteCount' + Len(buffer')
      BY <1>1, <1>2, <1>4, <3>1
    <3>3. /\ frameCount' = Len(output')
          /\ lastFrameByteCount' = PreviousEnd(Len(output) + 1)'
      BY <1>1, <1>7, <3>1
    <3> QED BY <1>2, <3>2, <3>3 DEF CountersAgree
  <2> QED BY <1>2, <1>4, <2>1 DEF BufferIsUnframedTail, BufferIsTail
<1>9. FramesEndAtFirstTerminator'
  <2>1. /\ Len(received) \in Nat /\ Len(output) \in Nat
        /\ FrameSize \in Nat
        /\ Len(received) = PreviousEnd(Len(output) + 1) + Len(buffer)
    BY <1>3, FrameSizeAssumption DEF Counters, CountersAgree
  <2>2. \A e \in 1..Len(received) : Terminator(e)' <=> Terminator(e)
    BY TerminatorStep
  <2>3. Terminator(Len(received))' =>
          Len(received) + 1 < PreviousEnd(Len(output) + 1) + FrameSize
    <3>1. Terminator(Len(received))' => ~(Len(Append(buffer, byte)) >= FrameSize)
      BY TerminatorStep DEF LongEnough
    <3>2. Len(Append(buffer, byte)) = Len(buffer) + 1 /\ Len(buffer) \in Nat
          /\ PreviousEnd(Len(output) + 1) \in Nat
      BY <1>3, BufferStep DEF Counters, CountersAgree
    <3> QED BY <2>1, <3>1, <3>2
  <2>4. ASSUME NEW i \in 1..Len(output)
        PROVE  /\ output[i].at \in 1..Len(received')
               /\ Terminator(output[i].at)'
               /\ output[i].at - PreviousEnd(i) >= FrameSize
    <3>1. PICK e \in 1..Len(received) : e = output[i].at
      BY <1>3 DEF FramesEndAtFirstTerminator
    <3>2. Terminator(e) /\ e - PreviousEnd(i) >= FrameSize
      BY <1>3, <3>1 DEF FramesEndAtFirstTerminator
    <3>3. Terminator(e)'
      BY <2>2, <3>2
    <3>4. Terminator(output[i].at)'
      BY <1>1, <3>1, <3>3 DEF Terminator
    <3>5. e \in 1..Len(received')
      BY <1>2, <2>1
    <3> QED BY <3>1, <3>2, <3>4, <3>5
  <2>5. ASSUME NEW i \in 1..Len(output) + 1, NEW e \in 1..Len(received'),
               PreviousEnd(i) + FrameSize <= e, e < End(i)'
        PROVE  ~Terminator(e)'
    <3>1. CASE e \in 1..Len(received)
      <4>1. e < End(i)
        BY <1>1, <2>1, <2>5, <3>1 DEF End
      <4> QED BY <1>3, <2>2, <2>5, <3>1, <4>1 DEF FramesEndAtFirstTerminator
    <3>2. CASE e = Len(received) + 1
      <4>1. i = Len(output) + 1
        <5>1. ASSUME i # Len(output) + 1 PROVE FALSE
          <6>1. i \in 1..Len(output)
            BY <2>1, <2>5, <5>1
          <6>2. output[i].at \in 1..Len(received)
            BY <1>3, <6>1 DEF FramesEndAtFirstTerminator
          <6>3. End(i)' = output[i].at
            BY <1>1, <6>1 DEF End
          <6> QED BY <2>1, <2>5, <3>2, <6>2, <6>3
        <5> QED BY <5>1
      <4>2. ~Terminator(Len(received))'
        <5>1. PreviousEnd(Len(output) + 1) \in Nat
          BY <1>3 DEF Counters, CountersAgree
        <5>2. PreviousEnd(Len(output) + 1) + FrameSize <= Len(received) + 1
          BY <2>5, <3>2, <4>1
        <5> QED BY <2>1, <2>3, <5>1, <5>2
      <4> QED BY <1>2, <3>2, <4>2 DEF Terminator
    <3> QED BY <1>2, <2>1, <3>1, <3>2
  <2> QED BY <1>1, <1>7, <2>4, <2>5 DEF FramesEndAtFirstTerminator
<1>10. LinesMatchTheStream'
  <2>1. ASSUME NEW i \in 1..Len(output)
        PROVE [j \in 1..FrameSize |-> received'[output[i].at - FrameSize + j]]
              = [j \in 1..FrameSize |-> received[output[i].at - FrameSize + j]]
    <3>1. output[i].at \in FrameSize..Len(received)
      BY <1>3, EndIsLate
    <3>2. Len(received) \in Nat
      BY <1>3 DEF Counters
    <3>3. \A j \in 1..FrameSize : output[i].at - FrameSize + j \in 1..Len(received)
      <4>1. PICK at \in FrameSize..Len(received) : at = output[i].at
        BY <3>1
      <4>2. \A j \in 1..FrameSize : at - FrameSize + j \in 1..Len(received)
        BY <3>2, FrameSizeAssumption
      <4> QED BY <4>1, <4>2
    <3>4. \A j \in 1..FrameSize :
             received'[output[i].at - FrameSize + j] = received[output[i].at - FrameSize + j]
      BY <1>2, <3>3
    <3> QED BY <3>4
  <2> QED BY <1>1, <1>3, <1>7, <2>1 DEF LinesMatchTheStream
<1> QED
  BY <1>6, <1>8, <1>9, <1>10 DEF IInv

(* A byte that ends a frame preserves the invariant. *)
LEMMA EndInv ==
  ASSUME IInv, NEW byte \in Byte, ProcessByte(byte),
         FrameIsEnding(byte), LongEnough(Append(buffer, byte))
  PROVE  IInv'
<1> DEFINE s == Append(buffer, byte)
           line == Line(s, byteCount + 1)
           n == Len(output)
<1>1. /\ buffer' = <<>>
      /\ lastFrameByteCount' = byteCount + 1
      /\ frameCount' = frameCount + 1
      /\ output' = Append(output, line)
  BY DEF ProcessByte, EndFrame
<1>2. /\ byteCount' = byteCount + 1
      /\ byteCount' = Len(received')
      /\ received' \in Seq(Byte)
      /\ Len(received') = Len(received) + 1
      /\ \A i \in 1..Len(received) : received'[i] = received[i]
      /\ lastByteWasCarriageReturn' \in BOOLEAN
      /\ FlagIsLastByte'
  BY StepFacts
<1>3. Counters /\ FramesEndAtFirstTerminator /\ LinesMatchTheStream
  BY CountersFromInv DEF IInv
<1>4. /\ s \in Seq(Byte)
      /\ Len(s) \in Nat
      /\ Len(s) = Len(buffer) + 1
      /\ Len(s) >= FrameSize
      /\ Len(received') = lastFrameByteCount + Len(s)
      /\ \A i \in 1..Len(s) : s[i] = received'[lastFrameByteCount + i]
  BY <1>3, BufferStep DEF LongEnough, Counters
<1>5. /\ byteCount \in Nat /\ lastFrameByteCount \in Nat /\ frameCount \in Nat
      /\ n \in Nat /\ Len(received) \in Nat /\ FrameSize \in Nat /\ FrameSize >= 2
      /\ byteCount = Len(received) /\ frameCount = n
      /\ lastFrameByteCount = PreviousEnd(n + 1)
      /\ output \in Seq(Lines)
  BY <1>3, FrameSizeAssumption DEF Counters, CountersAgree
<1>6. line.at = byteCount + 1 /\ line.no = n
  BY <1>5 DEF Line
<1>7. line \in Lines
  <2>1. ProcessFrame(LastFrame(s)) \in Values
    BY <1>4, LastFrameType DEF Values
  <2>2. AlignmentError(byteCount + 1) \in Nat
    <3>1. byteCount + 1 = lastFrameByteCount + Len(s)
      BY <1>2, <1>4
    <3>2. PICK c \in Nat : c = byteCount + 1
      BY <1>5
    <3>3. c >= lastFrameByteCount
      BY <1>4, <1>5, <3>1, <3>2
    <3> QED BY <1>5, <3>2, <3>3, AlignmentErrorType
  <2> QED
    BY <1>5, <2>1, <2>2 DEF Line, Lines
<1> HIDE DEF s, line
<1>8. /\ output' \in Seq(Lines)
      /\ Len(output') = n + 1
      /\ output'[n + 1] = line
      /\ \A i \in 1..n : output'[i] = output[i]
  BY <1>1, <1>5, <1>7, AppendFacts
<1>9. TypeOK'
  <2>1. buffer' \in Seq(Byte) /\ lastFrameByteCount' \in Nat /\ frameCount' \in Nat
        /\ byteCount' \in Nat
    BY <1>1, <1>2, <1>5
  <2> QED BY <1>2, <1>8, <2>1 DEF TypeOK
<1>10. ASSUME NEW i \in 1..n + 2
       PROVE  PreviousEnd(i)' = IF i = n + 2 THEN Len(received') ELSE PreviousEnd(i)
  <2>1. CASE i = n + 2
    <3>1. i # 1 /\ i - 1 = n + 1
      BY <1>5, <2>1
    <3> QED BY <1>2, <1>5, <1>6, <1>8, <2>1, <3>1 DEF PreviousEnd
  <2>2. CASE i # n + 2
    <3>1. i = 1 \/ i - 1 \in 1..n
      BY <1>5, <2>2
    <3> QED BY <1>8, <2>2, <3>1 DEF PreviousEnd
  <2> QED BY <2>1, <2>2
<1>11. BufferIsUnframedTail'
  <2>1. CountersAgree'
    <3>1. Len(buffer') = 0
      BY <1>1
    <3>2. lastFrameByteCount' = PreviousEnd(Len(output) + 1)'
      BY <1>1, <1>2, <1>5, <1>6, <1>8 DEF PreviousEnd
    <3> QED BY <1>1, <1>2, <1>5, <1>8, <3>1, <3>2 DEF CountersAgree
  <2>2. BufferIsTail'
    BY <1>1 DEF BufferIsTail
  <2> QED BY <1>2, <2>1, <2>2 DEF BufferIsUnframedTail
<1>12. Terminator(Len(received))'
  BY TerminatorStep
<1>13. ASSUME NEW i \in 1..n
       PROVE  /\ output[i].at \in FrameSize..Len(received)
              /\ output[i].at \in 1..Len(received)
              /\ Terminator(output[i].at)
              /\ output[i].at - PreviousEnd(i) >= FrameSize
  BY <1>3, EndIsLate DEF FramesEndAtFirstTerminator
<1>14. FramesEndAtFirstTerminator'
  <2>2. \A e \in 1..Len(received) : Terminator(e)' <=> Terminator(e)
    BY TerminatorStep
  <2>3. ASSUME NEW i \in 1..n + 1
        PROVE  /\ output'[i].at \in 1..Len(received')
               /\ Terminator(output[i].at)'
               /\ output'[i].at - PreviousEnd(i) >= FrameSize
    <3>1. CASE i = n + 1
      <4>1. output'[i].at = Len(received')
        BY <1>2, <1>6, <1>8, <3>1
      <4>2. Len(received') \in 1..Len(received')
        BY <1>2, <1>5
      <4>3. Terminator(output[i].at)'
        BY <1>12, <4>1 DEF Terminator
      <4>4. Len(received') - PreviousEnd(i) >= FrameSize
        <5>1. PreviousEnd(i) = lastFrameByteCount
          BY <1>5, <3>1
        <5> QED BY <1>4, <1>5, <5>1
      <4> QED BY <4>1, <4>2, <4>3, <4>4
    <3>2. CASE i # n + 1
      <4>1. i \in 1..n
        BY <1>5, <3>2
      <4>2. output'[i] = output[i]
        BY <1>8, <4>1
      <4>3. PICK e \in 1..Len(received) : e = output[i].at
        BY <1>13, <4>1
      <4>4. Terminator(e) /\ e - PreviousEnd(i) >= FrameSize
        BY <1>13, <4>1, <4>3
      <4>5. Terminator(e)'
        BY <2>2, <4>4
      <4>6. Terminator(output[i].at)'
        BY <4>2, <4>3, <4>5 DEF Terminator
      <4>7. e \in 1..Len(received')
        BY <1>2, <1>5
      <4> QED BY <4>2, <4>3, <4>4, <4>6, <4>7
    <3> QED BY <3>1, <3>2
  <2>4. ASSUME NEW i \in 1..n + 2, NEW e \in 1..Len(received'),
               PreviousEnd(i)' + FrameSize <= e, e < End(i)'
        PROVE  ~Terminator(e)'
    <3>1. CASE i \in 1..n + 1
      <4>1. e < End(i) /\ e \in 1..Len(received)
        <5>1. CASE i = n + 1
          BY <1>2, <1>5, <1>6, <1>8, <2>4, <5>1 DEF End
        <5>2. CASE i # n + 1
          <6>1. i \in 1..n
            BY <1>5, <3>1, <5>2
          <6> QED BY <1>2, <1>5, <1>8, <1>13, <2>4, <6>1 DEF End
        <5> QED BY <5>1, <5>2
      <4>2. PreviousEnd(i) + FrameSize <= e
        BY <1>5, <1>10, <2>4, <3>1
      <4> QED BY <1>3, <2>2, <3>1, <4>1, <4>2 DEF FramesEndAtFirstTerminator
    <3>2. CASE i = n + 2
      <4>1. Len(received') + FrameSize <= e
        BY <1>5, <1>10, <2>4, <3>2
      <4> QED BY <1>2, <1>5, <2>4, <4>1
    <3> QED BY <1>5, <3>1, <3>2
  <2>5. \A i \in 1..n + 1 : PreviousEnd(i)' = PreviousEnd(i)
    BY <1>5, <1>10
  <2>6. \A i \in 1..Len(output') :
           /\ output'[i].at \in 1..Len(received')
           /\ Terminator(output[i].at)'
           /\ output'[i].at - PreviousEnd(i)' >= FrameSize
    BY <1>8, <2>3, <2>5
  <2>7. \A i \in 1..Len(output') + 1 : \A e \in 1..Len(received') :
           PreviousEnd(i)' + FrameSize <= e /\ e < End(i)' => ~Terminator(e)'
    <3>1. Len(output') + 1 = n + 2
      BY <1>5, <1>8
    <3> QED BY <2>4, <3>1
  <2> QED BY <2>6, <2>7 DEF FramesEndAtFirstTerminator
<1>15. LinesMatchTheStream'
  <2>1. ASSUME NEW i \in 1..n
        PROVE [j \in 1..FrameSize |-> received'[output[i].at - FrameSize + j]]
              = [j \in 1..FrameSize |-> received[output[i].at - FrameSize + j]]
    <3>1. \A j \in 1..FrameSize : output[i].at - FrameSize + j \in 1..Len(received)
      BY <1>5, <1>13
    <3> QED BY <1>2, <3>1
  <2>2. LastFrame(s) = [j \in 1..FrameSize |-> received'[line.at - FrameSize + j]]
    <3>1. line.at = lastFrameByteCount + Len(s)
      BY <1>2, <1>4, <1>5, <1>6
    <3>2. \A j \in 1..FrameSize :
             /\ Len(s) - FrameSize + j \in 1..Len(s)
             /\ lastFrameByteCount + (Len(s) - FrameSize + j) = line.at - FrameSize + j
      <4>1. /\ FrameSize \in Nat /\ lastFrameByteCount \in Nat
            /\ Len(s) \in Nat /\ Len(s) >= FrameSize
        BY <1>4, <1>5
      <4> QED BY <3>1, <4>1
    <3>3. \A j \in 1..FrameSize :
             s[Len(s) - FrameSize + j] = received'[line.at - FrameSize + j]
      BY <1>4, <3>2
    <3> QED BY <3>3 DEF LastFrame
  <2>3. line.values = ProcessFrame(LastFrame(s)) /\ line.diff = AlignmentError(line.at)
    BY <1>6 DEF line, Line
  <2>4. ASSUME NEW i \in 1..n + 1
        PROVE LET consumed == output'[i].at - PreviousEnd(i)'
              IN  /\ output'[i].no = i - 1
                  /\ output'[i].values =
                       ProcessFrame([j \in 1..FrameSize |->
                                       received'[output'[i].at - FrameSize + j]])
                  /\ output'[i].diff = IF consumed = FrameSize THEN 0 ELSE consumed
    <3>1. CASE i = n + 1
      <4>1. PreviousEnd(i)' = lastFrameByteCount /\ output'[i] = line
        BY <1>5, <1>8, <1>10, <3>1
      <4>2. line.diff = IF line.at - lastFrameByteCount = FrameSize
                        THEN 0 ELSE line.at - lastFrameByteCount
        BY <2>3 DEF AlignmentError
      <4>3. output'[i].no = i - 1
        BY <1>5, <1>6, <3>1, <4>1
      <4>4. output'[i].values =
              ProcessFrame([j \in 1..FrameSize |-> received'[output'[i].at - FrameSize + j]])
        BY <2>2, <2>3, <4>1, Zenon
      <4>5. output'[i].diff = IF output'[i].at - PreviousEnd(i)' = FrameSize
                              THEN 0 ELSE output'[i].at - PreviousEnd(i)'
        BY <4>1, <4>2
      <4> QED BY <4>3, <4>4, <4>5
    <3>2. CASE i # n + 1
      <4>1. i \in 1..n
        BY <1>5, <3>2
      <4>2. PreviousEnd(i)' = PreviousEnd(i) /\ output'[i] = output[i]
        BY <1>5, <1>8, <1>10, <4>1
      <4> QED BY <1>3, <2>1, <4>1, <4>2 DEF LinesMatchTheStream
    <3> QED BY <3>1, <3>2
  <2> QED BY <1>8, <2>4 DEF LinesMatchTheStream
<1> QED
  BY <1>9, <1>11, <1>14, <1>15 DEF IInv

(* Every step of the parser preserves the inductive invariant. *)
LEMMA ParserStep ==
  ASSUME IInv, [ParserNext]_parserVars
  PROVE  IInv'
<1>1. CASE ParserNext
  BY <1>1, KeepInv, EndInv DEF ParserNext
<1>2. CASE UNCHANGED parserVars
  <2>1. /\ UNCHANGED <<byteCount, lastFrameByteCount, frameCount, buffer>>
        /\ UNCHANGED <<received, output>>
    BY <1>2 DEF parserVars
  <2>2. UNCHANGED lastByteWasCarriageReturn
    BY <1>2 DEF parserVars
  <2>3. TypeOK' /\ FlagIsLastByte'
    BY <2>1, <2>2 DEF IInv, TypeOK, BufferIsUnframedTail, FlagIsLastByte
  <2>4. CountersAgree' /\ BufferIsTail'
    BY <2>1 DEF IInv, BufferIsUnframedTail, CountersAgree, BufferIsTail, PreviousEnd
  <2>5. FramesEndAtFirstTerminator' /\ LinesMatchTheStream'
    BY <2>1 DEF IInv, FramesEndAtFirstTerminator, LinesMatchTheStream,
                Terminator, PreviousEnd, End
  <2> QED BY <2>3, <2>4, <2>5 DEF IInv, BufferIsUnframedTail
<1> QED BY <1>1, <1>2

(* The inductive invariant holds in every reachable state of the parser. *)
THEOREM FramingInvariant == ParserSpec => []IInv
<1>1. IInv /\ [ParserNext]_parserVars => IInv'
  BY ParserStep
<1> QED
  BY InitInv, <1>1, PTL DEF ParserSpec

(* Type correctness of processByte's state and of every printed line. *)
THEOREM TypeCorrect == ParserSpec => []TypeOK
<1>1. IInv => TypeOK
  BY DEF IInv
<1> QED BY <1>1, FramingInvariant, PTL

(* The buffer is always exactly the part of the stream not framed yet. *)
THEOREM BufferCorrect == ParserSpec => []BufferIsUnframedTail
<1>1. IInv => BufferIsUnframedTail
  BY DEF IInv
<1> QED BY <1>1, FramingInvariant, PTL

(* Frames end at the first terminator that can end them and never overlap. *)
THEOREM FramingCorrect == ParserSpec => []FramesEndAtFirstTerminator
<1>1. IInv => FramesEndAtFirstTerminator
  BY DEF IInv
<1> QED BY <1>1, FramingInvariant, PTL

(* Each line shows its own bytes, and no byte is dropped without a warning. *)
THEOREM LinesCorrect == ParserSpec => []LinesMatchTheStream
<1>1. IInv => LinesMatchTheStream
  BY DEF IInv
<1> QED BY <1>1, FramingInvariant, PTL

=============================================================================
