---------------------------- MODULE ReplayProofs ----------------------------
(***************************************************************************)
(* Theorems of Replay, for sessions of any length and content.  Framing is *)
(* a function of the bytes: two parsers that got the same bytes so far     *)
(* have the same rows.  This is shown row by row from the invariants of    *)
(* FrameParser, of the live parser for the whole file and of the replaying *)
(* one for the part it has read.                                           *)
(***************************************************************************)
EXTENDS Replay, FrameParserProofs

(* Where the row in front of row i ended. *)
EndBefore(o, i) == IF i = 1 THEN 0 ELSE o[i - 1].at

(* Where row i ends, or the byte still to come. *)
EndOf(r, o, i) == IF i <= Len(o) THEN o[i].at ELSE Len(r) + 1

TerminatorOf(r, e) == e >= 2 /\ r[e - 1] = CR /\ r[e] = LF

(* The rows o are the ones FrameParser cuts from the bytes r. *)
Cut(r, o) ==
  /\ r \in Seq(Byte) /\ o \in Seq(Lines)
  /\ \A i \in 1..Len(o) :
       /\ o[i].at \in 1..Len(r)
       /\ TerminatorOf(r, o[i].at)
       /\ o[i].at - EndBefore(o, i) >= FrameSize
  /\ \A i \in 1..Len(o) + 1 : \A e \in 1..Len(r) :
       EndBefore(o, i) + FrameSize <= e /\ e < EndOf(r, o, i) => ~TerminatorOf(r, e)
  /\ \A i \in 1..Len(o) :
       /\ o[i].no = i - 1
       /\ o[i].values = ProcessFrame([j \in 1..FrameSize |-> r[o[i].at - FrameSize + j]])
       /\ o[i].diff = IF o[i].at - EndBefore(o, i) = FrameSize THEN 0
                      ELSE o[i].at - EndBefore(o, i)

LEMMA ParserCuts == IInv => Cut(received, output)
BY DEF IInv, TypeOK, FramesEndAtFirstTerminator, LinesMatchTheStream, PreviousEnd, End,
       Terminator, EndBefore, EndOf, TerminatorOf, Cut

(* What is known of a row. *)
LEMMA RowFacts ==
  ASSUME NEW r, NEW o, Cut(r, o), NEW i \in 1..Len(o)
  PROVE  /\ o[i] \in Lines /\ o[i].at \in Int /\ Len(r) \in Nat /\ Len(o) \in Nat
         /\ EndBefore(o, i) \in Nat
         /\ o[i].at \in 1..Len(r) /\ o[i].at >= EndBefore(o, i) + FrameSize
         /\ TerminatorOf(r, o[i].at)
<1>1. r \in Seq(Byte) /\ o \in Seq(Lines)
  BY DEF Cut
<1>2. \A k \in 1..Len(o) : o[k] \in Lines /\ o[k].at \in Nat
  <2>1. \A k \in 1..Len(o) : o[k] \in Lines
    BY <1>1, ElementOfSeq
  <2> QED BY <2>1 DEF Lines
<1>3. EndBefore(o, i) \in Nat
  <2>1. CASE i = 1
    BY <2>1 DEF EndBefore
  <2>2. CASE i # 1
    <3>1. i - 1 \in 1..Len(o)
      BY <1>1, <2>2
    <3> QED BY <1>2, <2>2, <3>1 DEF EndBefore
  <2> QED BY <2>1, <2>2
<1>4. o[i].at \in 1..Len(r) /\ o[i].at - EndBefore(o, i) >= FrameSize
      /\ TerminatorOf(r, o[i].at)
  BY DEF Cut
<1>5. Len(r) \in Nat /\ Len(o) \in Nat
  BY <1>1
<1>6. o[i].at >= EndBefore(o, i) + FrameSize
  BY <1>2, <1>3, <1>4, FrameSizeAssumption
<1> QED BY <1>2, <1>3, <1>4, <1>5, <1>6

(* The bytes r are the first of f, and the rows o and l agree in front of  *)
(* row n.                                                                  *)
SameSoFar(r, o, f, l, n) ==
  /\ Len(r) <= Len(f) /\ \A i \in 1..Len(r) : r[i] = f[i]
  /\ n - 1 <= Len(l) /\ \A i \in 1..n - 1 : o[i] = l[i]

LEMMA SameFields ==
  ASSUME NEW x \in Lines, NEW y \in Lines,
         x.no = y.no, x.diff = y.diff, x.values = y.values, x.at = y.at
  PROVE  x = y
BY DEF Lines

(* Of two parsers that got the same bytes, the one that got more has the   *)
(* next row of the other, if it has the rows in front of it.               *)
LEMMA SameRow ==
  ASSUME NEW r, NEW o, NEW f, NEW l, NEW n \in 1..Len(o),
         Cut(r, o), Cut(f, l), SameSoFar(r, o, f, l, n)
  PROVE  n <= Len(l) /\ o[n] = l[n]
<1>0. /\ Len(r) <= Len(f) /\ \A i \in 1..Len(r) : r[i] = f[i]
      /\ n - 1 <= Len(l) /\ \A i \in 1..n - 1 : o[i] = l[i]
  BY DEF SameSoFar
<1>1. /\ o[n] \in Lines /\ Len(r) \in Nat /\ Len(o) \in Nat /\ EndBefore(o, n) \in Nat
      /\ o[n].at \in 1..Len(r) /\ o[n].at >= EndBefore(o, n) + FrameSize
      /\ TerminatorOf(r, o[n].at)
  BY RowFacts
<1>2. Len(l) \in Nat /\ Len(f) \in Nat
  BY DEF Cut
<1>3. PICK a \in 1..Len(r) : a = o[n].at
  BY <1>1
<1>4. EndBefore(l, n) = EndBefore(o, n)
  <2>1. CASE n = 1
    BY <2>1 DEF EndBefore
  <2>2. CASE n # 1
    <3>1. n - 1 \in 1..n - 1
      BY <1>1, <2>2
    <3> QED BY <1>0, <2>2, <3>1 DEF EndBefore
  <2> QED BY <2>1, <2>2
<1>5. TerminatorOf(f, a) /\ a \in 1..Len(f) /\ a >= 2
  <2>1. a >= 2 /\ r[a - 1] = CR /\ r[a] = LF
    BY <1>1, <1>3 DEF TerminatorOf
  <2>2. a - 1 \in 1..Len(r) /\ a \in 1..Len(f)
    BY <1>0, <1>1, <1>2, <1>3, <2>1
  <2> QED BY <1>0, <1>3, <2>1, <2>2 DEF TerminatorOf
<1>6. n \in 1..Len(l) + 1
  BY <1>0, <1>1, <1>2
<1>7. ~(a < EndOf(f, l, n))
  BY <1>1, <1>3, <1>4, <1>5, <1>6 DEF Cut
<1>8. n <= Len(l)
  <2> SUFFICES ASSUME ~(n <= Len(l)) PROVE FALSE
    OBVIOUS
  <2>1. EndOf(f, l, n) = Len(f) + 1
    BY DEF EndOf
  <2> QED BY <1>2, <1>5, <1>7, <2>1
<1>9. n \in 1..Len(l)
  BY <1>2, <1>6, <1>8
<1>10. /\ l[n] \in Lines /\ l[n].at \in 1..Len(f) /\ l[n].at >= EndBefore(l, n) + FrameSize
       /\ TerminatorOf(f, l[n].at)
  BY <1>9, RowFacts
<1>11. PICK b \in 1..Len(f) : b = l[n].at
  BY <1>10
<1>12. b <= a
  BY <1>2, <1>3, <1>7, <1>8, <1>11 DEF EndOf
<1>13. ~(b < a)
  <2> SUFFICES ASSUME b < a PROVE FALSE
    OBVIOUS
  <2>1. b \in 1..Len(r) /\ b - 1 \in Int
    BY <1>1, <1>2, <1>3, <1>11
  <2>2. b >= 2 /\ f[b - 1] = CR /\ f[b] = LF
    BY <1>10, <1>11 DEF TerminatorOf
  <2>3. b - 1 \in 1..Len(r)
    BY <1>1, <2>1, <2>2
  <2>4. TerminatorOf(r, b)
    BY <1>0, <2>1, <2>2, <2>3 DEF TerminatorOf
  <2>5. EndBefore(o, n) + FrameSize <= b /\ b < EndOf(r, o, n)
    BY <1>1, <1>3, <1>4, <1>10, <1>11, FrameSizeAssumption DEF EndOf
  <2>6. n \in 1..Len(o) + 1
    BY <1>1
  <2> QED BY <2>1, <2>4, <2>5, <2>6 DEF Cut
<1>14. a = b
  BY <1>2, <1>3, <1>11, <1>12, <1>13
<1>15. o[n].no = l[n].no /\ o[n].diff = l[n].diff
  <2>1. o[n].no = n - 1 /\ l[n].no = n - 1
    BY <1>9 DEF Cut
  <2>2. o[n].diff = IF o[n].at - EndBefore(o, n) = FrameSize THEN 0
                    ELSE o[n].at - EndBefore(o, n)
    BY DEF Cut
  <2>3. l[n].diff = IF l[n].at - EndBefore(l, n) = FrameSize THEN 0
                    ELSE l[n].at - EndBefore(l, n)
    BY <1>9 DEF Cut
  <2>4. l[n].at = o[n].at
    BY <1>3, <1>11, <1>14
  <2> QED BY <1>4, <2>1, <2>2, <2>3, <2>4
<1>16. o[n].values = l[n].values
  <2>1. /\ o[n].values = ProcessFrame([j \in 1..FrameSize |-> r[a - FrameSize + j]])
        /\ l[n].values = ProcessFrame([j \in 1..FrameSize |-> f[a - FrameSize + j]])
    BY <1>3, <1>9, <1>11, <1>14 DEF Cut
  <2>2. ASSUME NEW j \in 1..FrameSize
        PROVE  r[a - FrameSize + j] = f[a - FrameSize + j]
    <3>1. a >= FrameSize
      BY <1>1, <1>3, FrameSizeAssumption
    <3>2. a - FrameSize + j \in 1..Len(r)
      BY <1>1, <1>3, <3>1, FrameSizeAssumption
    <3> QED BY <1>0, <3>2
  <2>3. [j \in 1..FrameSize |-> r[a - FrameSize + j]]
          = [j \in 1..FrameSize |-> f[a - FrameSize + j]]
    BY <2>2
  <2> QED BY <2>1, <2>3
<1>17. o[n] = l[n]
  BY <1>1, <1>3, <1>10, <1>11, <1>14, <1>15, <1>16, SameFields
<1> QED BY <1>8, <1>17

-----------------------------------------------------------------------------
(* The invariant of a session and its replay.                              *)

(* The replay has read the file up to position, and has its rows so far.   *)
InStep ==
  /\ Len(received) = position /\ position <= Len(file)
  /\ \A i \in 1..position : received[i] = file[i]
  /\ Len(output) <= Len(liveOutput)
  /\ \A i \in 1..Len(output) : output[i] = liveOutput[i]

ReplayInv ==
  /\ IInv
  /\ phase \in {"live", "replay", "done", "crashed"}
  /\ file \in Seq(Byte) /\ position \in Nat
  /\ phase = "live" => received = file /\ position = 0
  /\ phase # "live" => Cut(file, liveOutput)
  /\ phase \in {"replay", "done"} /\ Len(file) # 1 => InStep
  /\ phase = "done" => Len(file) # 1 /\ position >= Len(file) - 2

LEMMA LiveByteInv ==
  ASSUME ReplayInv, LiveByte
  PROVE  ReplayInv'
<1>1. PICK byte \in Byte : ProcessByte(byte) /\ file' = Append(file, byte)
  BY DEF LiveByte
<1>2. IInv /\ phase = "live" /\ phase' = "live" /\ received = file /\ position' = position
  BY DEF ReplayInv, LiveByte
<1>3. IInv'
  BY <1>1, <1>2, ParserStep DEF ParserNext
<1>4. received' = Append(received, byte)
  BY <1>1 DEF ProcessByte
<1>5. file' \in Seq(Byte) /\ file' = received'
  BY <1>1, <1>2, <1>4 DEF ReplayInv
<1> QED BY <1>2, <1>3, <1>5 DEF ReplayInv

LEMMA StartReplayInv ==
  ASSUME ReplayInv, StartReplay
  PROVE  ReplayInv'
<1>1. IInv /\ phase = "live" /\ received = file /\ position = 0
  BY DEF ReplayInv, StartReplay
<1>2. ParserInit'
  BY DEF StartReplay, ParserInit
<1>3. ParserInit' => IInv'
  BY InitInv, PTL
<1>4. Cut(file, output)
  BY <1>1, ParserCuts
<1>5. /\ file' = file /\ position' = 0 /\ liveOutput' = output
      /\ received' = <<>> /\ output' = <<>>
  BY <1>1 DEF StartReplay
<1>6. Len(file) \in Nat /\ Len(output) \in Nat /\ file \in Seq(Byte)
  BY <1>4 DEF Cut
<1>7. InStep'
  BY <1>5, <1>6 DEF InStep
<1>8. Cut(file', liveOutput')
  BY <1>4, <1>5
<1>9. phase' = "done" => Len(file') # 1 /\ position' >= Len(file') - 2
  <2>1. phase' = "done" => file' = <<>>
    BY <1>5 DEF StartReplay
  <2> QED BY <1>5, <2>1
<1>10. phase' \in {"done", "replay"}
  BY DEF StartReplay
<1>11. phase' # "live" /\ file' \in Seq(Byte) /\ position' \in Nat
  BY <1>5, <1>6, <1>10
<1> QED BY <1>2, <1>3, <1>7, <1>8, <1>9, <1>10, <1>11 DEF ReplayInv

(* A byte of the file, and a row if the session had one there. *)
LEMMA ReplayByteInStep ==
  ASSUME IInv, IInv', InStep, Cut(file, liveOutput), position \in Nat,
         UNCHANGED <<file, liveOutput>>, position' = position + 1,
         position < Len(file), ProcessByte(file[position + 1])
  PROVE  InStep'
<1>1. file \in Seq(Byte) /\ Len(file) \in Nat /\ Len(liveOutput) \in Nat
  BY DEF Cut
<1>2. PICK byte \in Byte : byte = file[position + 1]
  <2>1. position + 1 \in 1..Len(file)
    BY <1>1
  <2> QED BY <1>1, <2>1, ElementOfSeq
<1>3. /\ Len(received') = Len(received) + 1
      /\ received'[Len(received')] = byte
      /\ \A i \in 1..Len(received) : received'[i] = received[i]
  BY <1>2, StepFacts
<1>4. PICK r \in Seq(Byte), p \in Nat : r = received' /\ p = position
  BY DEF IInv, TypeOK
<1>5. Len(r) = p + 1 /\ r[p + 1] = byte /\ \A i \in 1..p : r[i] = file[i]
  BY <1>3, <1>4 DEF InStep
<1>6. \A i \in 1..p + 1 : r[i] = file[i]
  <2>1. \A i \in 1..p + 1 : i \in 1..p \/ i = p + 1
    BY <1>4
  <2> QED BY <1>2, <1>4, <1>5, <2>1
<1>7. PICK f \in Seq(Byte), l \in Seq(Lines) : f = file /\ l = liveOutput
  BY <1>1 DEF Cut
<1>8. PICK o \in Seq(Lines), q \in Seq(Lines) : o = output' /\ q = output
  BY DEF IInv, TypeOK
<1>9. Cut(r, o) /\ Cut(f, l)
  <2>1. (IInv => Cut(received, output))'
    BY ParserCuts, PTL
  <2>2. Cut(received', output')
    BY <2>1 DEF Cut, EndBefore, EndOf, TerminatorOf
  <2> QED BY <1>4, <1>7, <1>8, <2>2
<1>10. \/ o = q
       \/ Len(o) = Len(q) + 1 /\ \A i \in 1..Len(q) : o[i] = q[i]
  <2>1. output' = output \/ output' = Append(output, Line(Append(buffer, byte), byteCount + 1))
    BY <1>2 DEF ProcessByte, EndFrame, KeepBuffering
  <2>2. PICK line : line = Line(Append(buffer, byte), byteCount + 1)
    OBVIOUS
  <2>3. o = q \/ o = Append(q, line)
    BY <1>8, <2>1, <2>2
  <2>4. Len(Append(q, line)) = Len(q) + 1 /\ \A i \in 1..Len(q) : Append(q, line)[i] = q[i]
    BY <1>8
  <2> QED BY <2>3, <2>4
<1>11. Len(q) \in Nat /\ Len(q) <= Len(l) /\ \A i \in 1..Len(q) : q[i] = l[i]
  BY <1>7, <1>8 DEF InStep
<1>12. Len(o) <= Len(l) /\ \A i \in 1..Len(o) : o[i] = l[i]
  <2>1. CASE o = q
    BY <1>11, <2>1
  <2>2. CASE Len(o) = Len(q) + 1 /\ \A i \in 1..Len(q) : o[i] = q[i]
    <3>1. PICK n \in 1..Len(o) : n = Len(o) /\ n - 1 = Len(q)
      BY <1>11, <2>2
    <3>2. n - 1 <= Len(l) /\ \A i \in 1..n - 1 : o[i] = l[i]
      BY <1>11, <2>2, <3>1
    <3>3. Len(r) <= Len(f) /\ \A i \in 1..Len(r) : r[i] = f[i]
      BY <1>1, <1>4, <1>5, <1>6, <1>7
    <3>4. n <= Len(l) /\ o[n] = l[n]
      <4>1. SameSoFar(r, o, f, l, n)
        BY <3>2, <3>3 DEF SameSoFar
      <4> QED BY <1>9, <3>1, <4>1, SameRow
    <3>5. \A i \in 1..Len(o) : i \in 1..n - 1 \/ i = n
      BY <3>1
    <3> QED BY <3>1, <3>2, <3>4, <3>5
  <2> QED BY <1>10, <2>1, <2>2
<1>13. Len(received') = position' /\ position' <= Len(file')
  BY <1>1, <1>4, <1>5
<1>14. \A i \in 1..position' : received'[i] = file'[i]
  BY <1>4, <1>6
<1>15. /\ Len(output') <= Len(liveOutput')
       /\ \A i \in 1..Len(output') : output'[i] = liveOutput'[i]
  BY <1>7, <1>8, <1>12
<1> QED BY <1>13, <1>14, <1>15 DEF InStep

LEMMA ReplayByteInv ==
  ASSUME ReplayInv, ReplayByte
  PROVE  ReplayInv'
<1>1. PICK byte \in ByteOfFile(position) : ProcessByte(byte)
  BY DEF ReplayByte
<1>2. /\ IInv /\ phase = "replay" /\ phase' = "replay" /\ file \in Seq(Byte)
      /\ position \in Nat /\ position' = position + 1
      /\ UNCHANGED <<file, liveOutput>>
      /\ Cut(file, liveOutput)
  BY DEF ReplayInv, ReplayByte
<1>3. PICK n \in Nat : n = Len(file)
  BY <1>2
<1>4. position < n => ByteOfFile(position) = {file[position + 1]}
                        /\ file[position + 1] \in Byte
  <2> SUFFICES ASSUME position < n
               PROVE  ByteOfFile(position) = {file[position + 1]} /\ file[position + 1] \in Byte
    OBVIOUS
  <2>1. position + 1 \in 1..Len(file)
    BY <1>2, <1>3
  <2>2. file[position + 1] \in Byte
    BY <1>2, <2>1, ElementOfSeq
  <2> QED BY <1>3, <2>2 DEF ByteOfFile
<1>5. byte \in Byte
  <2>1. CASE position < n
    BY <1>1, <1>4, <2>1
  <2>2. CASE ~(position < n)
    BY <1>1, <1>3, <2>2 DEF ByteOfFile
  <2> QED BY <2>1, <2>2
<1>6. IInv'
  BY <1>1, <1>2, <1>5, ParserStep DEF ParserNext
<1>7. ASSUME Len(file') # 1
      PROVE  InStep'
  <2>1. Len(file) # 1 /\ InStep
    BY <1>2, <1>7 DEF ReplayInv
  <2>2. position < n
    BY <1>2, <1>3, <2>1 DEF ReplayByte, MoreToReplay
  <2>3. ProcessByte(file[position + 1])
    BY <1>1, <1>4, <2>2
  <2> QED BY <1>2, <1>3, <1>6, <2>1, <2>2, <2>3, ReplayByteInStep
<1> QED BY <1>2, <1>6, <1>7 DEF ReplayInv

LEMMA ReplayStopInv ==
  ASSUME ReplayInv, ReplayCrash \/ ReplayEnd \/ UNCHANGED replayVars
  PROVE  ReplayInv'
<1>1. /\ UNCHANGED <<byteCount, lastFrameByteCount, frameCount, buffer, received, output>>
      /\ UNCHANGED lastByteWasCarriageReturn
      /\ UNCHANGED <<file, liveOutput, position>>
  BY DEF ReplayCrash, ReplayEnd, replayVars, parserVars
<1>2. IInv'
  BY <1>1, ParserStep DEF ReplayInv, parserVars
<1>3. \/ phase = "replay" /\ phase' = "crashed"
      \/ phase = "replay" /\ phase' = "done" /\ ~MoreToReplay
      \/ phase' = phase
  BY DEF ReplayCrash, ReplayEnd, replayVars
<1>4. InStep' <=> InStep
  BY <1>1 DEF InStep
<1>5. ~MoreToReplay => Len(file) # 1 /\ position >= Len(file) - 2
  <2>1. Len(file) \in Nat /\ position \in Nat
    BY DEF ReplayInv
  <2> QED BY <2>1 DEF MoreToReplay
<1>6. Cut(file, liveOutput) => Cut(file', liveOutput')
  BY <1>1
<1> QED BY <1>1, <1>2, <1>3, <1>4, <1>5, <1>6 DEF ReplayInv

(* While and after the replay, the invariant relates its rows to those of  *)
(* the session, and what was read to the file.                             *)
THEOREM ReplayInvariant == ReplaySpec => []ReplayInv
<1>1. ReplayInit => ReplayInv
  <2> SUFFICES ASSUME ReplayInit PROVE ReplayInv
    OBVIOUS
  <2>1. IInv
    BY InitInv DEF ReplayInit
  <2>2. received = <<>> /\ file = <<>> /\ file \in Seq(Byte) /\ position = 0 /\ phase = "live"
    BY DEF ReplayInit, ParserInit
  <2> QED BY <2>1, <2>2 DEF ReplayInv
<1>2. ReplayInv /\ [ReplayNext]_replayVars => ReplayInv'
  BY LiveByteInv, StartReplayInv, ReplayByteInv, ReplayStopInv DEF ReplayNext
<1> QED BY <1>1, <1>2, PTL DEF ReplaySpec

(* The rows of a replay are the first rows of the session, for sessions of *)
(* any length over any bytes.                                              *)
THEOREM ReplayFaithful == ReplaySpec => []ReplayedRowsAreLiveRows
<1>1. ReplayInv => ReplayedRowsAreLiveRows
  <2> SUFFICES ASSUME ReplayInv, phase \in {"replay", "done"}, Len(file) # 1
               PROVE  /\ Len(output) <= Len(liveOutput)
                      /\ output = SubSeq(liveOutput, 1, Len(output))
    BY DEF ReplayedRowsAreLiveRows
  <2>1. PICK o \in Seq(Lines), l \in Seq(Lines) : o = output /\ l = liveOutput
    BY DEF ReplayInv, IInv, TypeOK, Cut
  <2>2. Len(o) <= Len(l) /\ \A i \in 1..Len(o) : o[i] = l[i]
    BY <2>1 DEF ReplayInv, InStep
  <2>3. o = SubSeq(l, 1, Len(o))
    <3>1. Len(o) \in Nat /\ Len(l) \in Nat
      BY <2>1
    <3>2. Len(SubSeq(l, 1, Len(o))) = Len(o)
      BY <2>2, <3>1
    <3>3. \A i \in 1..Len(o) : SubSeq(l, 1, Len(o))[i] = l[i]
      BY <2>2, <3>1
    <3>4. SubSeq(l, 1, Len(o)) \in Seq(Lines)
      BY <2>2, <3>1
    <3> QED BY <2>2, <3>2, <3>3, <3>4, SeqEqual
  <2> QED BY <2>1, <2>2, <2>3
<1> QED BY <1>1, ReplayInvariant, PTL

(* A replay misses at most one row of the session, one at the very end of  *)
(* the file.                                                               *)
THEOREM ReplayNearlyComplete == ReplaySpec => []OnlyTheLastRowIsMissing
<1>1. ReplayInv => OnlyTheLastRowIsMissing
  <2> SUFFICES ASSUME ReplayInv, phase = "done"
               PROVE  /\ Len(liveOutput) <= Len(output) + 1
                      /\ Len(liveOutput) = Len(output) + 1 =>
                           liveOutput[Len(liveOutput)].at >= Len(file) - 1
    BY DEF OnlyTheLastRowIsMissing
  <2>1. /\ InStep /\ Cut(file, liveOutput) /\ Cut(received, output)
        /\ position \in Nat /\ position >= Len(file) - 2
    BY ParserCuts DEF ReplayInv
  <2>2. PICK n \in Nat, m \in Nat, k \in Nat :
          n = Len(output) /\ m = Len(liveOutput) /\ k = Len(file)
    BY <2>1 DEF Cut
  <2>3. ASSUME n + 1 <= m
        PROVE  liveOutput[n + 1].at \in Int /\ liveOutput[n + 1].at >= k - 1
    <3>1. n + 1 \in 1..Len(liveOutput) /\ n + 1 \in 1..Len(output) + 1
      BY <2>2, <2>3
    <3>2. /\ liveOutput[n + 1].at \in 1..Len(file)
          /\ EndBefore(liveOutput, n + 1) \in Nat
          /\ liveOutput[n + 1].at >= EndBefore(liveOutput, n + 1) + FrameSize
          /\ TerminatorOf(file, liveOutput[n + 1].at)
      BY <2>1, <3>1, RowFacts
    <3>3. PICK a \in 1..k : a = liveOutput[n + 1].at
      BY <2>2, <3>2
    <3>4. EndBefore(liveOutput, n + 1) = EndBefore(output, n + 1)
      <4>1. CASE n = 0
        BY <4>1 DEF EndBefore
      <4>2. CASE n # 0
        <5>1. n \in 1..Len(output) /\ n + 1 # 1 /\ n + 1 - 1 = n
          BY <2>2, <4>2
        <5> QED BY <2>1, <5>1 DEF EndBefore, InStep
      <4> QED BY <4>1, <4>2
    <3>5. ~(a <= position)
      <4> SUFFICES ASSUME a <= position PROVE FALSE
        OBVIOUS
      <4>1. a >= 2 /\ file[a - 1] = CR /\ file[a] = LF
        BY <3>2, <3>3 DEF TerminatorOf
      <4>2. a \in 1..position /\ a - 1 \in 1..position
        BY <2>1, <2>2, <3>3, <4>1
      <4>3. TerminatorOf(received, a) /\ Len(received) = position
        BY <2>1, <4>1, <4>2 DEF TerminatorOf, InStep
      <4>4. EndOf(received, output, n + 1) = position + 1
        BY <2>2, <4>3 DEF EndOf
      <4>5. EndBefore(output, n + 1) + FrameSize <= a /\ a < position + 1
        BY <2>1, <2>2, <3>2, <3>3, <3>4
      <4> QED BY <2>1, <3>1, <4>2, <4>3, <4>4, <4>5 DEF Cut
    <3> QED BY <2>1, <2>2, <3>3, <3>5
  <2>4. m <= n + 1
    <3> SUFFICES ASSUME n + 2 <= m PROVE FALSE
      BY <2>2
    <3>1. n + 2 \in 1..Len(liveOutput) /\ n + 1 <= m
      BY <2>2
    <3>2. /\ liveOutput[n + 2].at \in 1..Len(file)
          /\ liveOutput[n + 2].at >= EndBefore(liveOutput, n + 2) + FrameSize
      BY <2>1, <3>1, RowFacts
    <3>3. EndBefore(liveOutput, n + 2) = liveOutput[n + 1].at
      <4>1. n + 2 # 1 /\ n + 2 - 1 = n + 1
        BY <2>2
      <4> QED BY <4>1 DEF EndBefore
    <3> QED BY <2>2, <2>3, <3>1, <3>2, <3>3, FrameSizeAssumption
  <2> QED BY <2>2, <2>3, <2>4
<1> QED BY <1>1, ReplayInvariant, PTL

=============================================================================
