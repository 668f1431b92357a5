------------------------------- MODULE Replay -------------------------------
(***************************************************************************)
(* A session dumped with --dumpbinary and shown again with --parsebinary:  *)
(* processFile reads the dump, process hands it to a new parser.  The live *)
(* parser and the one of the replay are the same FrameParser, first in one *)
(* process and then in another.  The dump is what the live parser got, as  *)
(* ByteSource's DumpIsComplete and SinksAgree say.                         *)
(***************************************************************************)
EXTENDS FrameParser

VARIABLES
  phase,        \* "live", "replay", "done", or "crashed"
  file,         \* the dump
  liveOutput,   \* history: the rows of the live session
  position      \* i in process()

replayVars == <<parserVars, phase, file, liveOutput, position>>

ReplayInit ==
  /\ ParserInit
  /\ phase = "live" /\ file = <<>> /\ liveOutput = <<>> /\ position = 0

(* A byte of the live session goes to the parser and to the dump. *)
LiveByte ==
  /\ phase = "live"
  /\ \E byte \in Byte : ProcessByte(byte) /\ file' = Append(file, byte)
  /\ UNCHANGED <<phase, liveOutput, position>>

(* processFile: a new process with a new parser; an empty file is left     *)
(* alone.                                                                  *)
StartReplay ==
  /\ phase = "live"
  /\ phase' = IF file = <<>> THEN "done" ELSE "replay"
  /\ liveOutput' = output
  /\ byteCount' = 0 /\ lastFrameByteCount' = 0 /\ frameCount' = 0
  /\ buffer' = <<>> /\ lastByteWasCarriageReturn' = FALSE
  /\ received' = <<>> /\ output' = <<>>
  /\ UNCHANGED <<file, position>>

(* Mutant of MoreToReplay: the loop leaves out a whole frame. *)
MoreToReplayLess == position < Len(file) - FrameSize

(* i < data.size() - 2, in unsigned arithmetic: for a file of one byte the *)
(* bound wraps and the loop does not end.                                  *)
MoreToReplay == Len(file) = 1 \/ position < Len(file) - 2

(* Mutant of ByteOfFile: the loop starts at the second byte. *)
ByteOfFileNext(i) == IF i + 1 < Len(file) THEN {file[i + 2]} ELSE Byte

(* data[i]: behind the end, any byte. *)
ByteOfFile(i) == IF i < Len(file) THEN {file[i + 1]} ELSE Byte

ReplayByte ==
  /\ phase = "replay" /\ MoreToReplay
  /\ \E byte \in ByteOfFile(position) : ProcessByte(byte)
  /\ position' = position + 1
  /\ UNCHANGED <<phase, file, liveOutput>>

(* Reading on behind the end of data sooner or later ends the process. *)
ReplayCrash ==
  /\ phase = "replay" /\ position >= Len(file)
  /\ phase' = "crashed"
  /\ UNCHANGED <<parserVars, file, liveOutput, position>>

ReplayEnd ==
  /\ phase = "replay" /\ ~MoreToReplay
  /\ phase' = "done"
  /\ UNCHANGED <<parserVars, file, liveOutput, position>>

ReplayNext == LiveByte \/ StartReplay \/ ReplayByte \/ ReplayCrash \/ ReplayEnd

ReplaySpec == ReplayInit /\ [][ReplayNext]_replayVars

-----------------------------------------------------------------------------
(* Properties.                                                             *)

(* A replay shows the rows of the live session, the same numbers, values   *)
(* and alignment errors in the same order, and nothing else.               *)
ReplayedRowsAreLiveRows ==
  phase \in {"replay", "done"} /\ Len(file) # 1 =>
    /\ Len(output) <= Len(liveOutput)
    /\ output = SubSeq(liveOutput, 1, Len(output))

(* Because process() stops two bytes early (line 33) a replay may miss a   *)
(* row, but never more than one, and only a row that ended with the file   *)
(* or a byte before its end.                                               *)
OnlyTheLastRowIsMissing ==
  phase = "done" =>
    /\ Len(liveOutput) <= Len(output) + 1
    /\ Len(liveOutput) = Len(output) + 1 =>
         liveOutput[Len(liveOutput)].at >= Len(file) - 1

(* What the help says of --parsebinary and the comment in process of its   *)
(* loop ("Simulate stream processing", main.cpp:29): the rows of the dump  *)
(* are the rows of the session.                                            *)
ReplayShowsTheSession == phase = "done" => output = liveOutput

=============================================================================
