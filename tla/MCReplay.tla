------------------------------ MODULE MCReplay ------------------------------
(***************************************************************************)
(* TLC instance of FrameParser and Replay: every session of at most        *)
(* MaxBytes bytes, frames of FrameSize bytes, over the four kinds of byte  *)
(* that framing and the decoder's first check (line 400) tell apart, and   *)
(* its replay.                                                             *)
(***************************************************************************)
EXTENDS Replay

CONSTANTS MaxBytes,     \* bound: length of the live session
          MaxOverrun    \* bound: bytes read behind the end of the file

(* Stand-in for processFrame: a frame that starts with a zero byte gives   *)
(* its bytes as the reading, any other one is refused.                     *)
MCProcessFrame(w) ==
  IF w[1] = "00" THEN [ok |-> TRUE, bytes |-> w] ELSE [ok |-> FALSE]

MCLiveByte == Len(file) < MaxBytes /\ LiveByte

MCReplayByte == position < Len(file) + MaxOverrun /\ ReplayByte

MCNext == MCLiveByte \/ StartReplay \/ MCReplayByte \/ ReplayCrash \/ ReplayEnd

MCSpec == ReplayInit /\ [][MCNext]_replayVars

=============================================================================
