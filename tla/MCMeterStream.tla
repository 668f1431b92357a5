---------------------------- MODULE MCMeterStream ----------------------------
(***************************************************************************)
(* TLC instances of MeterStream: short frames with a stand-in decoder for  *)
(* loss and for the log, real frames with the real decoder for readings.   *)
(***************************************************************************)
EXTENDS MeterReadings

CONSTANTS MaxFrames,    \* bound: frames the meter sends
          MaxLost,      \* bound: bytes lost since the last row
          MaxOffset     \* bound: bytes of the first frame sent before opening

(* Stand-in for processFrame: a frame that starts with zero is a reading,  *)
(* and its bytes are what the row shows.                                   *)
BytesOfFrame(w) == IF w[1] = 0 THEN [bytes |-> w] ELSE Refused

(* Frames of four bytes, one of them measured. *)
PlainFrames == {<<0, x, 13, 10>> : x \in {1, 2}}

(* Frames of five bytes with every mixture of CR, LF and others inside. *)
CRLFFrames == {<<0, x, y, 13, 10>> : x, y \in {0, 1, 10, 13}}

(* Frames of the meter.  In the last four the values contain CR LF: in the *)
(* primary value (3338), in its low byte and the unit, in the secondary    *)
(* value, in its low byte and the unit.                                    *)
RealFrames ==
  {<<0, 13, 96, 88,  0, 3, 19, 144, 20, 0, 4, 0, 0, 113, 128, 13, 10>>,
   <<0, 13, 0,  184, 0, 4, 13, 10, 20, 0, 0, 78, 32, 0, 129, 13, 10>>,
   <<0, 13, 0,  88,  0, 3, 0,  13, 10, 0, 0, 78, 32, 0, 129, 13, 10>>,
   <<0, 13, 64, 24,  0, 1, 0,  0,  0, 34, 2, 13, 10, 4, 128, 13, 10>>,
   <<0, 13, 64, 24,  0, 1, 0,  59, 43, 0, 3, 0,  13, 10, 0,  13, 10>>}

ASSUME \A f \in RealFrames : IsMeterFrame(f)

MCInit == StreamInit /\ sent <= MaxOffset

MCLose == lost < MaxLost /\ Lose

MCNextFrame == Len(frames) < MaxFrames /\ NextFrame

MCNext == Deliver \/ MCLose \/ MCNextFrame

MCSpec == MCInit /\ [][MCNext]_streamVars

(* The meter goes on sending a frame it has begun. *)
MCFairSpec == MCSpec /\ WF_streamVars(Deliver)

(* Nothing is lost and the stream is joined at the start of a frame: the   *)
(* log is exactly the meter's frames, once each and in order, whether or   *)
(* not a reading contains CR LF, and none is left out.                     *)
LogIsTheFrames == Log!LogSpec

=============================================================================
