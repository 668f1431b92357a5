---------------------------- MODULE MeterReadings ----------------------------
(***************************************************************************)
(* MeterStream with the frames of the real meter and the real decoder:     *)
(* which rows show values.                                                 *)
(***************************************************************************)
EXTENDS MeterStream, MeterFrames

(* Bytes that followed each other in the meter never give a reading that   *)
(* is not one of its frames, even while CR LF inside the values keeps the  *)
(* parser out of step: processFrame (lines 400 to 484) refuses such a row. *)
NoFalseReading ==
  output # <<>> /\ row.contiguous /\ LastRow.values # Refused => row.genuine

(* The other way round: a frame that arrived whole, in step or without     *)
(* CR LF in its values, becomes a row with the values measured.  None of   *)
(* the helpers of processFrame refuses it, whatever was measured.          *)
IntactReadingIsShown ==
  sent = FrameSize /\ whole /\ (inStep \/ ~HasInnerTerminator(Current)) =>
    output # <<>> /\ LastRow.values = Reading(Current)

=============================================================================
