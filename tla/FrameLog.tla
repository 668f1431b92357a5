------------------------------ MODULE FrameLog ------------------------------
(***************************************************************************)
(* What the byte stream parser promises for a stream that loses nothing:   *)
(* the log is the list of the meter's frames, each decoded once, in the    *)
(* order in which they were sent.                                          *)
(***************************************************************************)
EXTENDS Naturals, Sequences

CONSTANTS MeterFrames,      \* the frames the meter may send
          ProcessFrame(_)   \* what a frame means

VARIABLES frames,   \* the frames the meter has begun to send
          rows      \* the rows of the log

logVars == <<frames, rows>>

LogInit == /\ \E f \in MeterFrames : frames = <<f>>
           /\ rows = <<>>

(* The row of the frame under way is written. *)
Show == /\ Len(rows) < Len(frames)
        /\ rows' = Append(rows, ProcessFrame(frames[Len(rows) + 1]))
        /\ UNCHANGED frames

(* The meter turns to the next frame: not before the last one is shown. *)
NewFrame == /\ Len(rows) = Len(frames)
            /\ \E f \in MeterFrames : frames' = Append(frames, f)
            /\ UNCHANGED rows

LogNext == Show \/ NewFrame

LogSpec == LogInit /\ [][LogNext]_logVars /\ WF_logVars(Show)

=============================================================================
