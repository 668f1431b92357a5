----------------------------- MODULE MeterStream -----------------------------
(***************************************************************************)
(* The parser fed by the meter: frame after frame, byte after byte, over a *)
(* link that may lose bytes (the HID report queue of the kernel is bounded *)
(* and hid_read_timeout is not told of a report that was dropped), joined  *)
(* at any byte of a frame (openUSBDevice does not wait for one to start).  *)
(* The meter and the link are external; the parser is FrameParser.         *)
(***************************************************************************)
EXTENDS FrameParser

CONSTANT MeterFrames   \* the frames the meter may send

ASSUME MeterFramesAssumption ==
  /\ MeterFrames \subseteq [1..FrameSize -> Byte]
  /\ \A f \in MeterFrames :
       f[1] # LF /\ f[FrameSize - 1] = CR /\ f[FrameSize] = LF

VARIABLES
  frames,   \* the frames the meter has begun to send, the last one under way
  sent,     \* how many bytes of it have left the meter
  whole,    \* none of these was lost
  inStep,   \* the parser's buffer was empty when the frame began
  lost,     \* bytes lost since the last row was printed
  gap,      \* bytes received before the last loss
  torn,     \* frames since the last one whose CR LF arrived
  row       \* history: where the last row printed came from

meterVars == <<frames, sent, whole, inStep, lost, gap, torn, row>>

streamVars == <<parserVars, meterVars>>

Current == frames[Len(frames)]

-----------------------------------------------------------------------------

(* Opening the device in the middle of a frame is losing its first bytes. *)
StreamInit ==
  /\ ParserInit
  /\ \E f \in MeterFrames : frames = <<f>>
  /\ sent \in 0..FrameSize - 1
  /\ whole = (sent = 0)
  /\ inStep = (sent = 0)
  /\ lost = sent
  /\ gap = 0 /\ torn = 0
  /\ row = [genuine |-> FALSE, contiguous |-> FALSE, lost |-> 0]

(* The byte sent before the one in hand was not lost.                      *)
PreviousArrived == gap < Len(received)

(* The next byte of the frame reaches the parser.  If a row is printed,    *)
(* remember whether it was made of the bytes of one frame, of bytes that   *)
(* followed each other in the meter, and how many were lost before it.     *)
Deliver ==
  /\ sent < FrameSize
  /\ ProcessByte(Current[sent + 1])
  /\ sent' = sent + 1
  /\ IF output' # output
     THEN /\ lost' = 0
          /\ row' = [genuine    |-> whole /\ sent + 1 = FrameSize,
                     contiguous |-> Len(received) + 1 - gap >= FrameSize,
                     lost       |-> lost]
     ELSE UNCHANGED <<lost, row>>
  /\ torn' = IF sent + 1 < FrameSize THEN torn ELSE IF PreviousArrived THEN 0 ELSE torn + 1
  /\ UNCHANGED <<frames, whole, inStep, gap>>

(* The next byte is lost on its way. *)
Lose ==
  /\ sent < FrameSize
  /\ sent' = sent + 1
  /\ whole' = FALSE
  /\ lost' = lost + 1
  /\ gap' = Len(received)
  /\ torn' = IF sent + 1 < FrameSize THEN torn ELSE torn + 1
  /\ UNCHANGED <<parserVars, frames, inStep, row>>

(* The meter begins the next frame. *)
NextFrame ==
  /\ sent = FrameSize
  /\ \E f \in MeterFrames : frames' = Append(frames, f)
  /\ sent' = 0
  /\ whole' = TRUE
  /\ inStep' = (buffer = <<>>)
  /\ UNCHANGED <<parserVars, lost, gap, torn, row>>

StreamNext == Deliver \/ Lose \/ NextFrame

StreamSpec == StreamInit /\ [][StreamNext]_streamVars

(* Joined at the start of a frame, and nothing is lost. *)
LosslessSpec == StreamInit /\ sent = 0 /\ [][Deliver \/ NextFrame]_streamVars

-----------------------------------------------------------------------------
(* Properties.                                                             *)

LastRow == output[Len(output)]

(* CR LF occurs in f other than at its end. *)
HasInnerTerminator(f) ==
  \E i \in 1..FrameSize - 2 : f[i] = CR /\ f[i + 1] = LF

(* A frame that arrived whole is shown, with its own values and as soon as *)
(* its last byte is in, whatever was lost before it: if the parser was in  *)
(* step, even when the values contain CR LF; if it was not, when they do   *)
(* not.  So one such frame is enough to get back in step (line 529).       *)
IntactFrameIsShown ==
  sent = FrameSize /\ whole /\ (inStep \/ ~HasInnerTerminator(Current)) =>
    /\ output # <<>>
    /\ LastRow.at = Len(received)
    /\ LastRow.values = ProcessFrame(Current)
    /\ row.genuine

(* The last byte of a frame is its only LF.                                *)
LineFeedsEndFrames ==
  \A f \in MeterFrames : \A n \in 1..FrameSize - 1 : f[n] # LF

(* For such frames: a row made of pieces of frames that is printed without *)
(* alignment error (line 535) hides the loss of one frame size of bytes,   *)
(* or a multiple of it; any other loss is reported.  It is not enough that *)
(* no frame has CR LF inside: a CR, a loss and an LF inside a later frame  *)
(* make one that is in neither.                                            *)
SilentLossIsWholeFrames ==
  output # <<>> /\ LastRow.diff = 0 /\ ~row.genuine =>
    row.lost > 0 /\ row.lost % FrameSize = 0

(* The buffer, which nothing in the code bounds, holds less than two       *)
(* frames as long as the meter's terminators arrive, and less than one     *)
(* more for each in a row that was lost or torn apart: no other loss and   *)
(* no CR LF inside a value keeps it from being emptied.                    *)
BufferIsBounded == Len(buffer) < FrameSize * (torn + 2)

-----------------------------------------------------------------------------
(* The abstract log this implements as long as nothing is lost.            *)

Log == INSTANCE FrameLog WITH rows <- [i \in 1..Len(output) |-> output[i].values]

=============================================================================
