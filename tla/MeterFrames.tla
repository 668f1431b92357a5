----------------------------- MODULE MeterFrames -----------------------------
(***************************************************************************)
(* The frames the meter sends, as far as the repository knows them: the    *)
(* enumerations and comments of UT612ByteStreamParser.cpp (lines 53-89 and *)
(* 371-389) and the frames of its tests.  The meter itself is external.    *)
(***************************************************************************)
EXTENDS FrameDecoder

(* The bytes that do not depend on what is measured.  Of the flags only    *)
(* the top three bits are ever set.                                        *)
IsFramed(d) ==
  /\ d \in [1..frame_size -> FrameByte]
  /\ d[1] = 0 /\ d[2] = 13 /\ d[5] = 0 /\ d[16] = 13 /\ d[17] = 10
  /\ Flags(d) % 32 = 0
  /\ Frequency(d) \in Frequencies
  /\ MMode(d) \in 1..4
  /\ SMode(d) \in 0..4
  /\ MErrorFlags(d) \in {0, 128, 34, 195, 67}
  /\ SErrorFlags(d) \in {0, 128, 162, 129, 195}

(* A frame of the meter: whatever the value, the units are known ones, and *)
(* a number has one to five decimals.  Flags 0x20 alone was never seen.    *)
IsMeterFrame(d) ==
  /\ IsFramed(d)
  /\ Flags(d) # 32
  /\ UnitCode(MDecimalsAndUnit(d)) \in MUnitCodes
  /\ UnitCode(SDecimalsAndUnit(d)) \in SUnitCodes
  /\ HasNumber(MErrorFlags(d)) => Decimals(MDecimalsAndUnit(d)) \in 1..5
  /\ HasNumber(SErrorFlags(d)) => Decimals(SDecimalsAndUnit(d)) \in 1..5

(* What is cut from the stream k bytes out of step: the end of f and the   *)
(* first k bytes of the next frame g.                                      *)
Misaligned(f, g, k) ==
  [i \in 1..frame_size |-> IF i + k <= frame_size THEN f[i + k] ELSE g[i + k - frame_size]]

EndsInCRLF(d) == d[16] = 13 /\ d[17] = 10

=============================================================================
