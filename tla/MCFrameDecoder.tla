--------------------------- MODULE MCFrameDecoder ---------------------------
(***************************************************************************)
(* bits2Number against arithmetic, for every 16 bit value, every position  *)
(* of the decimal point and both displays (5 and 4 digits).                *)
(***************************************************************************)
EXTENDS FrameDecoder

VARIABLES msb, lsb   \* the two bytes of a reading

MCInit == msb = 0 /\ lsb = 0

NextMsb == msb < 255 /\ msb' = msb + 1 /\ UNCHANGED lsb

NextLsb == lsb < 255 /\ lsb' = lsb + 1 /\ UNCHANGED msb

MCNext == NextMsb \/ NextLsb

MCSpec == MCInit /\ [][MCNext]_<<msb, lsb>>

-----------------------------------------------------------------------------

Displays == {5, 4}

(* The measured value in units of the last decimal, two's complement. *)
Measured == lsb + 256 * (IF msb >= 128 THEN msb - 256 ELSE msb)

DigitAt(digits, k) == IF k < Len(digits) THEN digits[Len(digits) - k] ELSE 0

(* No display has more than five digits. *)
ValueOf(digits) ==
  DigitAt(digits, 0) + 10 * DigitAt(digits, 1) + 100 * DigitAt(digits, 2)
    + 1000 * DigitAt(digits, 3) + 10000 * DigitAt(digits, 4)

(* The number printed is the number measured: sign and point are where the *)
(* meter has them, the digits are those of the magnitude cut off (never    *)
(* rounded) behind the last segment, as many as the display shows, and     *)
(* without superfluous zeros in front (bits2Number, line 302).             *)
NumberIsTruncatedReading ==
  \A decimals \in 1..7, segments \in Displays :
    NumberReadable(msb, lsb, decimals, segments) =>
      LET n     == bits2Number(msb, lsb, decimals, segments)
          shown == Len(n.fraction)
          m     == IF Measured < 0 THEN -Measured ELSE Measured
      IN  /\ n.negative <=> Measured < 0
          /\ ValueOf(n.whole \o n.fraction) = m \div 10^(decimals - shown)
          /\ Len(n.whole) + shown <= segments
          /\ shown < decimals => Len(n.whole) + shown = segments
          /\ Len(n.whole) > 1 => n.whole[1] # 0

(* With one to five decimals every value can be printed, so the two        *)
(* throws of bits2Number (lines 349 and 366) are unreachable then, and the *)
(* number has a digit in front of its point.                               *)
EveryValueIsPrintable ==
  \A decimals \in 1..5, segments \in Displays :
    /\ NumberReadable(msb, lsb, decimals, segments)
    /\ bits2Number(msb, lsb, decimals, segments).whole # <<>>

=============================================================================
