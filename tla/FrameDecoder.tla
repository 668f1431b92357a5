---------------------------- MODULE FrameDecoder ----------------------------
(***************************************************************************)
(* UT612ByteStreamParser::processFrame and its helpers: what the 17 bytes  *)
(* of a frame mean.  The meter's protocol is reverse-engineered: a byte    *)
(* the helpers do not know makes them throw, and the row is then printed   *)
(* without values.                                                         *)
(*                                                                         *)
(* A frame d is a sequence of bytes; field dK of UT612Struct is d[K + 1].  *)
(* The texts of a row are abstracted to the names of modes and units and   *)
(* to the digits of the numbers.  All exceptions are one value, Refused:   *)
(* what was decoded before the throw is dropped with the local stream.     *)
(***************************************************************************)
EXTENDS Integers, Sequences

frame_size == 17

FrameByte == 0..255

Refused == [refused |-> TRUE]

(* UT612Struct, the fields processFrame reads. *)
FirstByte(d)         == d[1]
Flags(d)             == d[3]
Frequency(d)         == d[4]
MMode(d)             == d[6]
MValueMsb(d)         == d[7]
MValueLsb(d)         == d[8]
MDecimalsAndUnit(d)  == d[9]
MErrorFlags(d)       == d[10]
SMode(d)             == d[11]
SValueMsb(d)         == d[12]
SValueLsb(d)         == d[13]
SDecimalsAndUnit(d)  == d[14]
SErrorFlags(d)       == d[15]

(* The enumerations of the protocol. *)
MModeName == <<"L", "C", "R", "DCR">>
DCR == 4
SModeName == <<"", "D", "Q", "ESR", "theta">>
MUnitCodes == {0, 1, 2, 3, 5, 6, 7, 9, 10, 11, 12}
SUnitCodes == {0, 1, 2, 3, 14}
Frequencies == {24, 56, 88, 120, 152, 184}

Parallel(flags) == flags \div 128 = 1
Serial(flags) == (flags \div 64) % 2 = 1

-----------------------------------------------------------------------------
(* Helpers.  XReadable: the helper returns; X: what it returns.            *)

(* mMode2String: DCR has no modifier, any other mode needs one it knows. *)
MModeReadable(mMode, flags) ==
  /\ mMode \in 1..4
  /\ mMode = DCR \/ Parallel(flags) \/ Serial(flags) \/ flags = 0

MModeText(mMode, flags) ==
  [mode     |-> MModeName[mMode],
   modifier |-> IF mMode = DCR THEN "" ELSE IF Parallel(flags) THEN "p" ELSE "s"]

UnitCode(decimalsAndUnit) == decimalsAndUnit \div 8

Decimals(decimalsAndUnit) == decimalsAndUnit % 8

(* Mutant of Signed: the high bit is not taken as the sign. *)
SignedUnsigned(msb, lsb) == lsb + msb * 256

(* int16_t(lsb + msb * 256) *)
Signed(msb, lsb) ==
  LET bits == lsb + msb * 256
  IN  IF bits >= 2^15 THEN bits - 2^16 ELSE bits

Magnitude(val) == IF val < 0 THEN -val ELSE val

(* How many digits a magnitude of an int16 takes. *)
NumDigits(m) == IF m < 10 THEN 1 ELSE IF m < 100 THEN 2 ELSE IF m < 1000 THEN 3
                ELSE IF m < 10000 THEN 4 ELSE 5

(* "00000" + oss.str(), as a sequence of digits. *)
PaddedDigits(m) ==
  LET n == NumDigits(m)
  IN  [i \in 1..n + 5 |-> IF i <= 5 THEN 0 ELSE (m \div 10^(n + 5 - i)) % 10]

(* Mutant of StripZeros: every leading zero goes, the units digit too. *)
StripZerosAll(s) ==
  SubSeq(s, CHOOSE i \in 1..Len(s) + 1 : /\ i <= Len(s) => s[i] # 0
                                         /\ \A j \in 1..i - 1 : s[j] = 0,
         Len(s))

(* Strip leading zeros, but leave the digit in front of the point. *)
StripZeros(s) ==
  IF s = <<>> THEN s
  ELSE SubSeq(s, CHOOSE i \in 1..Len(s) : /\ i < Len(s) => s[i] # 0
                                          /\ \A j \in 1..i - 1 : s[j] = 0,
              Len(s))

(* The digits in front of the decimal point. *)
Whole(m, decimals) ==
  LET s == PaddedDigits(m) IN StripZeros(SubSeq(s, 1, Len(s) - decimals))

(* The digits behind it: as many as the display has segments left, the     *)
(* others are cut off, not rounded.                                        *)
Fraction(m, decimals, maxNumSegments) ==
  LET s    == PaddedDigits(m)
      left == maxNumSegments - Len(Whole(m, decimals))
  IN  SubSeq(s, Len(s) - decimals + 1,
                Len(s) - decimals + (IF left < decimals THEN left ELSE decimals))

(* Mutant of NumberReadable: the digits are not padded with zeros. *)
NumberReadableUnpadded(msb, lsb, decimalsAndUnit, maxNumSegments) ==
  Decimals(decimalsAndUnit) \in 1..NumDigits(Magnitude(Signed(msb, lsb)))

(* bits2Number: the point must fall inside the padded digits, and the      *)
(* digits in front of it must fit the display.                             *)
NumberReadable(msb, lsb, decimalsAndUnit, maxNumSegments) ==
  LET decimals == Decimals(decimalsAndUnit)
      m        == Magnitude(Signed(msb, lsb))
  IN  /\ decimals > 0
      /\ decimals <= NumDigits(m) + 5
      /\ Len(Whole(m, decimals)) <= maxNumSegments

bits2Number(msb, lsb, decimalsAndUnit, maxNumSegments) ==
  LET decimals == Decimals(decimalsAndUnit)
      val      == Signed(msb, lsb)
  IN  [negative |-> val < 0,
       whole    |-> Whole(Magnitude(val), decimals),
       fraction |-> Fraction(Magnitude(val), decimals, maxNumSegments)]

-----------------------------------------------------------------------------
(* processFrame *)

HasNumber(errorFlags) == errorFlags \in {0, 128}

Text(s) == [text |-> s]

MValueReadable(d) ==
  /\ MErrorFlags(d) \in {0, 128, 34, 195, 67}
  /\ HasNumber(MErrorFlags(d)) =>
       NumberReadable(MValueMsb(d), MValueLsb(d), MDecimalsAndUnit(d), 5)

MValue(d) ==
  IF HasNumber(MErrorFlags(d))
  THEN bits2Number(MValueMsb(d), MValueLsb(d), MDecimalsAndUnit(d), 5)
  ELSE IF MErrorFlags(d) = 34 THEN Text("-") ELSE Text("OL")

SValueReadable(d) ==
  /\ SErrorFlags(d) \in {0, 128, 162, 129, 195}
  /\ HasNumber(SErrorFlags(d)) =>
       NumberReadable(SValueMsb(d), SValueLsb(d), SDecimalsAndUnit(d), 4)

SValue(d) ==
  IF HasNumber(SErrorFlags(d))
  THEN bits2Number(SValueMsb(d), SValueLsb(d), SDecimalsAndUnit(d), 4)
  ELSE Text(CASE SErrorFlags(d) = 162 -> "-"
              [] SErrorFlags(d) = 129 -> ""
              [] SErrorFlags(d) = 195 -> "OL")

(* No helper throws.  The last two bytes, CR and LF by the time the frame  *)
(* is cut, and the reserved bytes d1 and d4 are not looked at.             *)
Readable(d) ==
  /\ FirstByte(d) = 0
  /\ MModeReadable(MMode(d), Flags(d))
  /\ MValueReadable(d)
  /\ UnitCode(MDecimalsAndUnit(d)) \in MUnitCodes
  /\ SMode(d) \in 0..4
  /\ SValueReadable(d)
  /\ UnitCode(SDecimalsAndUnit(d)) \in SUnitCodes
  /\ Frequency(d) \in Frequencies

(* One row of the log. *)
Reading(d) ==
  [mMode  |-> MModeText(MMode(d), Flags(d)),
   mValue |-> MValue(d),
   mUnit  |-> UnitCode(MDecimalsAndUnit(d)),
   sMode  |-> SModeName[SMode(d) + 1],
   sValue |-> SValue(d),
   sUnit  |-> UnitCode(SDecimalsAndUnit(d)),
   freq   |-> Frequency(d)]

(* Mutant of processFrame: a zero behind the last CR LF is taken as enough *)
(* of a sign of being in step, as the message of line 402 has it.          *)
processFrameFirstByte(d) == IF FirstByte(d) = 0 THEN [bytes |-> d] ELSE Refused

processFrame(d) == IF Readable(d) THEN Reading(d) ELSE Refused

=============================================================================
