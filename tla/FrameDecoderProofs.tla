------------------------- MODULE FrameDecoderProofs -------------------------
(***************************************************************************)
(* What processFrame does with the frames of the meter and with pieces of  *)
(* two of them.  The parser cuts a piece when a reading contains CR LF.    *)
(***************************************************************************)
EXTENDS MeterFrames, MCFrameDecoder, TLAPS

(* No piece of two consecutive frames that ends in CR LF is taken for a    *)
(* reading, whatever the measured values are: processFrame has no          *)
(* checksum to rely on, its checks of single bytes (lines 400, 110 and     *)
(* 480) are all that keeps a misaligned row from showing values.           *)
THEOREM MisalignedIsRefused ==
  ASSUME NEW f, NEW g, IsFramed(f), IsFramed(g), NEW k \in 1..16,
         EndsInCRLF(Misaligned(f, g, k))
  PROVE  processFrame(Misaligned(f, g, k)) = Refused
<1> DEFINE w == Misaligned(f, g, k)
<1>1. \A i \in 1..17 : w[i] = IF i + k <= 17 THEN f[i + k] ELSE g[i + k - 17]
  BY DEF Misaligned, frame_size
<1>2. /\ g[1] = 0 /\ g[2] = 13 /\ g[5] = 0
      /\ g[3] \in 0..255 /\ g[3] % 32 = 0
      /\ g[4] \in {24, 56, 88, 120, 152, 184}
      /\ g[6] \in 1..4 /\ g[11] \in 0..4
      /\ g[10] \in {0, 128, 34, 195, 67}
      /\ g[15] \in {0, 128, 162, 129, 195}
  <2>1. g[3] \in 0..255
    <3>1. g \in [1..17 -> 0..255]
      BY DEF IsFramed, frame_size, FrameByte
    <3>2. \A i \in 1..17 : g[i] \in 0..255
      BY <3>1
    <3> QED BY <3>2
  <2> QED
    BY <2>1 DEF IsFramed, Flags, Frequency, Frequencies, MMode, SMode,
                MErrorFlags, SErrorFlags
<1>3. f[15] \in {0, 128, 162, 129, 195}
  BY DEF IsFramed, SErrorFlags
<1>4. w[16] = 13 /\ w[17] = 10
  BY DEF EndsInCRLF
<1>5. g[3] # 10 /\ g[3] # 13 /\ g[3] \notin 1..4
  BY <1>2
<1> HIDE DEF w
<1>6. k \in {8, 9, 13, 14}
  <2>1. w[17] = g[k]
    BY <1>1
  <2>2. k # 1
    BY <1>2, <1>4, <2>1
  <2>3. w[16] = g[k - 1]
    BY <1>1, <2>2
  <2>4. k \notin {2, 4, 5, 6, 7, 11, 12, 16}
    BY <1>2, <1>4, <1>5, <2>3
  <2>5. k \notin {3, 10, 15}
    BY <1>2, <1>4, <1>5, <2>1
  <2> QED BY <2>2, <2>4, <2>5
<1>7. ~Readable(w)
  <2>1. CASE k = 8
    <3>1. w[15] = g[6]
      BY <1>1, <2>1
    <3>2. w[15] \notin {0, 128, 162, 129, 195}
      BY <1>2, <3>1
    <3> QED BY <3>2 DEF Readable, SValueReadable, SErrorFlags
  <2>2. CASE k \in {9, 13, 14}
    <3>1. w[6] = IF k = 9 THEN f[15] ELSE IF k = 13 THEN g[2] ELSE g[3]
      BY <1>1, <2>2
    <3>2. w[6] \notin 1..4
      BY <1>2, <1>3, <1>5, <2>2, <3>1
    <3> QED BY <3>2 DEF Readable, MModeReadable, MMode
  <2> QED BY <1>6, <2>1, <2>2
<1> QED BY <1>7 DEF processFrame, w

-----------------------------------------------------------------------------
(* Numbers: bits2Number, for every value.                                  *)

(* The magnitudes of an int16. *)
Magnitudes == {m \in Nat : m <= 32768}

LEMMA Powers ==
  ASSUME NEW k
  PROVE  /\ k = 0 => 10^k = 1
         /\ k = 1 => 10^k = 10
         /\ k = 2 => 10^k = 100
         /\ k = 3 => 10^k = 1000
         /\ k = 4 => 10^k = 10000
         /\ k = 5 => 10^k = 100000
         /\ k = 6 => 10^k = 1000000
         /\ k = 7 => 10^k = 10000000
         /\ k = 8 => 10^k = 100000000
         /\ k = 9 => 10^k = 1000000000
<1>1. k = 0 => 10^k = 1
  <2>1. k = 0 => 10^k = 10^0
    BY Zenon
  <2> QED BY <2>1, SMT
<1>2. k = 1 => 10^k = 10
  <2>1. k = 1 => 10^k = 10^1
    BY Zenon
  <2> QED BY <2>1, SMT
<1>3. k = 2 => 10^k = 100
  <2>1. k = 2 => 10^k = 10^2
    BY Zenon
  <2> QED BY <2>1, SMT
<1>4. k = 3 => 10^k = 1000
  <2>1. k = 3 => 10^k = 10^3
    BY Zenon
  <2> QED BY <2>1, SMT
<1>5. k = 4 => 10^k = 10000
  <2>1. k = 4 => 10^k = 10^4
    BY Zenon
  <2> QED BY <2>1, SMT
<1>6. k = 5 => 10^k = 100000
  <2>1. k = 5 => 10^k = 10^5
    BY Zenon
  <2> QED BY <2>1, SMT
<1>7. k = 6 => 10^k = 1000000
  <2>1. k = 6 => 10^k = 10^6
    BY Zenon
  <2> QED BY <2>1, SMT
<1>8. k = 7 => 10^k = 10000000
  <2>1. k = 7 => 10^k = 10^7
    BY Zenon
  <2> QED BY <2>1, SMT
<1>9. k = 8 => 10^k = 100000000
  <2>1. k = 8 => 10^k = 10^8
    BY Zenon
  <2> QED BY <2>1, SMT
<1>10. k = 9 => 10^k = 1000000000
  <2>1. k = 9 => 10^k = 10^9
    BY Zenon
  <2> QED BY <2>1, SMT
<1> QED BY <1>1, <1>2, <1>3, <1>4, <1>5, <1>6, <1>7, <1>8, <1>9, <1>10, SMT

(* The two bytes are a two's complement number (line 304). *)
LEMMA SignedIsMeasured ==
  ASSUME NEW x \in 0..255, NEW y \in 0..255
  PROVE  /\ Signed(x, y) = y + 256 * (IF x >= 128 THEN x - 256 ELSE x)
         /\ Signed(x, y) \in Int
         /\ Magnitude(Signed(x, y)) \in Magnitudes
         /\ Magnitude(Signed(x, y)) = IF Signed(x, y) < 0 THEN -Signed(x, y) ELSE Signed(x, y)
<1>1. 2^15 = 32768 /\ 2^16 = 65536
  BY SMT
<1>2. Signed(x, y) = IF y + x * 256 >= 32768 THEN y + x * 256 - 65536 ELSE y + x * 256
  BY <1>1 DEF Signed
<1>3. PICK val \in Int : val = Signed(x, y)
  BY <1>2
<1>4. val = y + 256 * (IF x >= 128 THEN x - 256 ELSE x)
  BY <1>2, <1>3
<1>5. val >= -32768 /\ val <= 32767
  BY <1>4
<1>6. Magnitude(val) = IF val < 0 THEN -val ELSE val
  BY DEF Magnitude
<1>7. Magnitude(val) \in Magnitudes
  BY <1>5, <1>6 DEF Magnitudes
<1> QED BY <1>3, <1>4, <1>5, <1>6, <1>7

LEMMA DigitCount ==
  ASSUME NEW m \in Magnitudes
  PROVE  /\ NumDigits(m) \in 1..5
         /\ NumDigits(m) = 1 => m < 10
         /\ NumDigits(m) = 2 => m >= 10 /\ m < 100
         /\ NumDigits(m) = 3 => m >= 100 /\ m < 1000
         /\ NumDigits(m) = 4 => m >= 1000 /\ m < 10000
         /\ NumDigits(m) = 5 => m >= 10000
BY DEF NumDigits, Magnitudes

(* Named, to be kept folded where only the count matters. *)
HasDigits(m, n) == n = NumDigits(m)

Digit == 0..9

(* The k-th decimal digit. *)
Place(m, k) == (m \div 10^k) % 10

LEMMA PowerType ==
  ASSUME NEW k \in 0..9
  PROVE  10^k \in Nat \ {0}
BY Powers

(* In front of the first digit there is nothing but zeros. *)
LEMMA HighPlaces ==
  ASSUME NEW m \in Magnitudes, NEW k \in 0..9, k >= NumDigits(m)
  PROVE  Place(m, k) = 0
<1>1. PICK n \in 1..5 : n = NumDigits(m)
  BY DigitCount
<1>2. k \in {1, 2, 3, 4, 5, 6, 7, 8, 9}
  BY <1>1
<1>3. PICK p \in Nat \ {0} : p = 10^k
  BY PowerType
<1>4. m < p
  <2>1. k = 1 => p = 10
    BY <1>3, Powers
  <2>2. k = 2 => p = 100
    BY <1>3, Powers
  <2>3. k = 3 => p = 1000
    BY <1>3, Powers
  <2>4. k = 4 => p = 10000
    BY <1>3, Powers
  <2>5. k \in 5..9 => p >= 100000
    BY <1>3, Powers
  <2> QED BY <1>1, <1>2, <2>1, <2>2, <2>3, <2>4, <2>5, DigitCount DEF Magnitudes
<1>5. m \div p = 0
  BY <1>4 DEF Magnitudes
<1> QED BY <1>3, <1>5 DEF Place

LEMMA PlaceType ==
  ASSUME NEW m \in Magnitudes, NEW k \in 0..9
  PROVE  Place(m, k) \in 0..9
<1>1. PICK p \in Nat \ {0} : p = 10^k
  BY PowerType
<1>2. m \div p \in Nat
  BY DEF Magnitudes
<1> QED BY <1>1, <1>2 DEF Place

(* The padded digits are the places of the magnitude, the first digit of   *)
(* a number of several digits is not zero.                                 *)
LEMMA PaddedIsPlaces ==
  ASSUME NEW m \in Magnitudes, NEW n \in 1..5, n = NumDigits(m)
  PROVE  /\ PaddedDigits(m) \in Seq(Digit)
         /\ Len(PaddedDigits(m)) = n + 5
         /\ \A i \in 1..n + 5 : PaddedDigits(m)[i] = Place(m, n + 5 - i)
         /\ \A i \in 1..5 : PaddedDigits(m)[i] = 0
         /\ n > 1 => PaddedDigits(m)[6] # 0
<1> DEFINE s == PaddedDigits(m)
<1>1. s = [i \in 1..n + 5 |-> IF i <= 5 THEN 0 ELSE Place(m, n + 5 - i)]
  BY DEF PaddedDigits, Place
<1> HIDE DEF s
<1>2. ASSUME NEW i \in 1..n + 5
      PROVE  s[i] = Place(m, n + 5 - i) /\ s[i] \in 0..9
  <2>1. n + 5 - i \in 0..9
    OBVIOUS
  <2>2. i <= 5 => Place(m, n + 5 - i) = 0
    BY <2>1, HighPlaces
  <2>3. Place(m, n + 5 - i) \in 0..9
    BY <2>1, PlaceType
  <2> QED BY <1>1, <2>2, <2>3
<1>3. s \in Seq(Digit) /\ Len(s) = n + 5
  <2>1. s \in [1..n + 5 -> Digit]
    BY <1>1, <1>2 DEF Digit
  <2>2. n + 5 \in Nat
    OBVIOUS
  <2> QED BY <2>1, <2>2
<1>4. m \in Nat /\ \A i \in 1..5 : s[i] = 0
  BY <1>1 DEF Magnitudes
<1>5. n > 1 => s[6] # 0
  <2> SUFFICES ASSUME n > 1 PROVE s[6] # 0
    OBVIOUS
  <2>1. s[6] = (m \div 10^(n - 1)) % 10
    BY <1>1 DEF Place
  <2>2. CASE n = 2
    <3>1. n - 1 = 1
      BY <2>2
    <3>2. 10^(n - 1) = 10
      BY <3>1, Powers
    <3>3. s[6] = (m \div 10) % 10
      BY <2>1, <3>2
    <3>4. m >= 10 /\ m < 100
      <4>1. NumDigits(m) = 2
        BY <2>2
      <4> QED BY <4>1, DigitCount
    <3> QED BY <1>4, <3>3, <3>4
  <2>3. CASE n = 3
    <3>1. n - 1 = 2
      BY <2>3
    <3>2. 10^(n - 1) = 100
      BY <3>1, Powers
    <3>3. s[6] = (m \div 100) % 10
      BY <2>1, <3>2
    <3>4. m >= 100 /\ m < 1000
      <4>1. NumDigits(m) = 3
        BY <2>3
      <4> QED BY <4>1, DigitCount
    <3> QED BY <1>4, <3>3, <3>4
  <2>4. CASE n = 4
    <3>1. n - 1 = 3
      BY <2>4
    <3>2. 10^(n - 1) = 1000
      BY <3>1, Powers
    <3>3. s[6] = (m \div 1000) % 10
      BY <2>1, <3>2
    <3>4. m >= 1000 /\ m < 10000
      <4>1. NumDigits(m) = 4
        BY <2>4
      <4> QED BY <4>1, DigitCount
    <3> QED BY <1>4, <3>3, <3>4
  <2>5. CASE n = 5
    <3>1. n - 1 = 4
      BY <2>5
    <3>2. 10^(n - 1) = 10000
      BY <3>1, Powers
    <3>3. s[6] = (m \div 10000) % 10
      BY <2>1, <3>2
    <3>4. m >= 10000 /\ m <= 32768
      <4>1. NumDigits(m) = 5
        BY <2>5
      <4> QED BY <4>1, DigitCount DEF Magnitudes
    <3> QED BY <1>4, <3>3, <3>4
  <2> QED BY <2>2, <2>3, <2>4, <2>5
<1> QED BY <1>2, <1>3, <1>4, <1>5 DEF s

(* The five digits up to a place. *)
PlaceSum(m, c) ==
  Place(m, c) + 10 * Place(m, c + 1) + 100 * Place(m, c + 2)
    + 1000 * Place(m, c + 3) + 10000 * Place(m, c + 4)

(* They are the number left of that place. *)
LEMMA PlacesAreQuotient ==
  ASSUME NEW m \in Magnitudes, NEW c \in 0..4
  PROVE  PlaceSum(m, c) = m \div 10^c
<1>1. m \in Nat /\ m <= 32768
  BY DEF Magnitudes
<1>2. CASE c = 0
  <2>1. Place(m, c + 0) = (m \div 1) % 10
    BY <1>2, Powers DEF Place
  <2>2. Place(m, c + 1) = (m \div 10) % 10
    BY <1>2, Powers DEF Place
  <2>3. Place(m, c + 2) = (m \div 100) % 10
    BY <1>2, Powers DEF Place
  <2>4. Place(m, c + 3) = (m \div 1000) % 10
    BY <1>2, Powers DEF Place
  <2>5. Place(m, c + 4) = (m \div 10000) % 10
    BY <1>2, Powers DEF Place
  <2>6. m \div 10^c = m \div 1
    BY <1>2, Powers
  <2>7. m \div 1 = ((m \div 1) % 10) + 10 * ((m \div 10) % 10)
                   + 100 * ((m \div 100) % 10)
                   + 1000 * ((m \div 1000) % 10) + 10000 * ((m \div 10000) % 10)
    BY <1>1
  <2> QED BY <2>1, <2>2, <2>3, <2>4, <2>5, <2>6, <2>7 DEF PlaceSum
<1>3. CASE c = 1
  <2>1. Place(m, c + 0) = (m \div 10) % 10
    BY <1>3, Powers DEF Place
  <2>2. Place(m, c + 1) = (m \div 100) % 10
    BY <1>3, Powers DEF Place
  <2>3. Place(m, c + 2) = (m \div 1000) % 10
    BY <1>3, Powers DEF Place
  <2>4. Place(m, c + 3) = (m \div 10000) % 10
    BY <1>3, Powers DEF Place
  <2>5. Place(m, c + 4) = (m \div 100000) % 10
    BY <1>3, Powers DEF Place
  <2>6. m \div 10^c = m \div 10
    BY <1>3, Powers
  <2>7. m \div 10 = ((m \div 10) % 10) + 10 * ((m \div 100) % 10)
                    + 100 * ((m \div 1000) % 10)
                    + 1000 * ((m \div 10000) % 10) + 10000 * ((m \div 100000) % 10)
    BY <1>1
  <2> QED BY <2>1, <2>2, <2>3, <2>4, <2>5, <2>6, <2>7 DEF PlaceSum
<1>4. CASE c = 2
  <2>1. Place(m, c + 0) = (m \div 100) % 10
    BY <1>4, Powers DEF Place
  <2>2. Place(m, c + 1) = (m \div 1000) % 10
    BY <1>4, Powers DEF Place
  <2>3. Place(m, c + 2) = (m \div 10000) % 10
    BY <1>4, Powers DEF Place
  <2>4. Place(m, c + 3) = (m \div 100000) % 10
    BY <1>4, Powers DEF Place
  <2>5. Place(m, c + 4) = (m \div 1000000) % 10
    BY <1>4, Powers DEF Place
  <2>6. m \div 10^c = m \div 100
    BY <1>4, Powers
  <2>7. m \div 100 = ((m \div 100) % 10) + 10 * ((m \div 1000) % 10)
                     + 100 * ((m \div 10000) % 10)
                     + 1000 * ((m \div 100000) % 10) + 10000 * ((m \div 1000000) % 10)
    BY <1>1
  <2> QED BY <2>1, <2>2, <2>3, <2>4, <2>5, <2>6, <2>7 DEF PlaceSum
<1>5. CASE c = 3
  <2>1. Place(m, c + 0) = (m \div 1000) % 10
    BY <1>5, Powers DEF Place
  <2>2. Place(m, c + 1) = (m \div 10000) % 10
    BY <1>5, Powers DEF Place
  <2>3. Place(m, c + 2) = (m \div 100000) % 10
    BY <1>5, Powers DEF Place
  <2>4. Place(m, c + 3) = (m \div 1000000) % 10
    BY <1>5, Powers DEF Place
  <2>5. Place(m, c + 4) = (m \div 10000000) % 10
    BY <1>5, Powers DEF Place
  <2>6. m \div 10^c = m \div 1000
    BY <1>5, Powers
  <2>7. m \div 1000 = ((m \div 1000) % 10) + 10 * ((m \div 10000) % 10)
                      + 100 * ((m \div 100000) % 10)
                      + 1000 * ((m \div 1000000) % 10) + 10000 * ((m \div 10000000) % 10)
    BY <1>1
  <2> QED BY <2>1, <2>2, <2>3, <2>4, <2>5, <2>6, <2>7 DEF PlaceSum
<1>6. CASE c = 4
  <2>1. Place(m, c + 0) = (m \div 10000) % 10
    BY <1>6, Powers DEF Place
  <2>2. Place(m, c + 1) = (m \div 100000) % 10
    BY <1>6, Powers DEF Place
  <2>3. Place(m, c + 2) = (m \div 1000000) % 10
    BY <1>6, Powers DEF Place
  <2>4. Place(m, c + 3) = (m \div 10000000) % 10
    BY <1>6, Powers DEF Place
  <2>5. Place(m, c + 4) = (m \div 100000000) % 10
    BY <1>6, Powers DEF Place
  <2>6. m \div 10^c = m \div 10000
    BY <1>6, Powers
  <2>7. m \div 10000 = ((m \div 10000) % 10) + 10 * ((m \div 100000) % 10)
                       + 100 * ((m \div 1000000) % 10)
                       + 1000 * ((m \div 10000000) % 10) + 10000 * ((m \div 100000000) % 10)
    BY <1>1
  <2> QED BY <2>1, <2>2, <2>3, <2>4, <2>5, <2>6, <2>7 DEF PlaceSum
<1> QED BY <1>2, <1>3, <1>4, <1>5, <1>6

LEMMA Span ==
  ASSUME NEW s \in Seq(Digit), NEW f \in 1..Len(s) + 1, NEW e \in 0..Len(s), f <= e + 1
  PROVE  /\ Len(SubSeq(s, f, e)) = e - f + 1
         /\ \A i \in 1..e - f + 1 : SubSeq(s, f, e)[i] = s[f + i - 1]
OBVIOUS

(* Where the number starts among the padded digits, if p of them are in    *)
(* front of the point.                                                     *)
FirstShown(p) == IF p = 0 THEN 1 ELSE IF p <= 5 THEN p ELSE 6

LEMMA FirstShownType ==
  ASSUME NEW p \in Nat
  PROVE  FirstShown(p) \in 1..6 /\ FirstShown(p) <= p + 1
BY DEF FirstShown

(* StripZeros leaves the units digit, or the number without its padding.   *)
LEMMA WholeIsSpan ==
  ASSUME NEW m \in Magnitudes, NEW n \in 1..5, HasDigits(m, n),
         NEW decimals \in 1..7, NEW p \in Nat, p = n + 5 - decimals
  PROVE  /\ Whole(m, decimals) = SubSeq(PaddedDigits(m), FirstShown(p), p)
         /\ Len(Whole(m, decimals)) = p + 1 - FirstShown(p)
         /\ p - FirstShown(p) > 0 => PaddedDigits(m)[FirstShown(p)] # 0
<1>1. PICK s \in Seq(Digit) : s = PaddedDigits(m)
  BY PaddedIsPlaces DEF HasDigits
<1>2. /\ Len(s) = n + 5 /\ \A i \in 1..5 : s[i] = 0
      /\ n > 1 => s[6] # 0
  BY <1>1, PaddedIsPlaces DEF HasDigits
<1>3. PICK t : t = SubSeq(s, 1, p)
  OBVIOUS
<1>4. Len(t) = p /\ \A i \in 1..p : t[i] = s[i]
  BY <1>2, <1>3
<1>5. Whole(m, decimals) = StripZeros(t)
  <2>1. n + 5 - decimals = p
    OBVIOUS
  <2>2. Len(s) - decimals = p
    BY <1>2
  <2>3. Whole(m, decimals) = StripZeros(SubSeq(s, 1, Len(s) - decimals))
    BY <1>1 DEF Whole
  <2> QED BY <1>3, <2>2, <2>3
<1>6. PICK f \in 1..6 : f = FirstShown(p)
  BY DEF FirstShown
<1>7. p + 1 >= f /\ (p > f => n > 1 /\ f = 6)
  BY <1>6 DEF FirstShown
<1>8. StripZeros(t) = SubSeq(s, f, p)
  <2>1. CASE p = 0
    <3>1. t = <<>> /\ f = 1
      BY <1>4, <1>6, <2>1 DEF FirstShown
    <3>2. SubSeq(s, f, p) = <<>>
      BY <1>2, <2>1, <3>1
    <3> QED BY <3>1, <3>2 DEF StripZeros
  <2>2. CASE p > 0
    <3> DEFINE First(i) == /\ i < Len(t) => t[i] # 0
                           /\ \A j \in 1..i - 1 : t[j] = 0
    <3>1. f \in 1..Len(t)
      BY <1>4, <1>6, <2>2 DEF FirstShown
    <3>2. First(f)
      <4>1. f < Len(t) => t[f] # 0
        BY <1>2, <1>4, <1>7, <3>1
      <4>2. ASSUME NEW j \in 1..f - 1 PROVE t[j] = 0
        BY <1>2, <1>4, <3>1, <4>2
      <4> QED BY <4>1, <4>2
    <3>3. ASSUME NEW i \in 1..Len(t), First(i) PROVE i = f
      <4>1. CASE i < f
        <5>1. i < Len(t) /\ i \in 1..5 /\ i \in 1..p
          BY <1>4, <1>6, <3>1, <4>1
        <5>2. t[i] = 0
          BY <1>2, <1>4, <5>1
        <5> QED BY <3>3, <5>1, <5>2
      <4>2. CASE i > f
        <5>1. f \in 1..i - 1 /\ f < Len(t)
          BY <1>4, <3>1, <4>2
        <5> QED BY <3>2, <3>3, <5>1
      <4> QED BY <1>4, <3>1, <4>1, <4>2
    <3>4. (CHOOSE i \in 1..Len(t) : First(i)) = f
      <4> HIDE DEF First
      <4> QED BY <3>1, <3>2, <3>3, Zenon
    <3>5. t # <<>>
      BY <1>4, <2>2
    <3>6. StripZeros(t) = SubSeq(t, f, Len(t))
      BY <3>4, <3>5 DEF StripZeros
    <3>7. SubSeq(t, f, p) = SubSeq(s, f, p)
      BY <1>2, <1>4, <3>1
    <3> QED BY <1>4, <3>6, <3>7
  <2> QED BY <2>1, <2>2
<1>9. Len(SubSeq(s, f, p)) = p + 1 - f
  <2>1. f \in 1..Len(s) + 1 /\ p \in 0..Len(s)
    BY <1>2
  <2>2. f <= p + 1
    BY <1>7
  <2> QED BY <2>1, <2>2
<1>10. p - f > 0 => s[f] # 0
  BY <1>2, <1>7
<1> QED BY <1>1, <1>5, <1>6, <1>7, <1>8, <1>9, <1>10

(* What is shown is a stretch of the padded digits.                        *)
LEMMA ShownIsSpan ==
  ASSUME NEW m \in Magnitudes, NEW n \in 1..5, HasDigits(m, n),
         NEW decimals \in 1..7, NEW p \in Nat, p = n + 5 - decimals,
         NEW segments \in 4..5, p + 1 - FirstShown(p) <= segments
  PROVE  \E shown \in 0..decimals :
           /\ Len(Fraction(m, decimals, segments)) = shown
           /\ (p + 1 - FirstShown(p)) + shown <= segments
           /\ shown < decimals => (p + 1 - FirstShown(p)) + shown = segments
           /\ Whole(m, decimals) \o Fraction(m, decimals, segments)
                = SubSeq(PaddedDigits(m), FirstShown(p), p + shown)
           /\ decimals - shown \in 0..4
<1>1. PICK s \in Seq(Digit) : s = PaddedDigits(m)
  BY PaddedIsPlaces DEF HasDigits
<1>2. Len(s) = n + 5 /\ Len(s) - decimals = p
  <2>1. Len(s) = n + 5
    BY <1>1, PaddedIsPlaces DEF HasDigits
  <2> QED BY <2>1
<1>3. PICK f \in 1..6 : f = FirstShown(p)
  BY FirstShownType
<1>4. f <= p + 1
  BY <1>3, FirstShownType
<1>5. /\ Whole(m, decimals) = SubSeq(s, f, p)
      /\ Len(Whole(m, decimals)) = p + 1 - f
  <2>1. Whole(m, decimals) = SubSeq(PaddedDigits(m), FirstShown(p), p)
    BY WholeIsSpan
  <2>2. Len(Whole(m, decimals)) = p + 1 - FirstShown(p)
    BY WholeIsSpan
  <2> QED BY <1>1, <1>3, <2>1, <2>2
<1>6. p + 1 - f <= segments
  BY <1>3
<1>7. PICK left \in Nat : left = segments - (p + 1 - f)
  BY <1>6
<1>8. PICK cut \in 0..decimals : cut = IF left < decimals THEN left ELSE decimals
  OBVIOUS
<1>9. Fraction(m, decimals, segments) = SubSeq(s, p + 1, p + cut)
  BY <1>1, <1>2, <1>4, <1>5, <1>7, <1>8 DEF Fraction
<1>10. Len(SubSeq(s, p + 1, p + cut)) = cut
  <2>1. p + 1 \in 1..Len(s) + 1 /\ p + cut \in 0..Len(s)
    BY <1>2
  <2> QED BY <2>1
<1>11. Len(Fraction(m, decimals, segments)) = cut
  BY <1>9, <1>10
<1>12. SubSeq(s, f, p) \o SubSeq(s, p + 1, p + cut) = SubSeq(s, f, p + cut)
  <2>1. f \in 1..Len(s) /\ p \in 0..Len(s) /\ p + cut \in 0..Len(s) /\ f <= p + 1
    BY <1>2, <1>4, <1>5
  <2> QED BY <2>1
<1>13. decimals - cut \in 0..4
  BY <1>3, <1>7, <1>8 DEF FirstShown
<1>14. (p + 1 - f) + cut <= segments /\ (cut < decimals => (p + 1 - f) + cut = segments)
  BY <1>6, <1>7, <1>8
<1> QED BY <1>1, <1>3, <1>4, <1>5, <1>9, <1>11, <1>12, <1>13, <1>14

(* The digits of a stretch that starts at the latest with the first digit  *)
(* of the number are worth the number without the places behind it.        *)
LEMMA SpanIsQuotient ==
  ASSUME NEW m \in Magnitudes, NEW n \in 1..5, HasDigits(m, n),
         NEW f \in 1..6, NEW e \in 1..n + 5,
         n + 5 - e \in 0..4, e - f + 1 \in 0..5
  PROVE  ValueOf(SubSeq(PaddedDigits(m), f, e)) = m \div 10^(n + 5 - e)
<1>1. PICK c \in 0..4 : c = n + 5 - e
  OBVIOUS
<1>2. PICK l \in 0..5 : l = e - f + 1
  OBVIOUS
<1>3. PICK s \in Seq(Digit) : s = PaddedDigits(m)
  BY PaddedIsPlaces DEF HasDigits
<1>4. /\ Len(s) = n + 5
      /\ \A i \in 1..n + 5 : s[i] = Place(m, n + 5 - i)
  BY <1>3, PaddedIsPlaces DEF HasDigits
<1>5. PICK t : t = SubSeq(s, f, e)
  OBVIOUS
<1>6. Len(t) = l /\ \A i \in 1..l : t[i] = s[f + i - 1]
  <2>1. f \in 1..Len(s) + 1 /\ e \in 0..Len(s)
    BY <1>4
  <2>2. f <= e + 1
    BY <1>2
  <2>3. /\ Len(SubSeq(s, f, e)) = e - f + 1
        /\ \A i \in 1..e - f + 1 : SubSeq(s, f, e)[i] = s[f + i - 1]
    BY <2>1, <2>2, Span
  <2> QED BY <1>2, <1>5, <2>3
<1>7. ASSUME NEW k \in 0..4
      PROVE  DigitAt(t, k) = Place(m, c + k)
  <2>1. CASE k < l
    <3>1. l - k \in 1..l /\ f + (l - k) - 1 = e - k /\ e - k \in 1..n + 5
      BY <1>2, <2>1
    <3>2. t[l - k] = s[e - k]
      BY <1>6, <3>1
    <3>3. n + 5 - (e - k) = c + k
      BY <1>1
    <3>4. s[e - k] = Place(m, c + k)
      BY <1>4, <3>1, <3>3
    <3> QED BY <1>6, <2>1, <3>2, <3>4 DEF DigitAt
  <2>2. CASE ~(k < l)
    <3>1. c + k \in 0..9 /\ c + k >= n
      BY <1>1, <1>2, <2>2
    <3>2. Place(m, c + k) = 0
      BY <3>1, HighPlaces DEF HasDigits
    <3> QED BY <1>6, <2>2, <3>2 DEF DigitAt
  <2> QED BY <2>1, <2>2
<1>8. ValueOf(t) = PlaceSum(m, c)
  <2>1. c + 0 = c
    OBVIOUS
  <2>2. DigitAt(t, 0) = Place(m, c)
    BY <1>7, <2>1
  <2> QED BY <1>7, <2>2 DEF ValueOf, PlaceSum
<1>9. PlaceSum(m, c) = m \div 10^c
  BY PlacesAreQuotient
<1> QED BY <1>1, <1>3, <1>5, <1>8, <1>9

MeasuredBy(x, y) == y + 256 * (IF x >= 128 THEN x - 256 ELSE x)

(* The number n shows val.                                                 *)
Shows(n, val, decimals, segments) ==
  /\ n.negative = (val < 0)
  /\ ValueOf(n.whole \o n.fraction) = Magnitude(val) \div 10^(decimals - Len(n.fraction))
  /\ Len(n.whole) + Len(n.fraction) <= segments
  /\ Len(n.fraction) < decimals => Len(n.whole) + Len(n.fraction) = segments
  /\ Len(n.whole) > 1 => n.whole[1] # 0

(* NumberIsTruncatedReading and EveryValueIsPrintable, for two bytes.      *)
LEMMA NumberIsTruncated ==
  ASSUME NEW x \in 0..255, NEW y \in 0..255, NEW byte,
         NEW decimals \in 1..7, Decimals(byte) = decimals, NEW segments \in 4..5,
         NumberReadable(x, y, byte, segments)
  PROVE  Shows(bits2Number(x, y, byte, segments), MeasuredBy(x, y), decimals, segments)
<1>1. PICK val \in Int : val = MeasuredBy(x, y)
  BY DEF MeasuredBy
<1>2. PICK n : n = bits2Number(x, y, byte, segments)
  OBVIOUS
<1>3. val = Signed(x, y)
  <2>1. Signed(x, y) = MeasuredBy(x, y)
    BY SignedIsMeasured DEF MeasuredBy
  <2> QED BY <1>1, <2>1
<1>4. PICK m \in Magnitudes : m = Magnitude(val)
  <2>1. Magnitude(Signed(x, y)) \in Magnitudes
    BY SignedIsMeasured
  <2> QED BY <1>3, <2>1
<1>5. PICK k \in 1..5 : HasDigits(m, k)
  BY DigitCount DEF HasDigits
<1>6. /\ decimals <= k + 5
      /\ Len(Whole(m, decimals)) <= segments
  BY <1>3, <1>4, <1>5 DEF NumberReadable, HasDigits
<1>7. PICK p \in Nat : p = k + 5 - decimals
  BY <1>6
<1>8. /\ n.negative = (val < 0)
      /\ n.whole = Whole(m, decimals)
      /\ n.fraction = Fraction(m, decimals, segments)
  BY <1>2, <1>3, <1>4 DEF bits2Number
<1>9. PICK f \in 1..6 : f = FirstShown(p)
  BY FirstShownType
<1>10. Whole(m, decimals) = SubSeq(PaddedDigits(m), f, p)
  <2>1. Whole(m, decimals) = SubSeq(PaddedDigits(m), FirstShown(p), p)
    BY <1>5, <1>7, WholeIsSpan
  <2> QED BY <1>9, <2>1
<1>11. Len(Whole(m, decimals)) = p + 1 - f
  <2>1. Len(Whole(m, decimals)) = p + 1 - FirstShown(p)
    BY <1>5, <1>7, WholeIsSpan
  <2> QED BY <1>9, <2>1
<1>12. f <= p + 1
  BY <1>9, FirstShownType
<1>13. p - f > 0 => PaddedDigits(m)[f] # 0
  <2>1. p - FirstShown(p) > 0 => PaddedDigits(m)[FirstShown(p)] # 0
    BY <1>5, <1>7, WholeIsSpan
  <2> QED BY <1>9, <2>1
<1>14. p + 1 - f <= segments
  BY <1>6, <1>11
<1>15. PICK shown \in 0..decimals :
         /\ Len(Fraction(m, decimals, segments)) = shown
         /\ (p + 1 - f) + shown <= segments
         /\ shown < decimals => (p + 1 - f) + shown = segments
         /\ Whole(m, decimals) \o Fraction(m, decimals, segments)
              = SubSeq(PaddedDigits(m), f, p + shown)
         /\ decimals - shown \in 0..4
  BY <1>5, <1>7, <1>9, <1>14, ShownIsSpan
<1>16. ValueOf(n.whole \o n.fraction) = m \div 10^(decimals - shown)
  <2>1. PICK e \in 1..k + 5 : e = p + shown
    BY <1>7, <1>15
  <2>2. k + 5 - e \in 0..4 /\ k + 5 - e = decimals - shown
    BY <1>7, <1>15, <2>1
  <2>3. e - f + 1 \in 0..5
    BY <1>12, <1>15, <2>1
  <2>4. ValueOf(SubSeq(PaddedDigits(m), f, e)) = m \div 10^(k + 5 - e)
    BY <1>5, <2>2, <2>3, SpanIsQuotient
  <2> QED BY <1>8, <1>15, <2>1, <2>2, <2>4
<1>17. Len(n.whole) > 1 => n.whole[1] # 0
  <2> SUFFICES ASSUME p + 1 - f > 1 PROVE SubSeq(PaddedDigits(m), f, p)[1] # 0
    BY <1>8, <1>10, <1>11
  <2>1. PICK s \in Seq(Digit) : s = PaddedDigits(m)
    BY <1>5, PaddedIsPlaces DEF HasDigits
  <2>2. Len(s) = k + 5
    BY <1>5, <2>1, PaddedIsPlaces DEF HasDigits
  <2>3. f \in 1..Len(s) + 1 /\ p \in 0..Len(s) /\ f <= p + 1
    BY <1>7, <1>12, <2>2
  <2>4. SubSeq(s, f, p)[1] = s[f]
    <3>1. \A i \in 1..p - f + 1 : SubSeq(s, f, p)[i] = s[f + i - 1]
      BY <2>3, Span
    <3>2. 1 \in 1..p - f + 1 /\ f + 1 - 1 = f
      OBVIOUS
    <3> QED BY <3>1, <3>2
  <2>5. s[f] # 0
    BY <1>13, <2>1
  <2> QED BY <2>1, <2>4, <2>5
<1>18. n.negative = (val < 0)
  BY <1>8
<1>19. ValueOf(n.whole \o n.fraction) = Magnitude(val) \div 10^(decimals - Len(n.fraction))
  BY <1>4, <1>8, <1>15, <1>16
<1>20. /\ Len(n.whole) + Len(n.fraction) <= segments
       /\ Len(n.fraction) < decimals => Len(n.whole) + Len(n.fraction) = segments
  BY <1>8, <1>11, <1>15
<1>21. Shows(n, val, decimals, segments)
  BY <1>17, <1>18, <1>19, <1>20 DEF Shows
<1> QED BY <1>1, <1>2, <1>21

LEMMA ValueIsPrintable ==
  ASSUME NEW x \in 0..255, NEW y \in 0..255, NEW byte,
         NEW decimals \in 1..7, decimals <= 5, Decimals(byte) = decimals,
         NEW segments \in 4..5
  PROVE  /\ NumberReadable(x, y, byte, segments)
         /\ bits2Number(x, y, byte, segments).whole # <<>>
<1>1. PICK m \in Magnitudes : m = Magnitude(Signed(x, y))
  BY SignedIsMeasured
<1>2. PICK k \in 1..5 : HasDigits(m, k)
  BY DigitCount DEF HasDigits
<1>3. PICK p \in Nat : p = k + 5 - decimals
  OBVIOUS
<1>4. PICK f \in 1..6 : f = FirstShown(p)
  BY FirstShownType
<1>5. Len(Whole(m, decimals)) = p + 1 - f
  <2>1. Len(Whole(m, decimals)) = p + 1 - FirstShown(p)
    BY <1>2, <1>3, WholeIsSpan
  <2> QED BY <1>4, <2>1
<1>6. p + 1 - f \in 1..4
  BY <1>3, <1>4 DEF FirstShown
<1>7. NumberReadable(x, y, byte, segments)
  BY <1>1, <1>2, <1>5, <1>6 DEF NumberReadable, HasDigits
<1>8. bits2Number(x, y, byte, segments).whole = Whole(m, decimals)
  BY <1>1 DEF bits2Number
<1> QED BY <1>5, <1>6, <1>7, <1>8

BytesOK == msb \in 0..255 /\ lsb \in 0..255

(* The two bytes of a reading, which the instance counts through, stay in  *)
(* the range of a byte.                                                    *)
THEOREM BytesAreBytes == MCSpec => []BytesOK
<1>1. MCInit => BytesOK
  BY DEF MCInit, BytesOK
<1>2. BytesOK /\ [MCNext]_<<msb, lsb>> => BytesOK'
  BY DEF BytesOK, MCNext, NextMsb, NextLsb
<1> QED BY <1>1, <1>2, PTL DEF MCSpec

(* The number printed is the number measured, its digits cut off at the    *)
(* width of the display, for every value, decimal point and display        *)
(* (bits2Number, line 302).                                                *)
THEOREM NumbersAreTruncated == MCSpec => []NumberIsTruncatedReading
<1>1. BytesOK => NumberIsTruncatedReading
  <2> SUFFICES ASSUME BytesOK, NEW decimals \in 1..7, NEW segments \in Displays,
                      NumberReadable(msb, lsb, decimals, segments)
               PROVE  Shows(bits2Number(msb, lsb, decimals, segments), Measured,
                            decimals, segments)
    BY DEF NumberIsTruncatedReading, Shows, Magnitude
  <2>1. msb \in 0..255 /\ lsb \in 0..255
    BY DEF BytesOK
  <2>2. segments \in 4..5 /\ Decimals(decimals) = decimals
    BY DEF Displays, Decimals
  <2>3. Measured = MeasuredBy(msb, lsb)
    BY DEF Measured, MeasuredBy
  <2> QED BY <2>1, <2>2, <2>3, NumberIsTruncated
<1> QED BY <1>1, BytesAreBytes, PTL

(* With one to five decimals there is always a number to print: the throws *)
(* of bits2Number (lines 349 and 366) are not reached.                     *)
THEOREM ValuesArePrintable == MCSpec => []EveryValueIsPrintable
<1>1. BytesOK => EveryValueIsPrintable
  <2> SUFFICES ASSUME BytesOK, NEW decimals \in 1..5, NEW segments \in Displays
               PROVE  /\ NumberReadable(msb, lsb, decimals, segments)
                      /\ bits2Number(msb, lsb, decimals, segments).whole # <<>>
    BY DEF EveryValueIsPrintable
  <2>1. msb \in 0..255 /\ lsb \in 0..255
    BY DEF BytesOK
  <2>2. segments \in 4..5 /\ Decimals(decimals) = decimals
    BY DEF Displays, Decimals
  <2>3. decimals \in 1..7 /\ decimals <= 5
    OBVIOUS
  <2> QED BY <2>1, <2>2, <2>3, ValueIsPrintable
<1> QED BY <1>1, BytesAreBytes, PTL

(* processFrame refuses no frame of the meter: whatever was measured, the  *)
(* row shows values.                                                       *)
THEOREM MeterFrameIsRead ==
  ASSUME NEW d, IsMeterFrame(d)
  PROVE  processFrame(d) = Reading(d)
<1>1. IsFramed(d)
  BY DEF IsMeterFrame
<1>2. \A i \in 1..17 : d[i] \in 0..255
  BY <1>1 DEF IsFramed, frame_size, FrameByte
<1>3. FirstByte(d) = 0 /\ Frequency(d) \in Frequencies /\ SMode(d) \in 0..4
  BY <1>1 DEF IsFramed, FirstByte
<1>4. MModeReadable(MMode(d), Flags(d))
  <2>1. PICK flags \in 0..255 : flags = Flags(d)
    BY <1>2 DEF Flags
  <2>2. flags % 32 = 0 /\ flags # 32
    BY <1>1, <2>1 DEF IsFramed, IsMeterFrame
  <2>3. flags = 0 \/ flags \div 128 = 1 \/ (flags \div 64) % 2 = 1
    BY <2>2
  <2>4. MMode(d) \in 1..4
    BY <1>1 DEF IsFramed
  <2> QED BY <2>1, <2>3, <2>4 DEF MModeReadable, Parallel, Serial
<1>5. MValueReadable(d)
  <2>1. MErrorFlags(d) \in {0, 128, 34, 195, 67}
    BY <1>1 DEF IsFramed
  <2>2. ASSUME HasNumber(MErrorFlags(d))
        PROVE  NumberReadable(MValueMsb(d), MValueLsb(d), MDecimalsAndUnit(d), 5)
    <3>1. MValueMsb(d) \in 0..255 /\ MValueLsb(d) \in 0..255
      BY <1>2 DEF MValueMsb, MValueLsb
    <3>2. PICK decimals \in 1..7 : decimals <= 5 /\ Decimals(MDecimalsAndUnit(d)) = decimals
      BY <2>2 DEF IsMeterFrame
    <3>3. 5 \in 4..5
      OBVIOUS
    <3> QED BY <3>1, <3>2, <3>3, ValueIsPrintable
  <2> QED BY <2>1, <2>2 DEF MValueReadable
<1>6. SValueReadable(d)
  <2>1. SErrorFlags(d) \in {0, 128, 162, 129, 195}
    BY <1>1 DEF IsFramed
  <2>2. ASSUME HasNumber(SErrorFlags(d))
        PROVE  NumberReadable(SValueMsb(d), SValueLsb(d), SDecimalsAndUnit(d), 4)
    <3>1. SValueMsb(d) \in 0..255 /\ SValueLsb(d) \in 0..255
      BY <1>2 DEF SValueMsb, SValueLsb
    <3>2. PICK decimals \in 1..7 : decimals <= 5 /\ Decimals(SDecimalsAndUnit(d)) = decimals
      BY <2>2 DEF IsMeterFrame
    <3>3. 4 \in 4..5
      OBVIOUS
    <3> QED BY <3>1, <3>2, <3>3, ValueIsPrintable
  <2> QED BY <2>1, <2>2 DEF SValueReadable
<1>7. /\ UnitCode(MDecimalsAndUnit(d)) \in MUnitCodes
      /\ UnitCode(SDecimalsAndUnit(d)) \in SUnitCodes
  BY DEF IsMeterFrame
<1> QED BY <1>3, <1>4, <1>5, <1>6, <1>7 DEF processFrame, Readable

=============================================================================
