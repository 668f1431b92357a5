-------------------------- MODULE HidDeviceProofs ---------------------------
(***************************************************************************)
(* Theorems of HidDescriptor and HidDevice, for descriptors of any items,  *)
(* of any length and cut anywhere, and for strings and reports of any      *)
(* contents: the walk of uses_numbered_reports keeps to the items and its  *)
(* result is right, the strings printed are the device's, and a report     *)
(* read is the one the device sent.                                        *)
(***************************************************************************)
EXTENDS HidDevice, TLAPS

(* Until its end the walk is at the start of an item... *)
OnAnItem == i < size => \E k \in DOMAIN items : start[k] = i

(* ...and it has passed no Report ID. *)
NonePassed ==
  \A k \in DOMAIN items : start[k] < i /\ start[k] < size => items[k].key # ReportId

(* What the result says. *)
ResultInv ==
  /\ numbered = "yes" => HasReportId
  /\ numbered = "no" => i >= size

WalkInv ==
  /\ DescriptorTypeOK
  /\ OnAnItem
  /\ NonePassed
  /\ ResultInv

LEMMA ElementOfSequence ==
  ASSUME NEW S, NEW s \in Seq(S), NEW n \in 1..Len(s)
  PROVE  s[n] \in S
OBVIOUS

(* The bytes of an item: its key, the length of a long one, and how many.  *)
LEMMA BytesOfItem ==
  ASSUME NEW item \in Item
  PROVE  /\ item.key \in 0..255 /\ Len(item.data) \in Nat
         /\ 1 \in DOMAIN Bytes(item) /\ Bytes(item)[1] = item.key
         /\ item.key = LongItem =>
              /\ Len(Bytes(item)) = Len(item.data) + 3
              /\ 2 \in DOMAIN Bytes(item) /\ Bytes(item)[2] = Len(item.data)
         /\ item.key # LongItem =>
              /\ item.key < 240
              /\ Len(Bytes(item)) = SizeCode(item.key) + 1
<1>1. item.key \in 0..255 /\ item.tag \in 0..255 /\ item.data \in Seq(0..255)
  BY DEF Item
<1>2. CASE item.key = LongItem
  <2>1. Bytes(item) = <<item.key, Len(item.data), item.tag>> \o item.data
    BY <1>2 DEF Bytes
  <2> QED BY <1>1, <1>2, <2>1
<1>3. CASE item.key # LongItem
  <2>1. Bytes(item) = <<item.key>> \o item.data
    BY <1>3 DEF Bytes
  <2>2. item.key < 240 /\ Len(item.data) = SizeCode(item.key)
    BY <1>3 DEF Item
  <2> QED BY <1>1, <1>3, <2>1, <2>2
<1> QED BY <1>2, <1>3

(* The item the walk is at, and the place behind it. *)
LEMMA ItemInHand ==
  ASSUME WalkInv, i < size
  PROVE  \E k \in DOMAIN items :
           /\ start[k] = i /\ Key = items[k].key
           /\ \/ i + SkippedBytes = start[k + 1]
              \/ i + SkippedBytes >= size /\ start[k + 1] >= size
<1>1. PICK k \in DOMAIN items : start[k] = i
  BY DEF WalkInv, OnAnItem
<1>2. /\ descriptor \in Seq(0..255)
      /\ items[k] \in Item
      /\ start \in [1..Len(items) + 1 -> Nat]
      /\ start[k + 1] = start[k] + Len(Bytes(items[k]))
      /\ \A n \in DOMAIN Bytes(items[k]) :
           start[k] + n <= Len(descriptor) => descriptor[start[k] + n] = Bytes(items[k])[n]
      /\ i \in Nat
  BY DEF WalkInv, DescriptorTypeOK, Encodes
<1>3. size \in Nat /\ size = Len(descriptor)
  BY <1>2 DEF size
<1>4. Key = items[k].key
  <2>1. 1 \in DOMAIN Bytes(items[k]) /\ Bytes(items[k])[1] = items[k].key
    BY <1>2, BytesOfItem
  <2>2. start[k] + 1 <= Len(descriptor)
    BY <1>1, <1>2, <1>3
  <2>3. descriptor[start[k] + 1] = items[k].key
    BY <1>2, <2>1, <2>2
  <2> QED BY <1>1, <2>3 DEF Key
<1>5. CASE items[k].key = LongItem
  <2>1. IsLong(Key)
    BY <1>4, <1>5 DEF IsLong, LongItem
  <2>2. /\ Len(Bytes(items[k])) = Len(items[k].data) + 3 /\ Len(items[k].data) \in Nat
        /\ 2 \in DOMAIN Bytes(items[k]) /\ Bytes(items[k])[2] = Len(items[k].data)
    BY <1>2, <1>5, BytesOfItem
  <2>3. CASE i + 1 < size
    <3>1. start[k] + 2 <= Len(descriptor)
      BY <1>1, <1>2, <1>3, <2>3
    <3>2. descriptor[start[k] + 2] = Len(items[k].data)
      BY <1>2, <2>2, <3>1
    <3>3. SkippedBytes = Len(items[k].data) + 3
      BY <1>1, <2>1, <2>3, <3>2 DEF SkippedBytes
    <3> QED BY <1>1, <1>2, <1>4, <2>2, <3>3
  <2>4. CASE ~(i + 1 < size)
    <3>1. SkippedBytes = 3
      BY <2>1, <2>4 DEF SkippedBytes
    <3>2. start[k + 1] = i + (Len(items[k].data) + 3)
      BY <1>1, <1>2, <2>2
    <3>3. i + 3 >= size /\ start[k + 1] >= size
      BY <1>2, <1>3, <2>2, <2>4, <3>2
    <3> QED BY <1>1, <1>4, <3>1, <3>3
  <2> QED BY <2>3, <2>4
<1>6. CASE items[k].key # LongItem
  <2>1. /\ items[k].key \in 0..255 /\ items[k].key < 240
        /\ Len(Bytes(items[k])) = SizeCode(items[k].key) + 1
    BY <1>2, <1>6, BytesOfItem
  <2>2. ~IsLong(Key)
    <3>1. PICK b \in 0..255 : b = items[k].key
      BY <2>1
    <3>2. b < 240
      BY <2>1, <3>1
    <3> QED BY <1>4, <3>1, <3>2 DEF IsLong
  <2>3. SkippedBytes = SizeCode(items[k].key) + 1
    BY <1>4, <2>2 DEF SkippedBytes
  <2> QED BY <1>1, <1>2, <1>4, <2>1, <2>3
<1> QED BY <1>5, <1>6

LEMMA SkipInv ==
  ASSUME WalkInv, Skip
  PROVE  WalkInv'
<1>1. i < size /\ Key # ReportId /\ i' = i + SkippedBytes
      /\ UNCHANGED <<descriptor, items, start, numbered>> /\ numbered = "unknown"
  BY DEF Skip
<1>2. PICK k \in DOMAIN items :
        /\ start[k] = i /\ Key = items[k].key
        /\ \/ i + SkippedBytes = start[k + 1]
           \/ i + SkippedBytes >= size /\ start[k + 1] >= size
  BY <1>1, ItemInHand
<1>3. /\ descriptor \in Seq(0..255) /\ i \in Nat
      /\ start \in [1..Len(items) + 1 -> Nat]
      /\ Len(descriptor) <= start[Len(items) + 1]
      /\ \A j, l \in 1..Len(items) + 1 : j < l => start[j] < start[l]
  BY DEF WalkInv, DescriptorTypeOK, Encodes
<1>4. size \in Nat /\ size = Len(descriptor) /\ size' = size
  BY <1>1, <1>3 DEF size
<1>5. /\ DOMAIN items = 1..Len(items) /\ Len(items) \in Nat
  BY DEF WalkInv, DescriptorTypeOK, Encodes
<1>6. i' \in Nat
  <2>1. SkippedBytes \in Nat
    <3>1. Key \in 0..255
      <4>1. i + 1 \in 1..Len(descriptor)
        BY <1>1, <1>3, <1>4
      <4>2. descriptor[i + 1] \in 0..255
        BY <1>3, <4>1, ElementOfSequence
      <4> QED BY <4>2 DEF Key
    <3>2. SizeCode(Key) \in Nat
      BY <3>1 DEF SizeCode
    <3>3. i + 1 < size => descriptor[i + 2] \in 0..255
      <4>1. i + 1 < size => i + 2 \in 1..Len(descriptor)
        BY <1>3, <1>4
      <4> QED BY <1>3, <4>1, ElementOfSequence
    <3> QED BY <3>2, <3>3 DEF SkippedBytes
  <2> QED BY <1>1, <1>3, <2>1
<1>7. DescriptorTypeOK'
  BY <1>1, <1>6 DEF WalkInv, DescriptorTypeOK
<1>8. OnAnItem'
  <2> SUFFICES ASSUME i' < size PROVE \E l \in DOMAIN items : start[l] = i'
    BY <1>1, <1>4 DEF OnAnItem
  <2>1. i' = start[k + 1]
    BY <1>1, <1>2, <1>4, <1>6
  <2>2. k # Len(items)
    BY <1>3, <1>4, <1>6, <2>1
  <2>3. k + 1 \in DOMAIN items
    BY <1>5, <2>2
  <2> QED BY <2>1, <2>3
<1>9. NonePassed'
  <2> SUFFICES ASSUME NEW j \in DOMAIN items, start[j] < i', start[j] < size
               PROVE  items[j].key # ReportId
    BY <1>1, <1>4 DEF NonePassed
  <2>1. CASE j < k
    <3>1. start[j] < start[k]
      BY <1>3, <1>5, <2>1
    <3> QED BY <1>2, <3>1 DEF WalkInv, NonePassed
  <2>2. CASE j = k
    BY <1>1, <1>2, <2>2
  <2>3. CASE j > k
    <3>1. j = k + 1 \/ start[k + 1] < start[j]
      BY <1>3, <1>5, <2>3
    <3>2. start[j] \in Nat /\ start[k + 1] \in Nat
      BY <1>3, <1>5
    <3>3. start[j] >= start[k + 1]
      BY <3>1, <3>2
    <3> QED BY <1>1, <1>2, <1>4, <1>6, <3>2, <3>3
  <2> QED BY <1>5, <2>1, <2>2, <2>3
<1>10. ResultInv'
  BY <1>1 DEF ResultInv
<1> QED BY <1>7, <1>8, <1>9, <1>10 DEF WalkInv

LEMMA FoundInv ==
  ASSUME WalkInv, FoundReportId
  PROVE  WalkInv'
<1>1. i < size /\ Key = ReportId /\ numbered' = "yes" /\ UNCHANGED <<descriptor, items, start, i>>
  BY DEF FoundReportId
<1>2. PICK k \in DOMAIN items : start[k] = i /\ Key = items[k].key
  BY <1>1, ItemInHand
<1>3. HasReportId
  BY <1>1, <1>2 DEF HasReportId
<1>4. HasReportId' /\ size' = size
  BY <1>1, <1>3 DEF HasReportId, size
<1>5. DescriptorTypeOK' /\ OnAnItem' /\ NonePassed'
  BY <1>1, <1>4 DEF WalkInv, DescriptorTypeOK, OnAnItem, NonePassed
<1> QED BY <1>1, <1>4, <1>5 DEF WalkInv, ResultInv

LEMMA NotFoundInv ==
  ASSUME WalkInv, NoReportId
  PROVE  WalkInv'
<1>1. i >= size /\ numbered' = "no" /\ UNCHANGED <<descriptor, items, start, i>>
  BY DEF NoReportId
<1>2. size' = size
  BY <1>1 DEF size
<1>3. DescriptorTypeOK' /\ OnAnItem' /\ NonePassed'
  BY <1>1, <1>2 DEF WalkInv, DescriptorTypeOK, OnAnItem, NonePassed
<1> QED BY <1>1, <1>2, <1>3 DEF WalkInv, ResultInv

LEMMA WalkStutters ==
  ASSUME WalkInv, UNCHANGED descriptorVars
  PROVE  WalkInv'
<1>1. UNCHANGED <<descriptor, items, start, i, numbered>>
  BY DEF descriptorVars
<1>2. size' = size
  BY <1>1 DEF size
<1>3. HasReportId' <=> HasReportId
  BY <1>1, <1>2 DEF HasReportId
<1> QED BY <1>1, <1>2, <1>3
        DEF WalkInv, DescriptorTypeOK, OnAnItem, NonePassed, ResultInv

LEMMA WalkInit == DescriptorInit => WalkInv
<1> SUFFICES ASSUME DescriptorInit PROVE WalkInv
  OBVIOUS
<1>1. PICK e \in Encodings : descriptor = e.descriptor /\ items = e.items /\ start = e.start
  BY DEF DescriptorInit
<1>2. Encodes(descriptor, items, start)
  BY <1>1, DescriptorAssumption
<1>3. i = 0 /\ numbered = "unknown"
  BY DEF DescriptorInit
<1>4. /\ descriptor \in Seq(0..255) /\ start \in [1..Len(items) + 1 -> Nat] /\ start[1] = 0
      /\ Len(descriptor) <= start[Len(items) + 1]
      /\ DOMAIN items = 1..Len(items) /\ Len(items) \in Nat
  BY <1>2 DEF Encodes
<1>5. OnAnItem
  <2> SUFFICES ASSUME 0 < Len(descriptor) PROVE 1 \in DOMAIN items
    BY <1>3, <1>4 DEF OnAnItem, size
  <2>1. Len(items) # 0
    BY <1>4
  <2> QED BY <1>4, <2>1
<1>6. NonePassed
  BY <1>3, <1>4 DEF NonePassed
<1> QED BY <1>2, <1>3, <1>5, <1>6 DEF WalkInv, DescriptorTypeOK, ResultInv

(* The walk's inductive invariant. *)
THEOREM WalkInvariant == DescriptorSpec => []WalkInv
<1>1. WalkInv /\ [uses_numbered_reports]_descriptorVars => WalkInv'
  BY SkipInv, FoundInv, NotFoundInv, WalkStutters DEF uses_numbered_reports
<1> QED BY <1>1, WalkInit, PTL DEF DescriptorSpec

(* The loop looks at keys only, never at the data of an item. *)
THEOREM WalkCorrect == DescriptorSpec => []WalkStaysOnItems
<1>1. WalkInv => WalkStaysOnItems
  BY DEF WalkInv, OnAnItem, NonePassed, WalkStaysOnItems
<1> QED BY <1>1, WalkInvariant, PTL

(* What the walk has established says what the result is. *)
LEMMA ResultIsRight == WalkInv => NumberedIsExact
<1> SUFFICES ASSUME WalkInv, numbered # "unknown"
             PROVE  numbered = "yes" <=> HasReportId
  BY DEF NumberedIsExact
<1>1. CASE numbered = "yes"
  BY <1>1 DEF WalkInv, ResultInv
<1>2. CASE numbered = "no"
  <2>1. i >= size /\ NonePassed
    BY <1>2 DEF WalkInv, ResultInv
  <2>2. /\ i \in Nat /\ size \in Nat
        /\ \A k \in DOMAIN items : start[k] \in Nat
    <3>1. /\ descriptor \in Seq(0..255) /\ i \in Nat
          /\ items \in Seq(Item) /\ start \in [1..Len(items) + 1 -> Nat]
      BY DEF WalkInv, DescriptorTypeOK, Encodes
    <3> QED BY <3>1 DEF size
  <2>3. ~HasReportId
    BY <2>1, <2>2 DEF HasReportId, NonePassed
  <2> QED BY <1>2, <2>3
<1>3. numbered \in {"yes", "no"}
  BY DEF WalkInv, DescriptorTypeOK
<1> QED BY <1>1, <1>2, <1>3

(* A device is taken to number its reports if and only if its descriptor   *)
(* has a Report ID item.                                                   *)
THEOREM NumberedCorrect == DescriptorSpec => []NumberedIsExact
BY ResultIsRight, WalkInvariant, PTL

-----------------------------------------------------------------------------
(* The strings of an open device.                                          *)

(* What StringsAreTheDevices says of one string.                           *)
Honest(s) ==
  IF s.failed
  THEN /\ \A m \in Convertible(s.says) : m \in DOMAIN s.text /\ s.text[m] = s.says[m]
       /\ s.says = <<>> => s.text = <<>>
  ELSE s.text = s.says

Arrays == [1..MAX_STR -> Nat]

(* An array that begins with its end prints as nothing. *)
LEMMA EmptyPrints ==
  ASSUME NEW w \in Arrays, w[1] = NUL
  PROVE  Printed(w) = <<>>
<1>1. {n \in 1..MAX_STR : \A m \in 1..n : w[m] # NUL} = {}
  <2>1. \A n \in 1..MAX_STR : 1 \in 1..n
    BY DeviceAssumption
  <2> QED BY <2>1
<1> QED BY <1>1 DEF Printed

LEMMA EmptiedArray ==
  ASSUME NEW w \in Arrays
  PROVE  Emptied(w) \in Arrays /\ Emptied(w)[1] = NUL
BY DeviceAssumption DEF Emptied, Arrays, NUL

(* A text that can be converted prints as it is, and one that cannot be    *)
(* prints at least its convertible part.                                   *)
LEMMA ConvertedPrints ==
  ASSUME NEW w \in Arrays, NEW text \in Seq(Nat \ {NUL}), Len(text) < MAX_STR
  PROVE  /\ Converted(text, w) \in Arrays
         /\ mbstowcs(text) \in {0, -1}
         /\ mbstowcs(text) = 0 => Printed(Converted(text, w)) = text
         /\ mbstowcs(text) = -1 =>
              /\ text # <<>>
              /\ \A m \in Convertible(text) :
                   /\ m \in DOMAIN Printed(Converted(text, w))
                   /\ Printed(Converted(text, w))[m] = text[m]
<1>1. PICK c : c = Converted(text, w)
  OBVIOUS
<1>2. PICK k \in Nat : k = Len(text)
  OBVIOUS
<1>3. /\ text = [n \in 1..k |-> text[n]] /\ DOMAIN text = 1..k
      /\ \A n \in 1..k : text[n] \in Nat /\ text[n] # NUL
  BY <1>2
<1>4. MAX_STR \in Nat /\ k < MAX_STR /\ \A n \in 1..k + 1 : n \in 1..MAX_STR
  BY <1>2, DeviceAssumption
<1>5. PICK good : good = Convertible(text)
  OBVIOUS
<1>6. good \subseteq 1..k /\ \A n \in good : \A m \in 1..n : m \in good
  BY <1>2, <1>5 DEF Convertible
<1>7. \A n \in 1..MAX_STR :
        c[n] = IF n \in good THEN text[n]
               ELSE IF n = k + 1 /\ mbstowcs(text) = 0 THEN NUL ELSE w[n]
  BY <1>1, <1>2, <1>5 DEF Converted
<1>8. c \in Arrays
  <2>1. c = [n \in 1..MAX_STR |-> c[n]]
    BY <1>1 DEF Converted
  <2>2. \A n \in 1..MAX_STR : w[n] \in Nat /\ NUL \in Nat
    BY DEF Arrays, NUL
  <2>3. \A n \in 1..MAX_STR : c[n] \in Nat
    BY <1>3, <1>6, <1>7, <2>2
  <2> QED BY <2>1, <2>3 DEF Arrays
<1>9. PICK before : before = {n \in 1..MAX_STR : \A m \in 1..n : c[m] # NUL}
  OBVIOUS
<1>10. Printed(c) = [n \in before |-> c[n]]
  BY <1>9 DEF Printed
<1>11. mbstowcs(text) \in {0, -1} /\ (mbstowcs(text) = 0 <=> good = 1..k)
  BY <1>2, <1>5 DEF mbstowcs
<1>12. \A n \in good : n \in before /\ c[n] = text[n]
  <2>1. \A n \in 1..k : n \in 1..MAX_STR
    BY <1>4
  <2>2. \A m \in good : m \in 1..MAX_STR /\ c[m] = text[m] /\ c[m] # NUL
    BY <1>3, <1>6, <1>7, <2>1
  <2> QED BY <1>6, <1>9, <2>2
<1>13. ASSUME mbstowcs(text) = 0
       PROVE  Printed(c) = text
  <2>1. good = 1..k
    BY <1>11, <1>13
  <2>2. k + 1 \in 1..MAX_STR /\ k + 1 \notin good /\ c[k + 1] = NUL
    BY <1>4, <1>7, <1>13, <2>1
  <2>3. \A n \in before : n \in 1..k
    <3> SUFFICES ASSUME NEW n \in before, n \notin 1..k PROVE FALSE
      OBVIOUS
    <3>1. n \in 1..MAX_STR /\ \A m \in 1..n : c[m] # NUL
      BY <1>9
    <3>2. k + 1 \in 1..n
      BY <3>1
    <3> QED BY <2>2, <3>1, <3>2
  <2>4. before = 1..k
    BY <1>12, <2>1, <2>3
  <2>5. \A n \in 1..k : c[n] = text[n]
    BY <1>12, <2>1
  <2>6. [n \in 1..k |-> c[n]] = [n \in 1..k |-> text[n]]
    BY <2>5
  <2> QED BY <1>3, <1>10, <2>4, <2>6
<1>14. mbstowcs(text) = -1 => text # <<>>
  <2>1. SUFFICES ASSUME text = <<>> PROVE mbstowcs(text) = 0
    BY <1>11
  <2>2. k = 0
    BY <1>2, <2>1
  <2>3. good = 1..k
    BY <1>6, <2>2
  <2> QED BY <1>11, <2>3
<1>15. \A m \in good : m \in DOMAIN Printed(c) /\ Printed(c)[m] = text[m]
  BY <1>10, <1>12
<1>16. mbstowcs(text) = 0 => Printed(Converted(text, w)) = text
  BY <1>1, <1>13
<1>17. \A m \in Convertible(text) : /\ m \in DOMAIN Printed(Converted(text, w))
                                   /\ Printed(Converted(text, w))[m] = text[m]
  BY <1>1, <1>5, <1>15
<1> QED BY <1>1, <1>8, <1>11, <1>14, <1>16, <1>17

(* The types of what was printed. *)
Prints == UNION {[domain -> Nat] : domain \in SUBSET (1..MAX_STR)}
Strings == [says : Seq(Nat), text : Prints, failed : BOOLEAN]

(* The strings so far are honest. *)
StringsInv ==
  /\ wstr \in Arrays
  /\ key \in Nat \ {0}
  /\ shown \in Seq(Strings)
  /\ StringsAreTheDevices

LEMMA AppendedSequence ==
  ASSUME NEW S, NEW s \in Seq(S), NEW e \in S
  PROVE  /\ Append(s, e) \in Seq(S)
         /\ DOMAIN Append(s, e) = 1..Len(s) + 1 /\ DOMAIN s = 1..Len(s) /\ Len(s) \in Nat
         /\ Append(s, e)[Len(s) + 1] = e
         /\ \A n \in 1..Len(s) : Append(s, e)[n] = s[n]
OBVIOUS

LEMMA PrintedType ==
  ASSUME NEW w \in Arrays
  PROVE  Printed(w) \in Prints
<1>1. PICK before \in SUBSET (1..MAX_STR) : Printed(w) = [n \in before |-> w[n]]
  BY DEF Printed
<1>2. Printed(w) \in [before -> Nat]
  BY <1>1 DEF Arrays
<1> QED BY <1>2 DEF Prints

(* One more string that is honest. *)
LEMMA ShowInv ==
  ASSUME StringsInv, NEW result \in Int, NEW w \in Arrays, NEW says \in Seq(Nat),
         Show(result, w, says),
         Honest([says |-> says, text |-> Printed(w), failed |-> result < 0])
  PROVE  StringsInv'
<1>1. PICK e : e = [says |-> says, text |-> Printed(w), failed |-> result < 0]
  OBVIOUS
<1>2. e \in Strings
  <2>1. (result < 0) \in BOOLEAN
    OBVIOUS
  <2> QED BY <1>1, <2>1, PrintedType DEF Strings
<1>3. wstr' = w /\ shown' = Append(shown, e) /\ key' = key + 1
  BY <1>1 DEF Show
<1>4. PICK k : k = Len(shown)
  OBVIOUS
<1>5. /\ shown' \in Seq(Strings) /\ k \in Nat
      /\ DOMAIN shown' = 1..k + 1 /\ DOMAIN shown = 1..k
      /\ shown'[k + 1] = e /\ \A n \in 1..k : shown'[n] = shown[n]
  BY <1>2, <1>3, <1>4, AppendedSequence DEF StringsInv
<1>6. \A n \in 1..k : Honest(shown[n])
  BY <1>5 DEF StringsInv, StringsAreTheDevices, Honest
<1>7. \A n \in 1..k + 1 : n \in 1..k \/ n = k + 1
  BY <1>5
<1>8. \A n \in 1..k + 1 : Honest(shown'[n])
  BY <1>1, <1>5, <1>6, <1>7
<1>9. StringsAreTheDevices'
  BY <1>5, <1>8 DEF StringsAreTheDevices, Honest
<1>10. wstr' \in Arrays /\ key' \in Nat \ {0}
  BY <1>3 DEF StringsInv
<1> QED BY <1>5, <1>9, <1>10 DEF StringsInv

(* A string of which nothing is said, and nothing was written. *)
LEMMA NothingIsHonest ==
  ASSUME NEW w \in Arrays, w[1] = NUL, NEW failed \in BOOLEAN
  PROVE  Honest([says |-> <<>>, text |-> Printed(w), failed |-> failed])
<1>1. Printed(w) = <<>> /\ Convertible(<<>>) = {}
  BY EmptyPrints DEF Convertible
<1> QED BY <1>1 DEF Honest

LEMMA InfoInv ==
  ASSUME StringsInv, printHidDeviceInfo
  PROVE  StringsInv'
<1>1. CASE NoDevice
  <2>1. Show(-1, Emptied(wstr), <<>>)
    BY <1>1 DEF NoDevice
  <2>2. Emptied(wstr) \in Arrays /\ Emptied(wstr)[1] = NUL
    BY EmptiedArray DEF StringsInv
  <2>3. (-1 < 0) \in BOOLEAN /\ -1 \in Int /\ <<>> \in Seq(Nat)
    OBVIOUS
  <2> QED BY <2>1, <2>2, <2>3, NothingIsHonest, ShowInv
<1>2. CASE NoName
  <2>1. UNCHANGED <<key, wstr, shown>>
    BY <1>2 DEF NoName, info
  <2> QED BY <2>1 DEF StringsInv, StringsAreTheDevices
<1>3. CASE BluetoothManufacturer
  <2>1. PICK w : w = [n \in 1..MAX_STR |-> NUL]
    OBVIOUS
  <2>2. Show(0, w, <<>>)
    BY <1>3, <2>1 DEF BluetoothManufacturer
  <2>3. w \in Arrays /\ w[1] = NUL
    BY <2>1, DeviceAssumption DEF Arrays, NUL
  <2>4. (0 < 0) \in BOOLEAN /\ 0 \in Int /\ <<>> \in Seq(Nat)
    OBVIOUS
  <2> QED BY <2>2, <2>3, <2>4, NothingIsHonest, ShowInv
<1>4. CASE NoUsbString
  <2>1. PICK found \in {0, 1} : Show(found, Emptied(wstr), <<>>)
    BY <1>4 DEF NoUsbString
  <2>2. Emptied(wstr) \in Arrays /\ Emptied(wstr)[1] = NUL
    BY EmptiedArray DEF StringsInv
  <2>3. (found < 0) \in BOOLEAN /\ found \in Int /\ <<>> \in Seq(Nat)
    OBVIOUS
  <2> QED BY <2>1, <2>2, <2>3, NothingIsHonest, ShowInv
<1>5. CASE DeviceString
  <2>1. PICK text \in Texts(key) : Show(mbstowcs(text), Converted(text, Emptied(wstr)), text)
    BY <1>5 DEF DeviceString
  <2>2. key \in Manufacturer..SerialNumber
    BY <1>5 DEF DeviceString, StringsInv, Manufacturer, SerialNumber
  <2>3. text \in Seq(Nat \ {NUL}) /\ Len(text) < MAX_STR
    BY <2>1, <2>2, DeviceAssumption
  <2>4. PICK w \in Arrays : w = Emptied(wstr)
    BY EmptiedArray DEF StringsInv
  <2>5. PICK c \in Arrays : c = Converted(text, w)
    BY <2>3, ConvertedPrints
  <2>6. mbstowcs(text) \in {0, -1}
    BY <2>3, <2>4, ConvertedPrints
  <2>7. mbstowcs(text) = 0 => Printed(c) = text
    BY <2>3, <2>4, <2>5, ConvertedPrints
  <2>8. mbstowcs(text) = -1 =>
          /\ text # <<>>
          /\ \A m \in Convertible(text) : m \in DOMAIN Printed(c) /\ Printed(c)[m] = text[m]
    BY <2>3, <2>4, <2>5, ConvertedPrints
  <2>9. Honest([says |-> text, text |-> Printed(c), failed |-> mbstowcs(text) < 0])
    <3>1. CASE mbstowcs(text) = 0
      <4>1. Printed(c) = text /\ (mbstowcs(text) < 0) = FALSE
        BY <2>7, <3>1
      <4> QED BY <4>1 DEF Honest
    <3>2. CASE mbstowcs(text) = -1
      <4>1. (mbstowcs(text) < 0) = TRUE
        BY <3>2
      <4> QED BY <2>8, <3>2, <4>1 DEF Honest
    <3> QED BY <2>6, <3>1, <3>2
  <2>10. text \in Seq(Nat) /\ mbstowcs(text) \in Int
    <3>1. PICK k \in Nat : k = Len(text)
      BY <2>3
    <3>2. text = [n \in 1..k |-> text[n]] /\ \A n \in 1..k : text[n] \in Nat
      BY <2>3, <3>1
    <3> QED BY <2>6, <3>2
  <2>11. Show(mbstowcs(text), c, text)
    BY <2>1, <2>4, <2>5
  <2> QED BY <2>5, <2>9, <2>10, <2>11, ShowInv
<1>6. CASE EndOfInfo
  <2>1. wstr' = Uninitialised /\ key' = Manufacturer /\ shown' = <<>>
    BY <1>6 DEF EndOfInfo
  <2> QED BY <2>1 DEF StringsInv, StringsAreTheDevices, Uninitialised, Arrays, Garbage, Manufacturer
<1> QED BY <1>1, <1>2, <1>3, <1>4, <1>5, <1>6 DEF printHidDeviceInfo

LEMMA StringsStep == StringsInv /\ [DeviceNext]_deviceVars => StringsInv'
<1> SUFFICES ASSUME StringsInv, [DeviceNext]_deviceVars PROVE StringsInv'
  OBVIOUS
<1>1. CASE printHidDeviceInfo
  BY <1>1, InfoInv
<1>2. CASE WalkDescriptor \/ hid_open_path \/ hid_read_timeout \/ UNCHANGED deviceVars
  <2>1. UNCHANGED <<key, wstr, shown>>
    BY <1>2 DEF WalkDescriptor, hid_open_path, hid_read_timeout, PollTimesOut, ReadFails,
                ReadReport, Answer, deviceVars, info
  <2> QED BY <2>1 DEF StringsInv, StringsAreTheDevices
<1> QED BY <1>1, <1>2 DEF DeviceNext

(* Whatever manufacturer, product and serial number a device has, in       *)
(* whatever characters, and whatever fails on the way: a string that is    *)
(* printed without a complaint is the device's or empty, and after a       *)
(* complaint at least what could be converted is.                          *)
THEOREM StringsAreShown == DeviceSpec => []StringsAreTheDevices
<1>1. DeviceInit => StringsInv
  <2> SUFFICES ASSUME DeviceInit PROVE StringsInv
    OBVIOUS
  <2>1. wstr = Uninitialised /\ key = Manufacturer /\ shown = <<>>
    BY DEF DeviceInit
  <2> QED BY <2>1 DEF StringsInv, StringsAreTheDevices, Uninitialised, Arrays, Garbage, Manufacturer
<1>2. StringsInv => StringsAreTheDevices
  BY DEF StringsInv
<1> QED BY <1>1, <1>2, StringsStep, PTL DEF DeviceSpec

-----------------------------------------------------------------------------
(* The reports of an open device.                                          *)

(* The flag is what the descriptor says, if there was one to read.         *)
FlagInv ==
  /\ pc = "hid_open_path" => answer = NULL /\ ~described
  /\ described => (uses_numbered_reports_flag = TRUE <=> HasReportId)

KernelInv == kernel \in Kernels /\ kernel_version \in DetectedVersions(kernel)

ReadInv == WalkInv /\ FlagInv /\ KernelInv /\ ReadGivesTheReport

(* The number made of a release puts the releases with the bug below       *)
(* 2.6.34, and no others.                                                  *)
LEMMA VersionsAreOrdered ==
  ASSUME NEW k \in Kernels
  PROVE  KERNEL_VERSION(k) < KERNEL_VERSION(<<2, 6, 34>>) <=> Older(k, <<2, 6, 34>>)
<1>1. k \in Nat \X Nat \X Nat /\ (Older(k, <<2, 6, 34>>) => k[2] < 256 /\ k[3] < 256)
  BY DeviceAssumption
<1>2. PICK a \in Nat, b \in Nat, c \in Nat : a = k[1] /\ b = k[2] /\ c = k[3]
  BY <1>1
<1>3. KERNEL_VERSION(k) = a * 65536 + b * 256 + c /\ KERNEL_VERSION(<<2, 6, 34>>) = 132642
  BY <1>2 DEF KERNEL_VERSION
<1>4. Older(k, <<2, 6, 34>>) <=> a < 2 \/ (a = 2 /\ b < 6) \/ (a = 2 /\ b = 6 /\ c < 34)
  BY <1>2 DEF Older
<1>5. a < 2 \/ (a = 2 /\ b < 6) \/ (a = 2 /\ b = 6 /\ c < 34) => b < 256 /\ c < 256
  BY <1>1, <1>2, <1>4
<1>6. a * 65536 + b * 256 + c < 132642
        <=> a < 2 \/ (a = 2 /\ b < 6) \/ (a = 2 /\ b = 6 /\ c < 34)
  BY <1>5
<1> QED BY <1>3, <1>4, <1>6

(* A byte put in front of a report. *)
LEMMA ByteInFront ==
  ASSUME NEW r \in Seq(Nat)
  PROVE  Len(<<Garbage>> \o r) - 1 = Len(r) /\ Tail(<<Garbage>> \o r) = r
BY DEF Garbage

(* A report is handed on as it was sent. *)
LEMMA ReadReportStep ==
  ASSUME ReadInv, NEW report \in Seq(Nat), ReadReport(report)
  PROVE  ReadGivesTheReport'
<1>1. PICK result, data :
        /\ answer' = [event |-> "report", report |-> report, result |-> result, data |-> data]
        /\ result = IF ChopsFirstByte THEN Len(Raw(report)) - 1 ELSE Len(Raw(report))
        /\ data = IF ChopsFirstByte THEN Tail(Raw(report)) ELSE Raw(report)
  BY DEF ReadReport, Answer
<1>2. described' = described /\ kernel_version' = kernel_version
  BY DEF ReadReport, Answer, dev
<1>3. ASSUME described, kernel_version # 0
      PROVE  result = Len(report) /\ data = report
  <2>1. kernel \in Kernels /\ kernel_version = KERNEL_VERSION(kernel)
    BY <1>3 DEF ReadInv, KernelInv, DetectedVersions
  <2>2. ChopsFirstByte <=> Older(kernel, <<2, 6, 34>>) /\ HasReportId
    BY <1>3, <2>1, VersionsAreOrdered DEF ReadInv, FlagInv, ChopsFirstByte
  <2>3. CASE ChopsFirstByte
    <3>1. Raw(report) = <<Garbage>> \o report
      BY <2>2, <2>3 DEF Raw
    <3> QED BY <1>1, <2>3, <3>1, ByteInFront
  <2>4. CASE ~ChopsFirstByte
    <3>1. Raw(report) = report
      BY <2>2, <2>4 DEF Raw
    <3> QED BY <1>1, <2>4, <3>1
  <2> QED BY <2>3, <2>4
<1> QED BY <1>1, <1>2, <1>3 DEF ReadGivesTheReport

LEMMA ReadStep ==
  ASSUME ReadInv, hid_read_timeout
  PROVE  ReadInv'
<1>1. pc = "run" /\ pc' = pc /\ UNCHANGED dev
  BY DEF hid_read_timeout, PollTimesOut, ReadFails, ReadReport, Answer
<1>2. WalkInv'
  BY <1>1, WalkStutters DEF ReadInv, dev
<1>3. FlagInv' /\ KernelInv'
  BY <1>1 DEF ReadInv, FlagInv, KernelInv, dev, descriptorVars, HasReportId, size
<1>4. ReadGivesTheReport'
  <2>1. CASE PollTimesOut
    BY <2>1 DEF PollTimesOut, Answer, ReadGivesTheReport
  <2>2. CASE ReadFails
    BY <2>2 DEF ReadFails, Answer, ReadGivesTheReport
  <2>3. ASSUME NEW last \in 1..ReportSize, ReadReport([n \in 1..last |-> n])
        PROVE  ReadGivesTheReport'
    <3>1. [n \in 1..last |-> n] \in Seq(Nat)
      OBVIOUS
    <3> QED BY <2>3, <3>1, ReadReportStep
  <2> QED BY <2>1, <2>2, <2>3 DEF hid_read_timeout
<1> QED BY <1>2, <1>3, <1>4 DEF ReadInv

LEMMA OpenStep ==
  ASSUME ReadInv, hid_open_path
  PROVE  ReadInv'
<1>1. /\ pc = "hid_open_path" /\ pc' \in {"printHidDeviceInfo", "run"}
      /\ UNCHANGED <<descriptorVars, kernel, kernel_version, answer>>
      /\ answer = NULL /\ ~described
  BY DEF hid_open_path, ReadInv, FlagInv
<1>2. WalkInv'
  BY <1>1, WalkStutters DEF ReadInv
<1>3. HasReportId' <=> HasReportId
  BY <1>1 DEF descriptorVars, HasReportId, size
<1>4. described' => (uses_numbered_reports_flag' = TRUE <=> HasReportId)
  <2>1. CASE numbered # "unknown" /\ uses_numbered_reports_flag' = (numbered = "yes")
    <3>1. numbered = "yes" <=> HasReportId
      BY <2>1, ResultIsRight DEF ReadInv, NumberedIsExact
    <3> QED BY <2>1, <3>1
  <2>2. CASE UNCHANGED described
    BY <1>1, <2>2
  <2> QED BY <2>1, <2>2 DEF hid_open_path
<1>5. FlagInv' /\ KernelInv' /\ ReadGivesTheReport'
  BY <1>1, <1>3, <1>4 DEF FlagInv, KernelInv, ReadInv, ReadGivesTheReport
<1> QED BY <1>2, <1>5 DEF ReadInv

LEMMA ReadInvStep == ReadInv /\ [DeviceNext]_deviceVars => ReadInv'
<1> SUFFICES ASSUME ReadInv, [DeviceNext]_deviceVars PROVE ReadInv'
  OBVIOUS
<1>1. CASE WalkDescriptor
  <2>1. /\ uses_numbered_reports /\ pc = "hid_open_path"
        /\ UNCHANGED <<pc, uses_numbered_reports_flag, described, kernel, kernel_version, answer>>
    BY <1>1 DEF WalkDescriptor
  <2>2. WalkInv'
    BY <2>1, SkipInv, FoundInv, NotFoundInv DEF ReadInv, uses_numbered_reports
  <2>3. FlagInv' /\ KernelInv' /\ ReadGivesTheReport'
    BY <2>1 DEF ReadInv, FlagInv, KernelInv, ReadGivesTheReport
  <2> QED BY <2>2, <2>3 DEF ReadInv
<1>2. CASE hid_open_path
  BY <1>2, OpenStep
<1>3. CASE hid_read_timeout
  BY <1>3, ReadStep
<1>4. CASE printHidDeviceInfo \/ UNCHANGED deviceVars
  <2>1. /\ UNCHANGED <<descriptorVars, uses_numbered_reports_flag, described, kernel,
                       kernel_version, answer>>
        /\ pc' = "hid_open_path" => pc = "hid_open_path"
    BY <1>4 DEF printHidDeviceInfo, NoDevice, NoName, BluetoothManufacturer, NoUsbString,
                DeviceString, EndOfInfo, Show, dev, deviceVars
  <2>2. WalkInv'
    BY <2>1, WalkStutters DEF ReadInv
  <2>3. FlagInv' /\ KernelInv' /\ ReadGivesTheReport'
    BY <2>1 DEF ReadInv, FlagInv, KernelInv, ReadGivesTheReport, descriptorVars, HasReportId, size
  <2> QED BY <2>2, <2>3 DEF ReadInv
<1> QED BY <1>1, <1>2, <1>3, <1>4 DEF DeviceNext

(* The invariant of an open device: the walk of its descriptor, the flag   *)
(* made of it, and the answers given.  It is inductive.                    *)
THEOREM DeviceInvariant == DeviceSpec => []ReadInv
<1>1. DeviceInit => ReadInv
  <2> SUFFICES ASSUME DeviceInit PROVE ReadInv
    OBVIOUS
  <2>1. WalkInv
    BY WalkInit DEF DeviceInit
  <2>2. answer = NULL /\ described = FALSE /\ KernelInv
    BY DEF DeviceInit, KernelInv
  <2> QED BY <2>1, <2>2 DEF ReadInv, FlagInv, ReadGivesTheReport
<1> QED BY <1>1, ReadInvStep, PTL DEF DeviceSpec

(* A report of any length is handed on as the device sent it, by kernels   *)
(* that put a byte in front of it and by those that do not, as long as the *)
(* kernel's release and the report descriptor could be read; a timeout     *)
(* gives 0 and an error -1.                                                *)
THEOREM ReportIsGiven == DeviceSpec => []ReadGivesTheReport
<1>1. ReadInv => ReadGivesTheReport
  BY DEF ReadInv
<1> QED BY <1>1, DeviceInvariant, PTL

(* The walk of an open device's descriptor keeps to the items, and what    *)
(* hid_open_path makes of it is right.                                     *)
THEOREM OpenWalkCorrect == DeviceSpec => [](WalkStaysOnItems /\ NumberedIsExact)
<1>1. WalkInv => WalkStaysOnItems
  BY DEF WalkInv, OnAnItem, NonePassed, WalkStaysOnItems
<1>2. ReadInv => WalkStaysOnItems /\ NumberedIsExact
  BY <1>1, ResultIsRight DEF ReadInv
<1> QED BY <1>2, DeviceInvariant, PTL
=============================================================================
