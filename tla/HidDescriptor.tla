--------------------------- MODULE HidDescriptor ----------------------------
(***************************************************************************)
(* uses_numbered_reports of hidapi: does a device number its reports?  Its *)
(* report descriptor is a sequence of items of different lengths; it does  *)
(* if one of them is a Report ID item.  The loop of the code is one action *)
(* per item.                                                               *)
(***************************************************************************)
EXTENDS Integers, Sequences

CONSTANT Encodings   \* the descriptors: see Encodes

ReportId == 133      \* 0x85
LongItem == 254      \* 0xfe

VARIABLES
  descriptor,        \* the bytes the kernel gives, counted from 1
  items, start,      \* history: the items it was made of, and where they start
  i,                 \* bytes skipped so far
  numbered           \* the result, or "unknown" while the loop runs

descriptorVars == <<descriptor, items, start, i, numbered>>

size == Len(descriptor)

(* The two low bits of a short item's key are the length of its data.      *)
SizeCode(key) == IF key % 4 = 3 THEN 4 ELSE key % 4

(* An item as the HID specification, 6.2.2.2 and 6.2.2.3, has it.          *)
Item ==
  {item \in [key : 0..255, tag : 0..255, data : Seq(0..255)] :
     item.key = LongItem \/ (item.key < 240 /\ Len(item.data) = SizeCode(item.key))}

Bytes(item) ==
  IF item.key = LongItem THEN <<item.key, Len(item.data), item.tag>> \o item.data
  ELSE <<item.key>> \o item.data

(* The bytes d are those of the items w, each starting where s says; the   *)
(* last items may be cut short, or missing.                                *)
Encodes(d, w, s) ==
  /\ d \in Seq(0..255) /\ w \in Seq(Item)
  /\ s \in [1..Len(w) + 1 -> Nat] /\ s[1] = 0 /\ Len(d) <= s[Len(w) + 1]
  /\ \A j, k \in 1..Len(w) + 1 : j < k => s[j] < s[k]
  /\ \A k \in DOMAIN w :
       /\ s[k + 1] = s[k] + Len(Bytes(w[k]))
       /\ \A n \in DOMAIN Bytes(w[k]) : s[k] + n <= Len(d) => d[s[k] + n] = Bytes(w[k])[n]

ASSUME DescriptorAssumption ==
  \A e \in Encodings : Encodes(e.descriptor, e.items, e.start)

-----------------------------------------------------------------------------

DescriptorInit ==
  /\ \E e \in Encodings : descriptor = e.descriptor /\ items = e.items /\ start = e.start
  /\ i = 0 /\ numbered = "unknown"

Key == descriptor[i + 1]

IsLong(key) == key >= 240   \* (key & 0xf0) == 0xf0

(* Mutant of SkippedBytes: a size code of 3 is taken for three bytes. *)
SkippedBytesPlain ==
  IF IsLong(Key) THEN (IF i + 1 < size THEN descriptor[i + 2] ELSE 0) + 3
  ELSE (Key % 4) + 1

(* data_len + key_size *)
SkippedBytes ==
  IF IsLong(Key) THEN (IF i + 1 < size THEN descriptor[i + 2] ELSE 0) + 3
  ELSE SizeCode(Key) + 1

(* Mutant of Skip: the key is skipped, but not its data. *)
SkipKey ==
  /\ numbered = "unknown" /\ i < size /\ Key # ReportId
  /\ i' = i + 1
  /\ UNCHANGED <<descriptor, items, start, numbered>>

Skip ==
  /\ numbered = "unknown" /\ i < size /\ Key # ReportId
  /\ i' = i + SkippedBytes
  /\ UNCHANGED <<descriptor, items, start, numbered>>

FoundReportId ==
  /\ numbered = "unknown" /\ i < size /\ Key = ReportId
  /\ numbered' = "yes"
  /\ UNCHANGED <<descriptor, items, start, i>>

NoReportId ==
  /\ numbered = "unknown" /\ i >= size
  /\ numbered' = "no"
  /\ UNCHANGED <<descriptor, items, start, i>>

uses_numbered_reports == Skip \/ FoundReportId \/ NoReportId

DescriptorSpec == DescriptorInit /\ [][uses_numbered_reports]_descriptorVars

-----------------------------------------------------------------------------
(* Properties.                                                             *)

(* Types. *)
DescriptorTypeOK ==
  /\ Encodes(descriptor, items, start)
  /\ i \in Nat /\ numbered \in {"unknown", "yes", "no"}

HasReportId == \E k \in DOMAIN items : start[k] < size /\ items[k].key = ReportId

(* The loop looks at the first byte of an item and never at its data: a    *)
(* byte 0x85 in the data is no Report ID, and a wrong length would lose    *)
(* the step for the rest of the descriptor.                                *)
WalkStaysOnItems ==
  /\ i < size => \E k \in DOMAIN items : start[k] = i
  /\ \A k \in DOMAIN items : start[k] < i /\ start[k] < size => items[k].key # ReportId

(* The result: yes if and only if there is a Report ID item, also in a     *)
(* descriptor that is cut short, and whatever the data of the items.       *)
NumberedIsExact ==
  numbered # "unknown" => (numbered = "yes" <=> HasReportId)
=============================================================================
