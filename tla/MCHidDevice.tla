---------------------------- MODULE MCHidDevice -----------------------------
(***************************************************************************)
(* TLC instance of HidDevice: descriptors put together from items, some of *)
(* which have bytes in their data that look like a key, and cut anywhere.  *)
(***************************************************************************)
EXTENDS HidDevice, SequencesExt

Short(k, data) == [key |-> k, tag |-> 0, data |-> data]
Long(data) == [key |-> LongItem, tag |-> ReportId, data |-> data]

(* Every size code; data that looks like a Report ID, a short or a long    *)
(* item; and the Report ID itself.                                         *)
Items ==
  { Short(192, <<>>), Short(5, <<ReportId>>), Short(38, <<ReportId, LongItem>>),
    Short(39, <<1, 2, 3, ReportId>>), Short(ReportId, <<1>>),
    Long(<<>>), Long(<<39, ReportId>>) }

MaxItems == 2   \* bound

ItemLists == UNION {[1..n -> Items] : n \in 0..MaxItems}

BytesOf(w) == FlattenSeq([k \in DOMAIN w |-> Bytes(w[k])])
StartsOf(w) == [k \in 1..Len(w) + 1 |-> Len(BytesOf(SubSeq(w, 1, k - 1)))]

MCEncodings ==
  UNION {{[descriptor |-> SubSeq(BytesOf(w), 1, cut), items |-> w, start |-> StartsOf(w)] :
          cut \in 0..Len(BytesOf(w))} : w \in ItemLists}

MCKernels == {<<2, 6, 33>>, <<2, 6, 34>>, <<4, 14, 336>>}

MCTexts(k) == {<<>>, <<k>>, <<k, k>>, <<Bad>>, <<k, Bad>>}
=============================================================================
