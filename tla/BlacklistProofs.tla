-------------------------- MODULE BlacklistProofs ---------------------------
(***************************************************************************)
(* Theorems of Blacklist, for any file of the user's and any number of     *)
(* runs, each of which may be cut short anywhere: which steps can lose it, *)
(* that undisturbed runs undo each other, and that the alias is there once *)
(* after an install and not at all after an uninstall.                     *)
(***************************************************************************)
EXTENDS Blacklist, TLAPS, WellFoundedInduction

Text == UserText \cup {Comment, Alias, NL}

-----------------------------------------------------------------------------
(* Sequences and their parts.                                              *)

(* A set of numbers that is not empty has a smallest one. *)
LEMMA Smallest ==
  ASSUME NEW T \in SUBSET Nat, T # {}
  PROVE  \E x \in T : \A y \in T : x <= y
<1>1. PICK x \in T : \A y \in T : ~(<<y, x>> \in OpToRel(<, Nat))
  BY WFMin, NatLessThanWellFounded
<1>2. \A y \in T : ~(y < x)
  BY <1>1 DEF OpToRel
<1> QED BY <1>2

LEMMA SequenceType ==
  ASSUME NEW S, NEW t \in Seq(S)
  PROVE  /\ Len(t) \in Nat /\ DOMAIN t = 1..Len(t)
         /\ \A n \in 1..Len(t) : t[n] \in S
         /\ t = <<>> <=> Len(t) = 0
OBVIOUS

LEMMA SequencePart ==
  ASSUME NEW S, NEW t \in Seq(S), NEW i \in 0..Len(t), NEW j \in 0..Len(t)
  PROVE  /\ SubSeq(t, i + 1, j) \in Seq(S)
         /\ Len(SubSeq(t, i + 1, j)) = IF i < j THEN j - i ELSE 0
         /\ \A m \in 1..j - i : SubSeq(t, i + 1, j)[m] = t[i + m]
OBVIOUS

LEMMA SequenceStart ==
  ASSUME NEW S, NEW t \in Seq(S), NEW i \in 0..Len(t)
  PROVE  /\ SubSeq(t, 1, i) \in Seq(S) /\ Len(SubSeq(t, 1, i)) = i
         /\ \A m \in 1..i : SubSeq(t, 1, i)[m] = t[m]
<1>1. Len(t) \in Nat
  OBVIOUS
<1>2. 0 \in 0..Len(t) /\ 0 + 1 = 1
  BY <1>1
<1>3. /\ SubSeq(t, 1, i) \in Seq(S)
      /\ Len(SubSeq(t, 1, i)) = IF 0 < i THEN i - 0 ELSE 0
      /\ \A m \in 1..i - 0 : SubSeq(t, 1, i)[m] = t[0 + m]
  BY <1>2, SequencePart
<1>4. i \in Nat
  BY <1>1
<1>5. \A m \in 1..i : m \in 1..i - 0 /\ 0 + m = m
  BY <1>4
<1> QED BY <1>3, <1>4, <1>5

LEMMA Joined ==
  ASSUME NEW S, NEW s \in Seq(S), NEW t \in Seq(S)
  PROVE  /\ s \o t \in Seq(S) /\ Len(s \o t) = Len(s) + Len(t)
         /\ \A m \in 1..Len(s) : (s \o t)[m] = s[m]
         /\ \A m \in 1..Len(t) : (s \o t)[Len(s) + m] = t[m]
OBVIOUS

(* Two sequences with the same elements. *)
LEMMA SameSequence ==
  ASSUME NEW S, NEW R, NEW s \in Seq(S), NEW t \in Seq(R), Len(s) = Len(t),
         \A n \in 1..Len(s) : s[n] = t[n]
  PROVE  s = t
OBVIOUS

LEMMA BlockElements ==
  /\ Block \in Seq(Text) /\ Len(Block) = 4
  /\ Block[1] = Comment /\ Block[2] = NL /\ Block[3] = Alias /\ Block[4] = NL
BY DEF Block, Text

-----------------------------------------------------------------------------
(* What the filter removes.                                                *)

(* The two lines are in t and end at n. *)
BlockEnds(t, n) ==
  /\ n \in 4..Len(t)
  /\ t[n - 3] = Comment /\ t[n - 2] = NL /\ t[n - 1] = Alias /\ t[n] = NL

LEMMA BlockWithin ==
  ASSUME NEW S, NEW t \in Seq(S), NEW i \in 0..Len(t)
  PROVE  Block \in SubSeqs(SubSeq(t, 1, i)) <=> \E n \in 4..i : BlockEnds(t, n)
<1>1. PICK p \in Seq(S) : p = SubSeq(t, 1, i) /\ Len(p) = i /\ \A m \in 1..i : p[m] = t[m]
  <2>1. /\ SubSeq(t, 1, i) \in Seq(S) /\ Len(SubSeq(t, 1, i)) = i
        /\ \A m \in 1..i : SubSeq(t, 1, i)[m] = t[m]
    BY SequenceStart
  <2> QED BY <2>1
<1> i \in Nat
  BY SequenceType
<1>2. ASSUME Block \in SubSeqs(p)
      PROVE  \E n \in 4..i : BlockEnds(t, n)
  <2>1. PICK a \in 0..i, b \in 0..i : Block = SubSeq(p, a + 1, b)
    <3>1. PICK a \in 0..Len(p), b \in 0..Len(p) : Block = SubSeq(p, a + 1, b)
      BY <1>2 DEF SubSeqs
    <3> QED BY <1>1, <3>1
  <2>2. /\ 4 = IF a < b THEN b - a ELSE 0
        /\ \A m \in 1..b - a : Block[m] = p[a + m]
    <3>1. a \in 0..Len(p) /\ b \in 0..Len(p)
      BY <1>1
    <3>2. /\ Len(SubSeq(p, a + 1, b)) = IF a < b THEN b - a ELSE 0
          /\ \A m \in 1..b - a : SubSeq(p, a + 1, b)[m] = p[a + m]
      BY <3>1, SequencePart
    <3> QED BY <2>1, <3>2, BlockElements
  <2>3. b = a + 4 /\ b \in 4..i
    BY <2>2
  <2>4. Block[1] = p[a + 1] /\ Block[2] = p[a + 2] /\ Block[3] = p[a + 3] /\ Block[4] = p[a + 4]
    BY <2>2, <2>3
  <2>5. p[a + 1] = t[a + 1] /\ p[a + 2] = t[a + 2] /\ p[a + 3] = t[a + 3] /\ p[a + 4] = t[a + 4]
    BY <1>1, <2>3
  <2>6. b - 3 = a + 1 /\ b - 2 = a + 2 /\ b - 1 = a + 3 /\ b = a + 4
    BY <2>3
  <2>7. b \in 4..Len(t)
    BY <2>3, SequenceType
  <2> QED BY <2>3, <2>4, <2>5, <2>6, <2>7, BlockElements DEF BlockEnds
<1>3. ASSUME NEW n \in 4..i, BlockEnds(t, n)
      PROVE  Block \in SubSeqs(p)
  <2>1. PICK a \in 0..i : n = a + 4
    <3>1. n - 4 \in 0..i /\ n = (n - 4) + 4
      OBVIOUS
    <3> QED BY <3>1
  <2>2. PICK q \in Seq(S) : q = SubSeq(p, a + 1, n)
    <3>1. a \in 0..Len(p) /\ n \in 0..Len(p)
      BY <1>1
    <3>2. SubSeq(p, a + 1, n) \in Seq(S)
      BY <3>1, SequencePart
    <3> QED BY <3>2
  <2>3. Len(q) = 4 /\ \A m \in 1..4 : q[m] = p[a + m]
    <3>1. a \in 0..Len(p) /\ n \in 0..Len(p)
      BY <1>1
    <3>2. /\ Len(SubSeq(p, a + 1, n)) = IF a < n THEN n - a ELSE 0
          /\ \A m \in 1..n - a : SubSeq(p, a + 1, n)[m] = p[a + m]
      BY <3>1, SequencePart
    <3>3. a < n /\ n - a = 4
      BY <2>1
    <3> QED BY <2>2, <3>2, <3>3
  <2>4. q[1] = t[a + 1] /\ q[2] = t[a + 2] /\ q[3] = t[a + 3] /\ q[4] = t[a + 4]
    BY <1>1, <2>1, <2>3
  <2>5. n - 3 = a + 1 /\ n - 2 = a + 2 /\ n - 1 = a + 3 /\ n = a + 4
    BY <2>1
  <2>6. q[1] = Block[1] /\ q[2] = Block[2] /\ q[3] = Block[3] /\ q[4] = Block[4]
    BY <1>3, <2>4, <2>5, BlockElements DEF BlockEnds
  <2>7. q = Block
    <3>1. \A m \in 1..4 : q[m] = Block[m]
      BY <2>6
    <3> QED BY <2>3, <3>1, BlockElements, SameSequence
  <2>8. n \in 0..Len(p) /\ a \in 0..Len(p)
    BY <1>1, <2>1
  <2> QED BY <2>2, <2>7, <2>8 DEF SubSeqs
<1> QED BY <1>1, <1>2, <1>3

(* t without the four elements that end at n. *)
Without(t, n, w) ==
  /\ Len(w) = Len(t) - 4
  /\ \A m \in 1..n - 4 : w[m] = t[m]
  /\ \A m \in n - 3..Len(t) - 4 : w[m] = t[m + 4]

LEMMA CutOut ==
  ASSUME NEW S, NEW t \in Seq(S), NEW n \in 4..Len(t), NEW w,
         w = SubSeq(t, 1, n - 4) \o <<>> \o SubSeq(t, n + 1, Len(t))
  PROVE  w \in Seq(S) /\ Without(t, n, w)
<1>1. PICK k \in Nat : k = Len(t)
  OBVIOUS
<1>2. PICK p \in Seq(S) : /\ p = SubSeq(t, 1, n - 4) /\ Len(p) = n - 4
                          /\ \A m \in 1..n - 4 : p[m] = t[m]
  <2>1. n - 4 \in 0..Len(t)
    BY <1>1
  <2>2. PICK i \in 0..Len(t) : i = n - 4
    BY <2>1
  <2>3. /\ SubSeq(t, 1, i) \in Seq(S) /\ Len(SubSeq(t, 1, i)) = i
        /\ \A m \in 1..i : SubSeq(t, 1, i)[m] = t[m]
    BY SequenceStart
  <2> QED BY <2>2, <2>3
<1>3. PICK q \in Seq(S) : /\ q = SubSeq(t, n + 1, k) /\ Len(q) = k - n
                          /\ \A m \in 1..k - n : q[m] = t[n + m]
  <2>1. n \in 0..Len(t) /\ k \in 0..Len(t)
    BY <1>1
  <2>2. /\ SubSeq(t, n + 1, k) \in Seq(S)
        /\ Len(SubSeq(t, n + 1, k)) = IF n < k THEN k - n ELSE 0
        /\ \A m \in 1..k - n : SubSeq(t, n + 1, k)[m] = t[n + m]
    BY <2>1, SequencePart
  <2>3. PICK q : q = SubSeq(t, n + 1, k)
    OBVIOUS
  <2>4. (IF n < k THEN k - n ELSE 0) = k - n
    BY <1>1
  <2> QED BY <2>2, <2>3, <2>4
<1>4. w = p \o q
  <2>1. p \o <<>> = p
    OBVIOUS
  <2> QED BY <1>1, <1>2, <1>3, <2>1
<1>5. /\ w \in Seq(S) /\ Len(w) = (n - 4) + (k - n)
      /\ \A m \in 1..n - 4 : w[m] = p[m]
      /\ \A m \in 1..k - n : w[(n - 4) + m] = q[m]
  <2>1. /\ p \o q \in Seq(S) /\ Len(p \o q) = Len(p) + Len(q)
        /\ \A m \in 1..Len(p) : (p \o q)[m] = p[m]
        /\ \A m \in 1..Len(q) : (p \o q)[Len(p) + m] = q[m]
    BY Joined
  <2> QED BY <1>2, <1>3, <1>4, <2>1
<1>6. ASSUME NEW m \in n - 3..k - 4
      PROVE  w[m] = t[m + 4]
  <2>1. PICK l \in 1..k - n : m = (n - 4) + l
    <3>1. m - (n - 4) \in 1..k - n /\ m = (n - 4) + (m - (n - 4))
      BY <1>1
    <3> QED BY <3>1
  <2>2. w[(n - 4) + l] = q[l] /\ q[l] = t[n + l]
    BY <1>3, <1>5
  <2>3. n + l = m + 4
    BY <2>1
  <2> QED BY <2>1, <2>2, <2>3
<1>7. Len(w) = k - 4 /\ \A m \in 1..n - 4 : w[m] = t[m]
  <2>1. (n - 4) + (k - n) = k - 4
    BY <1>1
  <2>2. \A m \in 1..n - 4 : w[m] = t[m]
    BY <1>2, <1>5
  <2> QED BY <1>5, <2>1, <2>2
<1>8. \A m \in n - 3..Len(t) - 4 : w[m] = t[m + 4]
  BY <1>1, <1>6
<1>9. Len(w) = Len(t) - 4
  BY <1>1, <1>7
<1> QED BY <1>5, <1>7, <1>8, <1>9 DEF Without

(* The filter takes the two lines out of a file that has them, and leaves  *)
(* any other file alone.                                                   *)
LEMMA Filtered ==
  ASSUME NEW S, NEW t \in Seq(S)
  PROVE  \/ /\ \A n \in 4..Len(t) : ~BlockEnds(t, n)
            /\ WithoutBlock(t) = t
         \/ \E n \in 4..Len(t) : /\ BlockEnds(t, n)
                                 /\ WithoutBlock(t) \in Seq(S)
                                 /\ Without(t, n, WithoutBlock(t))
<1>1. PICK k \in Nat : k = Len(t)
  OBVIOUS
<1>2. \A i \in 0..k : Block \in SubSeqs(SubSeq(t, 1, i)) <=> \E n \in 4..i : BlockEnds(t, n)
  BY <1>1, BlockWithin
<1>3. SubSeq(t, 1, k) = t /\ k \in 0..k
  BY <1>1
<1>4. CASE \A n \in 4..k : ~BlockEnds(t, n)
  <2>1. Block \notin SubSeqs(t)
    BY <1>2, <1>3, <1>4
  <2>2. WithoutBlock(t) = t
    BY <2>1 DEF WithoutBlock, ReplaceFirstSubSeq
  <2> QED BY <1>1, <1>4, <2>2
<1>5. CASE \E n \in 4..k : BlockEnds(t, n)
  <2>1. PICK n \in 4..k : /\ BlockEnds(t, n)
                          /\ \A m \in 4..k : BlockEnds(t, m) => n <= m
    <3>1. PICK T : T = {m \in 4..k : BlockEnds(t, m)}
      OBVIOUS
    <3>2. T \in SUBSET Nat /\ T # {}
      BY <1>5, <3>1
    <3>3. PICK n \in T : \A m \in T : n <= m
      BY <3>2, Smallest
    <3> QED BY <3>1, <3>3
  <2>2. Block \in SubSeqs(t)
    BY <1>2, <1>3, <2>1
  <2>3. DEFINE First(i) == /\ Block \in SubSeqs(SubSeq(t, 1, i))
                           /\ \A j \in 0..i - 1 : Block \notin SubSeqs(SubSeq(t, 1, j))
  <2>4. n \in 0..k /\ First(n)
    <3>1. n \in 0..k /\ n \in 4..n
      OBVIOUS
    <3>2. Block \in SubSeqs(SubSeq(t, 1, n))
      BY <1>2, <2>1, <3>1
    <3>3. ASSUME NEW j \in 0..n - 1
          PROVE  Block \notin SubSeqs(SubSeq(t, 1, j))
      <4>1. j \in 0..k /\ \A m \in 4..j : m \in 4..k /\ ~(n <= m)
        OBVIOUS
      <4> QED BY <1>2, <2>1, <4>1
    <3> QED BY <3>1, <3>2, <3>3
  <2>5. ASSUME NEW i \in 0..k, First(i)
        PROVE  i = n
    <3>1. PICK m \in 4..i : BlockEnds(t, m)
      BY <1>2, <2>5
    <3>2. m \in 4..k /\ n <= i
      BY <2>1, <3>1
    <3>3. ~(n < i)
      <4>1. SUFFICES ASSUME n < i PROVE FALSE
        OBVIOUS
      <4>2. n \in 0..i - 1
        BY <4>1
      <4> QED BY <2>4, <2>5, <4>2
    <3> QED BY <3>2, <3>3
  <2>6. (CHOOSE i \in 0..k : First(i)) = n
    BY <2>4, <2>5
  <2>7. IndexFirstSubSeq(Block, t) = n - 3
    <3>1. IndexFirstSubSeq(Block, t) = (CHOOSE i \in 0..k : First(i)) - (Len(Block) - 1)
      BY ONLY <1>1, Zenon DEF IndexFirstSubSeq, First
    <3>2. Len(Block) = 4 /\ n - (4 - 1) = n - 3
      BY BlockElements
    <3>3. IndexFirstSubSeq(Block, t) = n - (4 - 1)
      BY ONLY <2>6, <3>1, <3>2, Zenon
    <3> QED BY <3>2, <3>3
  <2>8. WithoutBlock(t) = SubSeq(t, 1, n - 4) \o <<>> \o SubSeq(t, n + 1, Len(t))
    <3>1. (n - 3) - 1 = n - 4 /\ (n - 3) + Len(Block) = n + 1
      BY BlockElements
    <3> QED BY <2>2, <2>7, <3>1 DEF WithoutBlock, ReplaceFirstSubSeq, ReplaceSubSeqAt
  <2> QED BY <1>1, <2>1, <2>8, CutOut
<1> QED BY <1>4, <1>5

-----------------------------------------------------------------------------
(* Files, and what the steps make of them.                                 *)

File == Seq(Text)
MaybeFile == File \cup {Absent}
UserFile == Seq(UserText \cup {NL}) \cup {Absent}

LEMMA AbsentIsNoFile == Absent \notin File
BY BlacklistAssumption DEF File, Text

LEMMA FileContents ==
  /\ \A f \in MaybeFile : Contents(f) \in File
  /\ \A f \in File : f # Absent /\ Contents(f) = f
  /\ Contents(Absent) = <<>> /\ <<>> \in File
<1>1. <<>> \in File
  BY DEF File
<1> QED BY <1>1, AbsentIsNoFile DEF MaybeFile, Contents

LEMMA UserFileIsFile ==
  ASSUME NEW f \in UserFile
  PROVE  f \in MaybeFile
<1>1. UserText \cup {NL} \subseteq Text
  BY DEF Text
<1>2. CASE f \in Seq(UserText \cup {NL})
  <2>1. /\ f = [n \in 1..Len(f) |-> f[n]] /\ Len(f) \in Nat
        /\ \A n \in 1..Len(f) : f[n] \in Text
    BY <1>1, <1>2
  <2>2. f \in Seq(Text)
    BY <2>1
  <2> QED BY <2>2 DEF MaybeFile, File
<1>3. CASE f = Absent
  BY <1>3 DEF MaybeFile
<1> QED BY <1>2, <1>3 DEF UserFile

LEMMA AppendedFile ==
  ASSUME NEW f \in MaybeFile, NEW x \in Text
  PROVE  Appended(f, x) \in File /\ Contents(f) \o <<x>> \in File
<1>1. PICK s \in Seq(Text) : s = Contents(f)
  BY FileContents DEF File
<1>2. <<x>> \in Seq(Text) /\ <<x, NL>> \in Seq(Text)
  BY DEF Text
<1>3. s \o <<x>> \in Seq(Text) /\ s \o <<x, NL>> \in Seq(Text)
  BY <1>2
<1> QED BY <1>1, <1>3 DEF Appended, File

LEMMA FilteredFile ==
  ASSUME NEW f \in File
  PROVE  WithoutBlock(f) \in File
BY Filtered DEF File

LEMMA CutShort ==
  ASSUME NEW f \in File
  PROVE  Prefixes(f) \subseteq File
BY SequenceStart DEF Prefixes, File

-----------------------------------------------------------------------------
(* The user's file at the head of another.                                 *)

LEMMA HeldBy ==
  ASSUME NEW s \in Seq(Text), NEW t \in Seq(Text)
  PROVE  IsPrefix(s, t) <=> /\ Len(s) <= Len(t)
                            /\ \A n \in 1..Len(s) : t[n] = s[n]
<1>1. PICK k \in Nat : k = Len(s)
  OBVIOUS
<1>2. PICK p \in Seq(Text) : /\ p = SubSeq(s, 1, k) /\ Len(p) = k
                             /\ \A n \in 1..k : p[n] = s[n]
  <2>1. k \in 0..Len(s)
    BY <1>1
  <2>2. /\ SubSeq(s, 1, k) \in Seq(Text) /\ Len(SubSeq(s, 1, k)) = k
        /\ \A n \in 1..k : SubSeq(s, 1, k)[n] = s[n]
    BY <2>1, SequenceStart
  <2> QED BY <2>2, Zenon
<1>3. ASSUME k <= Len(t)
      PROVE  SubSeq(s, 1, k) = SubSeq(t, 1, k) <=> \A n \in 1..k : t[n] = s[n]
  <2>1. PICK q \in Seq(Text) : /\ q = SubSeq(t, 1, k) /\ Len(q) = k
                               /\ \A n \in 1..k : q[n] = t[n]
    <3>1. k \in 0..Len(t)
      BY <1>3
    <3>2. /\ SubSeq(t, 1, k) \in Seq(Text) /\ Len(SubSeq(t, 1, k)) = k
          /\ \A n \in 1..k : SubSeq(t, 1, k)[n] = t[n]
      BY <3>1, SequenceStart
    <3> QED BY <3>2, Zenon
  <2>2. ASSUME \A n \in 1..k : t[n] = s[n]
        PROVE  p = q
    <3>1. \A n \in 1..Len(p) : p[n] = q[n]
      BY <1>2, <2>1, <2>2
    <3> QED BY <1>2, <2>1, <3>1, SameSequence
  <2>3. ASSUME p = q
        PROVE  \A n \in 1..k : t[n] = s[n]
    BY <1>2, <2>1, <2>3
  <2> QED BY <1>2, <2>1, <2>2, <2>3
<1> QED BY <1>1, <1>3 DEF IsPrefix

LEMMA HeldInItself ==
  ASSUME NEW f \in MaybeFile, user \in UserFile, Contents(f) = Contents(user)
  PROVE  HeldIn(f)
<1>1. PICK s \in Seq(Text) : s = Contents(user)
  BY UserFileIsFile, FileContents DEF File
<1> QED BY <1>1, HeldBy DEF HeldIn

(* What is written behind a file leaves the user's at its head. *)
LEMMA HeldWithMore ==
  ASSUME NEW f \in MaybeFile, NEW g, NEW t \in Seq(Text), g = Contents(f) \o t,
         user \in UserFile, HeldIn(f)
  PROVE  HeldIn(g)
<1>1. PICK s \in Seq(Text), c \in Seq(Text) : s = Contents(user) /\ c = Contents(f)
  BY UserFileIsFile, FileContents DEF File
<1>2. PICK d \in Seq(Text) : d = g /\ d = c \o t
  <2>1. c \o t \in Seq(Text) /\ g = c \o t
    BY <1>1, Joined
  <2> QED BY <2>1
<1>3. Len(d) = Len(c) + Len(t) /\ \A n \in 1..Len(c) : d[n] = c[n]
  BY <1>2, Joined
<1>4. Len(s) <= Len(c) /\ \A n \in 1..Len(s) : c[n] = s[n]
  BY <1>1, HeldBy DEF HeldIn
<1>5. Len(s) \in Nat /\ Len(c) \in Nat /\ Len(t) \in Nat
  OBVIOUS
<1>6. Len(s) <= Len(d)
  BY <1>3, <1>4, <1>5
<1>7. \A n \in 1..Len(s) : d[n] = s[n]
  BY <1>3, <1>4, <1>5
<1>8. Contents(g) = d
  BY <1>2, FileContents DEF File
<1> QED BY <1>1, <1>6, <1>7, <1>8, HeldBy DEF HeldIn

(* The two lines the filter takes out are behind what is the user's. *)
LEMMA HeldFiltered ==
  ASSUME NEW f \in File, user \in UserFile, HeldIn(f)
  PROVE  HeldIn(WithoutBlock(f))
<1>1. CASE WithoutBlock(f) = f
  BY <1>1
<1>2. CASE \E n \in 4..Len(f) : /\ BlockEnds(f, n)
                                /\ WithoutBlock(f) \in File
                                /\ Without(f, n, WithoutBlock(f))
  <2>1. PICK k \in Nat : k = Len(f)
    BY DEF File
  <2>2. PICK n \in 4..k, w \in File :
          BlockEnds(f, n) /\ w = WithoutBlock(f) /\ Without(f, n, w)
    BY <1>2, <2>1
  <2>3. Len(w) = k - 4 /\ \A m \in 1..n - 4 : w[m] = f[m]
    BY <2>1, <2>2 DEF Without
  <2>4. PICK s \in Seq(UserText \cup {NL}) : s = Contents(user)
    <3>1. <<>> \in Seq(UserText \cup {NL})
      OBVIOUS
    <3> QED BY <3>1 DEF UserFile, Contents
  <2>5. s \in Seq(Text)
    BY <2>4, UserFileIsFile, FileContents DEF File
  <2>6. PICK l \in Nat : l = Len(s)
    OBVIOUS
  <2>7. l <= k /\ \A m \in 1..l : f[m] = s[m]
    BY <2>1, <2>4, <2>5, <2>6, FileContents, HeldBy DEF HeldIn, File
  <2>8. \A m \in 1..l : s[m] # Comment
    <3>1. \A m \in 1..l : s[m] \in UserText \cup {NL}
      BY <2>6
    <3> QED BY <3>1, BlacklistAssumption
  <2>9. f[n - 3] = Comment
    BY <2>2 DEF BlockEnds
  <2>10. l <= n - 4
    <3>1. n - 3 \notin 1..l
      BY <2>7, <2>8, <2>9
    <3> QED BY <3>1
  <2>11. l <= Len(w) /\ \A m \in 1..l : w[m] = s[m]
    <3>1. \A m \in 1..l : m \in 1..n - 4
      BY <2>10
    <3>2. l <= k - 4
      BY <2>10
    <3> QED BY <2>3, <2>7, <3>1, <3>2
  <2>12. IsPrefix(s, w)
    BY <2>5, <2>6, <2>11, HeldBy DEF File
  <2> QED BY <2>2, <2>4, <2>12, FileContents DEF HeldIn
<1> QED BY <1>1, <1>2, Filtered DEF File

(* An empty file holds the user's only if every file does. *)
LEMMA HeldInNothing ==
  ASSUME NEW f \in MaybeFile, NEW g \in MaybeFile, user \in UserFile,
         Contents(f) = <<>>, HeldIn(f)
  PROVE  HeldIn(g)
<1>1. PICK s \in Seq(Text), t \in Seq(Text) : s = Contents(user) /\ t = Contents(g)
  BY UserFileIsFile, FileContents DEF File
<1>2. PICK e \in Seq(Text) : e = <<>> /\ e = Contents(f)
  BY FileContents DEF File
<1>3. Len(s) <= Len(e)
  BY <1>1, <1>2, HeldBy DEF HeldIn
<1>4. Len(s) = 0 /\ Len(t) \in Nat
  <2>1. Len(e) = 0 /\ Len(s) \in Nat
    BY <1>2
  <2> QED BY <1>3, <2>1
<1>5. Len(s) <= Len(t) /\ \A n \in 1..Len(s) : t[n] = s[n]
  BY <1>4
<1> QED BY <1>1, <1>5, HeldBy DEF HeldIn

-----------------------------------------------------------------------------
(* Lines that are not the program's.                                       *)

Clean(f) == f \in File /\ \A n \in 1..Len(f) : f[n] # Alias

LEMMA CleanUser ==
  ASSUME NEW f \in UserFile
  PROVE  Clean(Contents(f))
<1>1. Contents(f) \in Seq(UserText \cup {NL})
  BY AbsentIsNoFile, FileContents, UserFileIsFile DEF UserFile, MaybeFile, Contents
<1>2. PICK s \in Seq(UserText \cup {NL}) : s = Contents(f)
  BY <1>1
<1>3. \A n \in 1..Len(s) : s[n] \in UserText \cup {NL}
  OBVIOUS
<1>4. \A n \in 1..Len(s) : s[n] # Alias
  BY <1>3, BlacklistAssumption
<1>5. s \in File
  BY <1>2, UserFileIsFile, FileContents
<1> QED BY <1>2, <1>4, <1>5 DEF Clean

LEMMA CleanIsLeft ==
  ASSUME NEW f, Clean(f)
  PROVE  WithoutBlock(f) = f
<1>1. PICK s \in Seq(Text) : s = f
  BY DEF Clean, File
<1>2. \A n \in 4..Len(s) : ~BlockEnds(s, n)
  <2>1. TAKE n \in 4..Len(s)
  <2>2. n - 1 \in 1..Len(s)
    OBVIOUS
  <2> QED BY <1>1, <2>2 DEF Clean, BlockEnds
<1> QED BY <1>1, <1>2, Filtered

LEMMA BlockIsRemoved ==
  ASSUME NEW f, Clean(f)
  PROVE  WithoutBlock(f \o Block) = f
<1>1. PICK s \in Seq(Text) : s = f /\ \A n \in 1..Len(s) : s[n] # Alias
  BY DEF Clean, File
<1>2. PICK k \in Nat : k = Len(s)
  OBVIOUS
<1>3. PICK t \in Seq(Text) : t = s \o Block
  BY BlockElements, Joined
<1>4. /\ Len(t) = k + 4
      /\ \A m \in 1..k : t[m] = s[m]
      /\ \A m \in 1..4 : t[k + m] = Block[m]
  <2>1. PICK d \in Seq(Text) : d = Block
    BY BlockElements
  <2>2. /\ Len(s \o d) = Len(s) + Len(d)
        /\ \A m \in 1..Len(s) : (s \o d)[m] = s[m]
        /\ \A m \in 1..Len(d) : (s \o d)[Len(s) + m] = d[m]
    BY Joined
  <2>3. Len(d) = 4
    BY <2>1, BlockElements
  <2> QED BY <1>2, <1>3, <2>1, <2>2, <2>3
<1>5. t[k + 1] = Comment /\ t[k + 2] = NL /\ t[k + 3] = Alias /\ t[k + 4] = NL
  BY <1>4, BlockElements
<1>6. k + 4 \in 4..Len(t) /\ BlockEnds(t, k + 4)
  <2>1. (k + 4) - 3 = k + 1 /\ (k + 4) - 2 = k + 2 /\ (k + 4) - 1 = k + 3
    OBVIOUS
  <2>2. k + 4 \in 4..Len(t)
    BY <1>4
  <2> QED BY <1>5, <2>1, <2>2 DEF BlockEnds
<1>7. PICK n \in 4..Len(t) : BlockEnds(t, n) /\ Without(t, n, WithoutBlock(t))
  BY <1>6, Filtered
<1>8. PICK w \in File : w = WithoutBlock(t)
  BY FilteredFile DEF File
<1>9. n = k + 4
  <2>1. t[n - 1] = Alias
    BY <1>7 DEF BlockEnds
  <2>2. n - 1 \notin 1..k
    BY <1>1, <1>2, <1>4, <2>1
  <2>3. n - 1 # k + 1 /\ n - 1 # k + 2 /\ n - 1 # k + 4
    BY <1>5, <2>1, BlacklistAssumption
  <2>4. n - 1 \in 3..k + 3
    BY <1>4
  <2> QED BY <2>2, <2>3, <2>4
<1>10. Len(w) = k /\ \A m \in 1..k : w[m] = s[m]
  <2>1. Len(w) = (k + 4) - 4 /\ \A m \in 1..(k + 4) - 4 : w[m] = t[m]
    BY <1>4, <1>7, <1>8, <1>9 DEF Without
  <2>2. (k + 4) - 4 = k
    OBVIOUS
  <2> QED BY <1>4, <2>1, <2>2
<1>11. w = s
  BY <1>2, <1>8, <1>10, SameSequence DEF File
<1> QED BY <1>1, <1>3, <1>8, <1>11

(* f is lines that are not the program's, and the text t. *)
EndsIn(f, t) == \E c : Clean(c) /\ f = c \o t

Tidy(f) == f = Absent \/ Clean(f) \/ EndsIn(f, Block)

LEMMA TidyIsFiltered ==
  ASSUME NEW f \in File, Tidy(f)
  PROVE  Clean(WithoutBlock(f))
<1>1. CASE Clean(f)
  BY <1>1, CleanIsLeft
<1>2. CASE EndsIn(f, Block)
  BY <1>2, BlockIsRemoved DEF EndsIn
<1> QED BY <1>1, <1>2, AbsentIsNoFile DEF Tidy

LEMMA CleanWithComment ==
  ASSUME NEW f, f = Absent \/ Clean(f)
  PROVE  EndsIn(Appended(f, Comment), <<Comment, NL>>)
<1>1. Clean(Contents(f))
  <2>1. Clean(<<>>)
    BY FileContents DEF Clean
  <2> QED BY <2>1, FileContents DEF Clean
<1> QED BY <1>1 DEF EndsIn, Appended

LEMMA CommentThenAlias ==
  ASSUME NEW c \in File, NEW f, f = c \o <<Comment, NL>>
  PROVE  f \in File /\ Appended(f, Alias) = c \o Block
<1>1. PICK s \in Seq(Text) : s = c
  BY DEF File
<1>2. <<Comment, NL>> \in Seq(Text) /\ <<Alias, NL>> \in Seq(Text)
  BY DEF Text
<1>3. s \o <<Comment, NL>> \in Seq(Text)
  BY <1>2
<1>4. (s \o <<Comment, NL>>) \o <<Alias, NL>> = s \o <<Comment, NL, Alias, NL>>
  <2>1. PICK a \in Seq(Text), b \in Seq(Text) : a = <<Comment, NL>> /\ b = <<Alias, NL>>
    BY <1>2
  <2>2. PICK d \in Seq(Text) : d = Block
    BY BlockElements
  <2>3. PICK k \in Nat : k = Len(s)
    OBVIOUS
  <2>4. PICK p \in Seq(Text) : /\ p = s \o a /\ Len(p) = k + 2
                               /\ \A m \in 1..k : p[m] = s[m]
                               /\ p[k + 1] = Comment /\ p[k + 2] = NL
    <3>1. Len(a) = 2 /\ a[1] = Comment /\ a[2] = NL
      BY <2>1
    <3>2. /\ s \o a \in Seq(Text) /\ Len(s \o a) = k + 2
          /\ \A m \in 1..k : (s \o a)[m] = s[m]
          /\ \A m \in 1..2 : (s \o a)[k + m] = a[m]
      <4>1. /\ s \o a \in Seq(Text) /\ Len(s \o a) = Len(s) + Len(a)
            /\ \A m \in 1..Len(s) : (s \o a)[m] = s[m]
            /\ \A m \in 1..Len(a) : (s \o a)[Len(s) + m] = a[m]
        BY Joined
      <4> QED BY <2>3, <3>1, <4>1
    <3>3. (s \o a)[k + 1] = Comment /\ (s \o a)[k + 2] = NL
      BY <3>1, <3>2
    <3> QED BY <3>2, <3>3
  <2>5. PICK q \in Seq(Text) : /\ q = p \o b /\ Len(q) = k + 4
                               /\ \A m \in 1..k : q[m] = s[m]
                               /\ q[k + 1] = Comment /\ q[k + 2] = NL
                               /\ q[k + 3] = Alias /\ q[k + 4] = NL
    <3>1. Len(b) = 2 /\ b[1] = Alias /\ b[2] = NL
      BY <2>1
    <3>2. /\ p \o b \in Seq(Text) /\ Len(p \o b) = (k + 2) + 2
          /\ \A m \in 1..k + 2 : (p \o b)[m] = p[m]
          /\ \A m \in 1..2 : (p \o b)[(k + 2) + m] = b[m]
      <4>1. /\ p \o b \in Seq(Text) /\ Len(p \o b) = Len(p) + Len(b)
            /\ \A m \in 1..Len(p) : (p \o b)[m] = p[m]
            /\ \A m \in 1..Len(b) : (p \o b)[Len(p) + m] = b[m]
        BY Joined
      <4> QED BY <2>4, <3>1, <4>1
    <3>3. (k + 2) + 1 = k + 3 /\ (k + 2) + 2 = k + 4
      OBVIOUS
    <3>4. (p \o b)[(k + 2) + 1] = b[1] /\ (p \o b)[(k + 2) + 2] = b[2]
      BY <3>2
    <3>5. (p \o b)[k + 3] = Alias /\ (p \o b)[k + 4] = NL
      BY <3>1, <3>3, <3>4
    <3>6. k + 1 \in 1..k + 2 /\ k + 2 \in 1..k + 2 /\ \A m \in 1..k : m \in 1..k + 2
      OBVIOUS
    <3>7. (p \o b)[k + 1] = Comment /\ (p \o b)[k + 2] = NL
      BY <2>4, <3>2, <3>6
    <3>8. \A m \in 1..k : (p \o b)[m] = s[m]
      BY <2>4, <3>2, <3>6
    <3> QED BY <3>2, <3>3, <3>5, <3>7, <3>8
  <2>6. PICK r \in Seq(Text) : /\ r = s \o d /\ Len(r) = k + 4
                               /\ \A m \in 1..k : r[m] = s[m]
                               /\ r[k + 1] = Comment /\ r[k + 2] = NL
                               /\ r[k + 3] = Alias /\ r[k + 4] = NL
    <3>1. /\ Len(d) = 4
          /\ d[1] = Comment /\ d[2] = NL /\ d[3] = Alias /\ d[4] = NL
      BY <2>2, BlockElements
    <3>2. /\ s \o d \in Seq(Text) /\ Len(s \o d) = k + 4
          /\ \A m \in 1..k : (s \o d)[m] = s[m]
          /\ \A m \in 1..4 : (s \o d)[k + m] = d[m]
      <4>1. /\ s \o d \in Seq(Text) /\ Len(s \o d) = Len(s) + Len(d)
            /\ \A m \in 1..Len(s) : (s \o d)[m] = s[m]
            /\ \A m \in 1..Len(d) : (s \o d)[Len(s) + m] = d[m]
        BY Joined
      <4> QED BY <2>3, <3>1, <4>1
    <3>3. /\ (s \o d)[k + 1] = Comment /\ (s \o d)[k + 2] = NL
          /\ (s \o d)[k + 3] = Alias /\ (s \o d)[k + 4] = NL
      <4>1. 1 \in 1..4 /\ 2 \in 1..4 /\ 3 \in 1..4 /\ 4 \in 1..4
        OBVIOUS
      <4> QED BY <3>1, <3>2, <4>1
    <3> QED BY <3>2, <3>3
  <2>7. \A m \in 1..k + 4 : q[m] = r[m]
    <3>1. \A m \in 1..k + 4 : m \in 1..k \/ m = k + 1 \/ m = k + 2 \/ m = k + 3 \/ m = k + 4
      OBVIOUS
    <3> QED BY <2>5, <2>6, <3>1
  <2>8. q = r
    BY <2>5, <2>6, <2>7, SameSequence
  <2> QED BY <2>1, <2>2, <2>4, <2>5, <2>6, <2>8 DEF Block
<1>5. f \in File /\ Contents(f) = f
  BY <1>1, <1>3, FileContents DEF File
<1> QED BY <1>1, <1>4, <1>5 DEF Appended, Block

LEMMA CommentIsClean ==
  ASSUME NEW f, EndsIn(f, <<Comment, NL>>)
  PROVE  Clean(f) /\ EndsIn(Appended(f, Alias), Block)
<1>1. PICK c : Clean(c) /\ f = c \o <<Comment, NL>>
  BY DEF EndsIn
<1>2. c \in File
  BY <1>1 DEF Clean
<1>3. f \in File /\ Appended(f, Alias) = c \o Block
  BY <1>1, <1>2, CommentThenAlias
<1>4. \A n \in 1..Len(f) : f[n] # Alias
  <2>1. PICK s \in Seq(Text) : s = c /\ \A n \in 1..Len(s) : s[n] # Alias
    BY <1>1 DEF Clean, File
  <2>2. PICK a \in Seq(Text) : a = <<Comment, NL>>
    <3>1. <<Comment, NL>> \in Seq(Text)
      BY DEF Text
    <3> QED BY <3>1
  <2>3. Len(a) = 2 /\ a[1] = Comment /\ a[2] = NL
    BY <2>2
  <2>4. PICK k \in Nat : k = Len(s)
    OBVIOUS
  <2>5. /\ Len(s \o a) = k + 2
        /\ \A m \in 1..k : (s \o a)[m] = s[m]
        /\ \A m \in 1..2 : (s \o a)[k + m] = a[m]
    BY <2>3, <2>4, Joined
  <2>6. (s \o a)[k + 1] # Alias /\ (s \o a)[k + 2] # Alias
    BY <2>3, <2>5, BlacklistAssumption
  <2>7. \A n \in 1..k + 2 : n \in 1..k \/ n = k + 1 \/ n = k + 2
    OBVIOUS
  <2>8. f = s \o a
    BY <1>1, <2>1, <2>2
  <2>9. \A n \in 1..k + 2 : f[n] # Alias
    BY <2>1, <2>4, <2>5, <2>6, <2>7, <2>8
  <2> QED BY <2>5, <2>8, <2>9
<1> QED BY <1>1, <1>3, <1>4 DEF Clean, EndsIn

(* The alias of a file that ends in the two lines. *)
LEMMA AliasInBlock ==
  ASSUME NEW f, EndsIn(f, Block)
  PROVE  \E n \in DOMAIN f : /\ Aliases(f) = {n}
                             /\ n > 1 => f[n - 1] = NL
                             /\ n < Len(f) /\ f[n + 1] = NL
<1>1. PICK s \in Seq(Text) : f = s \o Block /\ \A n \in 1..Len(s) : s[n] # Alias
  BY DEF EndsIn, Clean, File
<1>2. PICK k \in Nat : k = Len(s)
  OBVIOUS
<1>3. f \in File
  BY <1>1, BlockElements, Joined DEF File
<1>4. /\ Len(f) = k + 4
      /\ \A m \in 1..k : f[m] = s[m]
      /\ \A m \in 1..4 : f[k + m] = Block[m]
  <2>1. PICK d \in Seq(Text) : d = Block
    BY BlockElements
  <2>2. /\ Len(s \o d) = Len(s) + Len(d)
        /\ \A m \in 1..Len(s) : (s \o d)[m] = s[m]
        /\ \A m \in 1..Len(d) : (s \o d)[Len(s) + m] = d[m]
    BY Joined
  <2>3. Len(d) = 4
    BY <2>1, BlockElements
  <2> QED BY <1>1, <1>2, <2>1, <2>2, <2>3
<1>5. f[k + 1] = Comment /\ f[k + 2] = NL /\ f[k + 3] = Alias /\ f[k + 4] = NL
  BY <1>4, BlockElements
<1>6. DOMAIN f = 1..k + 4 /\ Contents(f) = f
  BY <1>3, <1>4, FileContents DEF File
<1>7. \A n \in 1..k + 4 : f[n] = Alias <=> n = k + 3
  <2>1. TAKE n \in 1..k + 4
  <2>2. n \in 1..k \/ n = k + 1 \/ n = k + 2 \/ n = k + 3 \/ n = k + 4
    OBVIOUS
  <2>3. CASE n \in 1..k
    <3>1. f[n] # Alias /\ n # k + 3
      BY <1>1, <1>2, <1>4, <2>3
    <3> QED BY <3>1
  <2>4. CASE n = k + 1
    BY <1>5, <2>4, BlacklistAssumption
  <2>5. CASE n = k + 2
    BY <1>5, <2>5, BlacklistAssumption
  <2>6. CASE n = k + 3
    BY <1>5, <2>6
  <2>7. CASE n = k + 4
    BY <1>5, <2>7, BlacklistAssumption
  <2> QED BY <2>2, <2>3, <2>4, <2>5, <2>6, <2>7
<1>8. k + 3 \in 1..k + 4 /\ k + 3 < k + 4 /\ (k + 3) - 1 = k + 2 /\ (k + 3) + 1 = k + 4
  OBVIOUS
<1>9. Aliases(f) = {k + 3}
  BY <1>6, <1>7, <1>8 DEF Aliases
<1> QED BY <1>4, <1>5, <1>6, <1>8, <1>9

LEMMA CleanHasNoAlias ==
  ASSUME NEW f, f = Absent \/ Clean(f)
  PROVE  Aliases(f) = {}
<1>1. CASE f = Absent
  BY <1>1, FileContents DEF Aliases
<1>2. CASE Clean(f)
  <2>1. Contents(f) = f /\ DOMAIN f = 1..Len(f)
    BY <1>2, FileContents DEF Clean, File
  <2> QED BY <1>2, <2>1 DEF Aliases, Clean
<1> QED BY <1>1, <1>2

-----------------------------------------------------------------------------
(* The files in every state.                                               *)

FilesInv ==
  /\ conf \in MaybeFile /\ bak \in MaybeFile /\ user \in UserFile
  /\ pc = "mv" => conf # Absent
  /\ pc \in {"create", "filter"} => bak # Absent
  /\ pc \in {"addBlacklist", "addAlias"} => goal = "install"

LEMMA FilesInit == Init => FilesInv
<1> SUFFICES ASSUME Init PROVE FilesInv
  OBVIOUS
<1>1. user \in UserFile /\ conf = user
  <2>1. UserFiles \subseteq Seq(UserText \cup {NL}) \cup {Absent}
    BY BlacklistAssumption
  <2>2. user \in UserFiles /\ conf = user
    BY DEF Init
  <2> QED BY <2>1, <2>2 DEF UserFile
<1>2. conf \in MaybeFile
  BY <1>1, UserFileIsFile
<1>3. bak \in MaybeFile /\ pc = "idle"
  BY DEF Init, MaybeFile
<1> QED BY <1>1, <1>2, <1>3 DEF FilesInv

LEMMA FilesStep == FilesInv /\ [Next]_vars => FilesInv'
<1> SUFFICES ASSUME FilesInv, [Next]_vars PROVE FilesInv'
  OBVIOUS
<1> Absent \in MaybeFile /\ File \subseteq MaybeFile /\ <<>> \in MaybeFile
  BY FileContents DEF MaybeFile
<1>1. ASSUME NEW g \in {"install", "uninstall"}, Start(g)
      PROVE  FilesInv'
  BY <1>1 DEF Start, FilesInv
<1>2. CASE Interrupt
  BY <1>2 DEF Interrupt, Stop, FilesInv
<1>3. CASE install
  BY <1>3 DEF install, Goto, history, FilesInv
<1>4. CASE uninstall
  BY <1>4 DEF uninstall, Goto, Stop, FilesInv
<1>5. CASE uninstall_rules
  BY <1>5 DEF uninstall_rules, Goto, Stop, FilesInv
<1>6. CASE removeBlacklist
  BY <1>6 DEF removeBlacklist, AfterRemoval, Goto, history, FilesInv
<1>7. CASE mv
  BY <1>7 DEF mv, Goto, history, FilesInv
<1>8. CASE create
  BY <1>8 DEF create, Goto, history, FilesInv
<1>9. ASSUME pc = "filter"
      PROVE  WithoutBlock(bak) \in File /\ Prefixes(WithoutBlock(bak)) \subseteq File
  <2>1. bak \in File
    BY <1>9 DEF FilesInv, MaybeFile
  <2> QED BY <2>1, FilteredFile, CutShort
<1>10. CASE filter
  <2>1. conf' \in MaybeFile /\ pc' = "rm" /\ UNCHANGED <<goal, bak, user>>
    BY <1>9, <1>10 DEF filter, Goto, history
  <2> QED BY <2>1 DEF FilesInv
<1>11. CASE filterDiskFull
  <2>1. conf' \in MaybeFile /\ pc' = "idle" /\ UNCHANGED <<bak, user>>
    BY <1>9, <1>11 DEF filterDiskFull, Stop
  <2> QED BY <2>1 DEF FilesInv
<1>12. CASE filterFails
  BY <1>12 DEF filterFails, Goto, FilesInv
<1>13. CASE rm
  BY <1>13 DEF rm, AfterRemoval, Goto, history, FilesInv
<1>14. ASSUME NEW x \in {Comment, Alias}
       PROVE  Appended(conf, x) \in MaybeFile /\ {Contents(conf), Contents(conf) \o <<x>>} \subseteq MaybeFile
  <2>1. conf \in MaybeFile /\ x \in Text
    BY DEF FilesInv, Text
  <2> QED BY <2>1, AppendedFile, FileContents
<1>15. CASE echo("addBlacklist", Comment, "addAlias")
  <2>1. /\ conf' \in MaybeFile /\ pc = "addBlacklist" /\ pc' = "addAlias"
        /\ UNCHANGED <<goal, bak, user>>
    BY <1>14, <1>15 DEF echo, Goto, history
  <2> QED BY <2>1 DEF FilesInv
<1>16. CASE echo("addAlias", Alias, "finished")
  <2>1. conf' \in MaybeFile /\ pc' = "finished" /\ UNCHANGED <<goal, bak, user>>
    BY <1>14, <1>16 DEF echo, Goto, history
  <2> QED BY <2>1 DEF FilesInv
<1>17. ASSUME NEW l, NEW x \in {Comment, Alias}, echoDiskFull(l, x)
       PROVE  FilesInv'
  <2>1. conf' \in MaybeFile /\ pc' = "idle" /\ UNCHANGED <<bak, user>>
    BY <1>14, <1>17 DEF echoDiskFull, Stop
  <2> QED BY <2>1 DEF FilesInv
<1>18. CASE addBlacklist
  BY <1>15, <1>16, <1>17, <1>18 DEF addBlacklist
<1>19. CASE Finish
  BY <1>19 DEF Finish, history, FilesInv
<1>20. CASE UNCHANGED vars
  BY <1>20 DEF vars, FilesInv
<1> QED BY <1>1, <1>2, <1>3, <1>4, <1>5, <1>6, <1>7, <1>8, <1>10, <1>11,
           <1>12, <1>13, <1>18, <1>19, <1>20 DEF Next

-----------------------------------------------------------------------------
(* Runs that nothing cut short.                                            *)

(* The file is the user's, with or without the two lines. *)
Untouched(f) == Contents(f) = Contents(user) \/ f = Contents(user) \o Block

(* Where a run of make is, the file and the backup are what the commands   *)
(* before have made of the user's file.                                    *)
UndoneInv ==
  ~cut =>
    /\ pc \in {"create", "filter"} => Untouched(bak)
    /\ pc \notin {"create", "filter", "rm"} => bak = Absent
    /\ pc \in {"idle", "install", "uninstall", "uninstall_rules", "removeBlacklist", "mv"} =>
         Untouched(conf)
    /\ pc = "rm" \/ pc = "addBlacklist" => Contents(conf) = Contents(user)
    /\ pc = "addAlias" => conf = Contents(user) \o <<Comment, NL>>
    /\ pc = "finished" /\ goal = "install" => conf = Contents(user) \o Block
    /\ pc = "finished" /\ goal # "install" => Contents(conf) = Contents(user)

LEMMA UndoneInit == Init => UndoneInv
BY DEF Init, UndoneInv, Untouched

LEMMA UndoneStep == FilesInv /\ UndoneInv /\ [Next]_vars => UndoneInv'
<1> SUFFICES ASSUME FilesInv, UndoneInv, [Next]_vars, ~cut' PROVE UndoneInv'
  BY DEF UndoneInv
<1>2. Clean(Contents(user)) /\ Contents(user) \in File
  BY CleanUser DEF FilesInv, Clean
<1>3. ASSUME NEW g \in {"install", "uninstall"}, Start(g)
      PROVE  UndoneInv'
  <2>1. /\ pc = "idle" /\ pc' \in {"install", "uninstall"}
        /\ UNCHANGED <<conf, bak, user>> /\ ~cut
    BY <1>3 DEF Start
  <2> QED BY <2>1 DEF UndoneInv, Untouched
<1>4. CASE Interrupt
  BY <1>4 DEF Interrupt, Stop
<1>5. CASE install
  <2>1. /\ pc = "install" /\ pc' \in {"install", "removeBlacklist"}
        /\ UNCHANGED <<conf, bak, user>> /\ ~cut
    BY <1>5 DEF install, Goto, history
  <2> QED BY <2>1 DEF UndoneInv, Untouched
<1>6. CASE uninstall
  <2>1. /\ pc = "uninstall" /\ pc' = "uninstall_rules"
        /\ UNCHANGED <<conf, bak, user>> /\ ~cut
    BY <1>6 DEF uninstall, Goto, Stop
  <2> QED BY <2>1 DEF UndoneInv, Untouched
<1>7. CASE uninstall_rules
  <2>1. /\ pc = "uninstall_rules" /\ pc' = "removeBlacklist"
        /\ UNCHANGED <<conf, bak, user>> /\ ~cut
    BY <1>7 DEF uninstall_rules, Goto, Stop
  <2> QED BY <2>1 DEF UndoneInv, Untouched
<1>8. CASE removeBlacklist
  <2>1. pc = "removeBlacklist" /\ UNCHANGED <<goal, conf, bak, user>> /\ ~cut
    BY <1>8 DEF removeBlacklist, Goto, history
  <2>2. Untouched(conf) /\ bak = Absent
    BY <2>1 DEF UndoneInv
  <2>3. CASE conf # Absent
    <3>1. pc' = "mv"
      BY <1>8, <2>3 DEF removeBlacklist, Goto
    <3> QED BY <2>1, <2>2, <3>1 DEF UndoneInv, Untouched
  <2>4. CASE conf = Absent
    <3>1. Contents(user) \o Block \in File
      BY <1>2, BlockElements, Joined DEF File
    <3>2. Contents(conf) = Contents(user)
      BY <2>2, <2>4, <3>1, AbsentIsNoFile DEF Untouched
    <3>3. pc' = IF goal = "install" THEN "addBlacklist" ELSE "finished"
      BY <1>8, <2>4 DEF removeBlacklist, Goto, AfterRemoval
    <3> QED BY <2>1, <2>2, <3>2, <3>3 DEF UndoneInv
  <2> QED BY <2>3, <2>4
<1>9. CASE mv
  <2>1. /\ pc = "mv" /\ pc' = "create" /\ bak' = conf /\ user' = user
        /\ ~cut
    BY <1>9 DEF mv, Goto, history
  <2> QED BY <2>1 DEF UndoneInv, Untouched
<1>10. CASE create
  <2>1. /\ pc = "create" /\ pc' = "filter" /\ UNCHANGED <<bak, user>>
        /\ ~cut
    BY <1>10 DEF create, Goto, history
  <2> QED BY <2>1 DEF UndoneInv, Untouched
<1>11. CASE filter
  <2>1. /\ pc = "filter" /\ pc' = "rm" /\ conf' = WithoutBlock(bak) /\ user' = user
        /\ ~cut
    BY <1>11 DEF filter, Goto, history
  <2>2. Untouched(bak) /\ bak \in File
    BY <2>1 DEF UndoneInv, FilesInv, MaybeFile
  <2>3. WithoutBlock(bak) = Contents(user)
    <3>1. CASE Contents(bak) = Contents(user)
      <4>1. bak = Contents(user)
        BY <2>2, <3>1, FileContents
      <4> QED BY <1>2, <4>1, CleanIsLeft
    <3>2. CASE bak = Contents(user) \o Block
      BY <1>2, <3>2, BlockIsRemoved
    <3> QED BY <2>2, <3>1, <3>2 DEF Untouched
  <2>4. Contents(conf') = Contents(user')
    BY <1>2, <2>1, <2>3, FileContents
  <2> QED BY <2>1, <2>4 DEF UndoneInv
<1>12. CASE filterDiskFull
  BY <1>12 DEF filterDiskFull, Stop
<1>13. CASE filterFails
  BY <1>13 DEF filterFails
<1>14. CASE rm
  <2>1. /\ pc = "rm" /\ UNCHANGED <<goal, conf, user>> /\ ~cut
        /\ bak' = Absent
        /\ pc' = IF goal = "install" THEN "addBlacklist" ELSE "finished"
    BY <1>14 DEF rm, Goto, AfterRemoval, history
  <2>2. Contents(conf) = Contents(user)
    BY <2>1 DEF UndoneInv
  <2> QED BY <2>1, <2>2 DEF UndoneInv
<1>15. CASE echo("addBlacklist", Comment, "addAlias")
  <2>1. /\ pc = "addBlacklist" /\ pc' = "addAlias" /\ UNCHANGED <<bak, user>>
        /\ ~cut
        /\ conf' = Contents(conf) \o <<Comment, NL>>
    BY <1>15 DEF echo, Goto, history, Appended
  <2>2. Contents(conf) = Contents(user) /\ bak = Absent
    BY <2>1 DEF UndoneInv
  <2>3. conf' = Contents(user') \o <<Comment, NL>>
    BY <2>1, <2>2
  <2> QED BY <2>1, <2>2, <2>3 DEF UndoneInv
<1>16. CASE echo("addAlias", Alias, "finished")
  <2>1. /\ pc = "addAlias" /\ pc' = "finished" /\ UNCHANGED <<bak, user, goal>>
        /\ ~cut
        /\ conf' = Appended(conf, Alias)
    BY <1>16 DEF echo, Goto, history
  <2>2. conf = Contents(user) \o <<Comment, NL>> /\ bak = Absent /\ goal = "install"
    BY <2>1 DEF UndoneInv, FilesInv
  <2>3. conf' = Contents(user) \o Block
    BY <1>2, <2>1, <2>2, CommentThenAlias
  <2>4. conf' = Contents(user') \o Block
    BY <2>1, <2>3
  <2> QED BY <2>1, <2>2, <2>4 DEF UndoneInv
<1>17. ASSUME NEW l, NEW x, echoDiskFull(l, x)
       PROVE  UndoneInv'
  BY <1>17 DEF echoDiskFull, Stop
<1>18. CASE addBlacklist
  BY <1>15, <1>16, <1>17, <1>18 DEF addBlacklist
<1>19. CASE Finish
  <2>1. /\ pc = "finished" /\ pc' = "idle" /\ UNCHANGED <<conf, bak, user>>
        /\ ~cut
    BY <1>19 DEF Finish, history
  <2> QED BY <2>1 DEF UndoneInv, Untouched
<1>20. CASE UNCHANGED vars
  BY <1>20 DEF vars, UndoneInv, Untouched
<1> QED BY <1>3, <1>4, <1>5, <1>6, <1>7, <1>8, <1>9, <1>10, <1>11, <1>12,
           <1>13, <1>14, <1>18, <1>19, <1>20 DEF Next

(* If no run was cut short, a finished install has left the user's file    *)
(* with the two lines behind it, a finished uninstall the user's file, and *)
(* no backup is left.                                                      *)
THEOREM InstallUndone == Spec => []InstallIsUndone
<1>1. Init => FilesInv /\ UndoneInv
  BY FilesInit, UndoneInit
<1>2. FilesInv /\ UndoneInv /\ [Next]_vars => (FilesInv /\ UndoneInv)'
  BY FilesStep, UndoneStep
<1>3. UndoneInv => InstallIsUndone
  BY DEF UndoneInv, InstallIsUndone, Done
<1> QED BY <1>1, <1>2, <1>3, PTL DEF Spec

-----------------------------------------------------------------------------
(* Losing the user's file.                                                 *)

(* When the filter starts the file is empty, and unless it failed it has   *)
(* put the user's part of the backup into the file.                        *)
KeptInv ==
  /\ pc \in {"create", "filter"} => Contents(conf) = <<>>
  /\ pc = "rm" /\ ~failed => (HeldIn(bak) => HeldIn(conf))

LEMMA KeptInit == Init => KeptInv
BY DEF Init, KeptInv

LEMMA KeptStep == FilesInv /\ KeptInv /\ [Next]_vars => KeptInv'
<1> SUFFICES ASSUME FilesInv, KeptInv, [Next]_vars PROVE KeptInv'
  OBVIOUS
<1>1. ASSUME pc' \notin {"create", "filter", "rm"}
      PROVE  KeptInv'
  BY <1>1 DEF KeptInv
<1>2. ASSUME NEW g \in {"install", "uninstall"}, Start(g)
      PROVE  KeptInv'
  BY <1>1, <1>2 DEF Start
<1>3. CASE Interrupt
  BY <1>1, <1>3 DEF Interrupt, Stop
<1>4. CASE install
  <2>1. pc' \in {"install", "removeBlacklist"}
    BY <1>4 DEF install, Goto
  <2> QED BY <1>1, <2>1
<1>5. CASE uninstall
  <2>1. pc' \in {"uninstall_rules", "idle"}
    BY <1>5 DEF uninstall, Goto, Stop
  <2> QED BY <1>1, <2>1
<1>6. CASE uninstall_rules
  <2>1. pc' \in {"removeBlacklist", "idle"}
    BY <1>6 DEF uninstall_rules, Goto, Stop
  <2> QED BY <1>1, <2>1
<1>7. CASE removeBlacklist
  <2>1. pc' \in {"addBlacklist", "finished", "mv"}
    BY <1>7 DEF removeBlacklist, AfterRemoval, Goto
  <2> QED BY <1>1, <2>1
<1>8. CASE mv
  <2>1. conf' = Absent /\ pc' = "create"
    BY <1>8 DEF mv, Goto
  <2> QED BY <2>1, FileContents DEF KeptInv
<1>9. CASE create
  <2>1. conf' = <<>> /\ pc' = "filter"
    BY <1>9 DEF create, Goto
  <2> QED BY <2>1, FileContents DEF KeptInv
<1>10. CASE filter
  <2>1. pc = "filter" /\ conf' = WithoutBlock(bak) /\ bak' = bak /\ user' = user /\ pc' = "rm"
    BY <1>10 DEF filter, Goto, history
  <2>2. bak \in File /\ user \in UserFile
    BY <2>1 DEF FilesInv, MaybeFile
  <2>3. HeldIn(bak) => HeldIn(WithoutBlock(bak))
    BY <2>2, HeldFiltered
  <2>4. (HeldIn(bak) => HeldIn(conf))'
    BY <2>1, <2>3 DEF HeldIn
  <2> QED BY <2>1, <2>4 DEF KeptInv
<1>11. CASE filterDiskFull
  BY <1>1, <1>11 DEF filterDiskFull, Stop
<1>12. CASE filterFails
  <2>1. failed' /\ pc' = "rm"
    BY <1>12 DEF filterFails, Goto
  <2> QED BY <2>1 DEF KeptInv
<1>13. CASE rm
  <2>1. pc' \in {"addBlacklist", "finished"}
    BY <1>13 DEF rm, AfterRemoval, Goto
  <2> QED BY <1>1, <2>1
<1>14. CASE addBlacklist
  <2>1. pc' \in {"addAlias", "finished", "idle"}
    BY <1>14 DEF addBlacklist, echo, echoDiskFull, Goto, Stop
  <2> QED BY <1>1, <2>1
<1>15. CASE Finish
  BY <1>1, <1>15 DEF Finish
<1>16. CASE UNCHANGED vars
  BY <1>16 DEF vars, KeptInv, HeldIn
<1> QED BY <1>2, <1>3, <1>4, <1>5, <1>6, <1>7, <1>8, <1>9, <1>10, <1>11,
           <1>12, <1>13, <1>14, <1>15, <1>16 DEF Next

(* Only the two steps that OnlyTwoStepsLose names lose the user's file. *)
LEMMA HeldStep ==
  ASSUME FilesInv, UndoneInv, KeptInv, [Next]_vars, Held
  PROVE  Held' \/ (mv /\ cut /\ ~HeldIn(conf)) \/ (rm /\ failed)
<1> USE DEF Held
<1>1. user \in UserFile /\ conf \in MaybeFile /\ bak \in MaybeFile
  BY DEF FilesInv
<1>2. ASSUME UNCHANGED <<conf, bak, user>>
      PROVE  Held'
  BY <1>2 DEF HeldIn
<1>3. ASSUME UNCHANGED <<bak, user>>, pc \in {"create", "filter"}
      PROVE  Held'
  <2>1. Contents(conf) = <<>>
    BY <1>3 DEF KeptInv
  <2>2. HeldIn(bak)
    BY <1>1, <2>1, HeldInNothing
  <2> QED BY <1>3, <2>2 DEF HeldIn
<1>4. ASSUME NEW g \in {"install", "uninstall"}, Start(g)
      PROVE  Held'
  BY <1>2, <1>4 DEF Start
<1>5. CASE Interrupt
  BY <1>2, <1>5 DEF Interrupt
<1>6. CASE install
  BY <1>2, <1>6 DEF install, history
<1>7. CASE uninstall \/ uninstall_rules
  BY <1>2, <1>7 DEF uninstall, uninstall_rules
<1>8. CASE removeBlacklist
  BY <1>2, <1>8 DEF removeBlacklist, history
<1>9. CASE mv
  <2>1. pc = "mv" /\ bak' = conf /\ user' = user
    BY <1>9 DEF mv, history
  <2>2. CASE HeldIn(conf)
    BY <2>1, <2>2 DEF HeldIn
  <2>3. CASE cut /\ ~HeldIn(conf)
    BY <1>9, <2>3
  <2>4. CASE ~cut
    <3>1. Untouched(conf)
      BY <2>1, <2>4 DEF UndoneInv
    <3>2. CASE Contents(conf) = Contents(user)
      <4>1. HeldIn(conf)
        BY <1>1, <3>2, HeldInItself
      <4> QED BY <2>2, <4>1
    <3>3. CASE conf = Contents(user) \o Block
      <4>1. user \in MaybeFile /\ HeldIn(user)
        BY <1>1, UserFileIsFile, HeldInItself
      <4>2. HeldIn(conf)
        BY <1>1, <3>3, <4>1, BlockElements, HeldWithMore
      <4> QED BY <2>2, <4>2
    <3> QED BY <3>1, <3>2, <3>3 DEF Untouched
  <2> QED BY <2>2, <2>3, <2>4
<1>10. CASE create
  BY <1>3, <1>10 DEF create, history
<1>11. CASE filter
  BY <1>3, <1>11 DEF filter, history
<1>12. CASE filterDiskFull
  BY <1>3, <1>12 DEF filterDiskFull
<1>13. CASE filterFails
  BY <1>3, <1>13 DEF filterFails
<1>14. CASE rm
  <2>1. pc = "rm" /\ conf' = conf /\ user' = user
    BY <1>14 DEF rm, history
  <2>2. CASE failed
    BY <1>14, <2>2
  <2>3. CASE ~failed
    <3>1. HeldIn(conf)
      BY <2>1, <2>3 DEF KeptInv
    <3> QED BY <2>1, <3>1 DEF HeldIn
  <2> QED BY <2>2, <2>3
<1>15. ASSUME NEW t \in Seq(Text), conf' = Contents(conf) \o t, UNCHANGED <<bak, user>>
       PROVE  Held'
  <2>1. CASE HeldIn(conf)
    <3>1. HeldIn(Contents(conf) \o t)
      BY <1>1, <2>1, HeldWithMore
    <3> QED BY <1>15, <3>1 DEF HeldIn
  <2>2. CASE HeldIn(bak)
    BY <1>15, <2>2 DEF HeldIn
  <2> QED BY <2>1, <2>2
<1>16. ASSUME NEW x \in {Comment, Alias},
              conf' \in {Appended(conf, x), Contents(conf), Contents(conf) \o <<x>>},
              UNCHANGED <<bak, user>>
       PROVE  Held'
  <2>1. <<>> \in Seq(Text) /\ <<x>> \in Seq(Text) /\ <<x, NL>> \in Seq(Text)
    BY DEF Text
  <2>2. Contents(conf) = Contents(conf) \o <<>>
    <3>1. PICK s \in Seq(Text) : s = Contents(conf)
      BY <1>1, FileContents DEF File
    <3>2. s = s \o <<>>
      OBVIOUS
    <3> QED BY <3>1, <3>2
  <2>3. \E t \in Seq(Text) : conf' = Contents(conf) \o t
    BY <1>16, <2>1, <2>2 DEF Appended
  <2> QED BY <1>15, <1>16, <2>3
<1>17. ASSUME NEW l, NEW x \in {Comment, Alias}, NEW n, echo(l, x, n)
       PROVE  Held'
  BY <1>16, <1>17 DEF echo, history
<1>18. ASSUME NEW l, NEW x \in {Comment, Alias}, echoDiskFull(l, x)
       PROVE  Held'
  BY <1>16, <1>18 DEF echoDiskFull
<1>19. CASE addBlacklist
  BY <1>17, <1>18, <1>19 DEF addBlacklist
<1>20. CASE Finish
  BY <1>2, <1>20 DEF Finish, history
<1>21. CASE UNCHANGED vars
  BY <1>2, <1>21 DEF vars
<1> QED BY <1>4, <1>5, <1>6, <1>7, <1>8, <1>9, <1>10, <1>11, <1>12, <1>13,
           <1>14, <1>19, <1>20, <1>21 DEF Next

(* The user's file, as long as the file or its backup begins with it, is   *)
(* lost by two steps only: mv over the backup of a run that was cut short, *)
(* and rm of a backup whose filter failed without make's noticing.         *)
THEOREM LossesCounted == Spec => OnlyTwoStepsLose
<1>1. Init => FilesInv /\ UndoneInv /\ KeptInv
  BY FilesInit, UndoneInit, KeptInit
<1>2. FilesInv /\ UndoneInv /\ KeptInv /\ [Next]_vars => (FilesInv /\ UndoneInv /\ KeptInv)'
  BY FilesStep, UndoneStep, KeptStep
<1>3. FilesInv /\ UndoneInv /\ KeptInv /\ [Next]_vars =>
        [Held => \/ Held'
                 \/ mv /\ cut /\ ~HeldIn(conf)
                 \/ rm /\ failed]_vars
  BY HeldStep
<1> QED BY <1>1, <1>2, <1>3, PTL DEF Spec, OnlyTwoStepsLose

-----------------------------------------------------------------------------
(* The alias.                                                              *)

(* As long as no disk was full, the file and the backup end in the two     *)
(* lines or do not have the second; and after the filter it is gone.       *)
AliasInv ==
  ~full =>
    /\ Tidy(conf) /\ Tidy(bak)
    /\ pc = "rm" \/ pc = "addBlacklist" => conf = Absent \/ Clean(conf)
    /\ pc = "addAlias" => EndsIn(conf, <<Comment, NL>>)
    /\ pc = "finished" /\ goal = "install" => EndsIn(conf, Block)
    /\ pc = "finished" /\ goal # "install" => conf = Absent \/ Clean(conf)

LEMMA AliasInit == Init /\ FilesInv => AliasInv
<1> SUFFICES ASSUME Init, FilesInv PROVE AliasInv
  OBVIOUS
<1>1. pc = "idle" /\ bak = Absent /\ conf = user
  BY DEF Init
<1>2. user = Absent \/ Clean(user)
  BY CleanUser, FileContents, UserFileIsFile DEF FilesInv, MaybeFile
<1> QED BY <1>1, <1>2 DEF AliasInv, Tidy

LEMMA AliasStep == FilesInv /\ AliasInv /\ [Next]_vars => AliasInv'
<1> SUFFICES ASSUME FilesInv, AliasInv, [Next]_vars, ~full' PROVE AliasInv'
  BY DEF AliasInv
<1>1. ASSUME UNCHANGED <<conf, bak, full>>,
             pc' \notin {"rm", "addBlacklist", "addAlias", "finished"}
      PROVE  AliasInv'
  BY <1>1 DEF AliasInv, Tidy, Clean, EndsIn
<1>2. ASSUME NEW g \in {"install", "uninstall"}, Start(g)
      PROVE  AliasInv'
  BY <1>1, <1>2 DEF Start
<1>3. CASE Interrupt
  BY <1>1, <1>3 DEF Interrupt, Stop
<1>4. CASE install
  <2>1. pc' \in {"install", "removeBlacklist"}
    BY <1>4 DEF install, Goto
  <2> QED BY <1>1, <1>4, <2>1 DEF install, history
<1>5. CASE uninstall
  <2>1. pc' \in {"uninstall_rules", "idle"}
    BY <1>5 DEF uninstall, Goto, Stop
  <2> QED BY <1>1, <1>5, <2>1 DEF uninstall
<1>6. CASE uninstall_rules
  <2>1. pc' \in {"removeBlacklist", "idle"}
    BY <1>6 DEF uninstall_rules, Goto, Stop
  <2> QED BY <1>1, <1>6, <2>1 DEF uninstall_rules
<1>7. CASE removeBlacklist
  <2>1. UNCHANGED <<goal, conf, bak, full>>
    BY <1>7 DEF removeBlacklist, Goto, history
  <2>2. CASE conf = Absent
    <3>1. /\ pc' = IF goal = "install" THEN "addBlacklist" ELSE "finished"
          /\ conf' = Absent
      BY <1>7, <2>1, <2>2 DEF removeBlacklist, Goto, AfterRemoval
    <3>2. Tidy(bak) /\ ~full
      BY <2>1 DEF AliasInv
    <3>3. Tidy(bak') /\ Tidy(conf')
      BY <2>1, <3>1, <3>2 DEF Tidy
    <3> QED BY <2>1, <3>1, <3>3 DEF AliasInv
  <2>3. CASE conf # Absent
    <3>1. pc' = "mv"
      BY <1>7, <2>3 DEF removeBlacklist, Goto
    <3> QED BY <1>1, <2>1, <3>1
  <2> QED BY <2>2, <2>3
<1>8. CASE mv
  <2>1. bak' = conf /\ conf' = Absent /\ pc' = "create" /\ ~full
    BY <1>8 DEF mv, Goto, history
  <2>2. Tidy(conf)
    BY <2>1 DEF AliasInv
  <2>3. Tidy(bak') /\ Tidy(conf')
    BY <2>1, <2>2 DEF Tidy
  <2> QED BY <2>1, <2>3 DEF AliasInv
<1>9. Clean(<<>>)
  BY FileContents DEF Clean
<1>10. ASSUME Clean(conf'), pc' \in {"filter", "rm"}, UNCHANGED <<bak, full>>
       PROVE  AliasInv'
  <2>1. Tidy(bak)
    BY <1>10 DEF AliasInv
  <2>2. Tidy(bak') /\ Tidy(conf')
    BY <1>10, <2>1 DEF Tidy
  <2> QED BY <1>10, <2>2 DEF AliasInv
<1>11. CASE create
  BY <1>9, <1>10, <1>11 DEF create, Goto, history
<1>12. CASE filter
  <2>1. /\ pc = "filter" /\ pc' = "rm" /\ conf' = WithoutBlock(bak)
        /\ UNCHANGED <<bak, full>>
    BY <1>12 DEF filter, Goto, history
  <2>2. bak \in File /\ Tidy(bak)
    BY <2>1 DEF FilesInv, MaybeFile, AliasInv
  <2>3. Clean(conf')
    BY <2>1, <2>2, TidyIsFiltered
  <2> QED BY <1>10, <2>1, <2>3
<1>13. CASE filterDiskFull
  BY <1>13 DEF filterDiskFull
<1>14. CASE filterFails
  BY <1>9, <1>10, <1>14 DEF filterFails, Goto
<1>15. CASE rm
  <2>1. /\ pc = "rm" /\ UNCHANGED <<goal, conf, full>> /\ bak' = Absent
        /\ pc' = IF goal = "install" THEN "addBlacklist" ELSE "finished"
    BY <1>15 DEF rm, Goto, AfterRemoval, history
  <2>2. conf = Absent \/ Clean(conf)
    BY <2>1 DEF AliasInv
  <2>3. conf' = Absent \/ Clean(conf')
    BY <2>1, <2>2
  <2>4. Tidy(bak') /\ Tidy(conf')
    BY <2>1, <2>3 DEF Tidy
  <2> QED BY <2>1, <2>3, <2>4 DEF AliasInv
<1>16. CASE echo("addBlacklist", Comment, "addAlias")
  <2>1. /\ pc = "addBlacklist" /\ pc' = "addAlias" /\ UNCHANGED <<bak, full>>
        /\ conf' = Appended(conf, Comment)
    BY <1>16 DEF echo, Goto, history
  <2>2. (conf = Absent \/ Clean(conf)) /\ Tidy(bak)
    BY <2>1 DEF AliasInv
  <2>3. EndsIn(conf', <<Comment, NL>>)
    BY <2>1, <2>2, CleanWithComment
  <2>4. Tidy(conf') /\ Tidy(bak')
    BY <2>1, <2>2, <2>3, CommentIsClean DEF Tidy
  <2> QED BY <2>1, <2>3, <2>4 DEF AliasInv
<1>17. CASE echo("addAlias", Alias, "finished")
  <2>1. /\ pc = "addAlias" /\ pc' = "finished" /\ UNCHANGED <<goal, bak, full>>
        /\ conf' = Appended(conf, Alias)
    BY <1>17 DEF echo, Goto, history
  <2>2. EndsIn(conf, <<Comment, NL>>) /\ Tidy(bak) /\ goal = "install"
    BY <2>1 DEF AliasInv, FilesInv
  <2>3. EndsIn(conf', Block)
    BY <2>1, <2>2, CommentIsClean
  <2>4. Tidy(conf') /\ Tidy(bak')
    BY <2>1, <2>2, <2>3 DEF Tidy
  <2> QED BY <2>1, <2>2, <2>3, <2>4 DEF AliasInv
<1>18. ASSUME NEW l, NEW x, echoDiskFull(l, x)
       PROVE  AliasInv'
  BY <1>18 DEF echoDiskFull
<1>19. CASE addBlacklist
  BY <1>16, <1>17, <1>18, <1>19 DEF addBlacklist
<1>20. CASE Finish
  BY <1>1, <1>20 DEF Finish, history
<1>21. CASE UNCHANGED vars
  <2>1. UNCHANGED <<pc, goal, conf, bak, full>>
    BY <1>21 DEF vars
  <2> QED BY <2>1 DEF AliasInv, Tidy, Clean, EndsIn
<1> QED BY <1>2, <1>3, <1>4, <1>5, <1>6, <1>7, <1>8, <1>11, <1>12, <1>13,
           <1>14, <1>15, <1>19, <1>20, <1>21 DEF Next

(* Whatever was interrupted before, unless the disk was full: after an     *)
(* install the alias is in the file once, on a line of its own, and after  *)
(* an uninstall it is not in the file.                                     *)
THEOREM AliasOnce == Spec => []AliasIsThereOnce
<1>1. Init => FilesInv /\ AliasInv
  BY FilesInit, AliasInit
<1>2. FilesInv /\ AliasInv /\ [Next]_vars => (FilesInv /\ AliasInv)'
  BY FilesStep, AliasStep
<1>3. AliasInv => AliasIsThereOnce
  <2> SUFFICES ASSUME AliasInv, ~full PROVE AliasIsThereOnce
    BY DEF AliasIsThereOnce
  <2>1. ASSUME Done("install")
        PROVE  EndsIn(conf, Block)
    BY <2>1 DEF Done, AliasInv
  <2>2. ASSUME Done("uninstall")
        PROVE  Aliases(conf) = {}
    BY <2>2, CleanHasNoAlias DEF Done, AliasInv
  <2> QED BY <2>1, <2>2, AliasInBlock DEF AliasIsThereOnce
<1> QED BY <1>1, <1>2, <1>3, PTL DEF Spec

=============================================================================
