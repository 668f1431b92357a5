------------------------- MODULE HidEnumerateProofs -------------------------
(***************************************************************************)
(* Theorems of HidEnumerate, for any number of devices of any kinds that   *)
(* come and go as they like: the device list of hidapi is well formed      *)
(* throughout, its nodes are complete when anybody else sees them, and     *)
(* none is left when a call returns.                                       *)
(***************************************************************************)
EXTENDS HidEnumerate, TLAPS

Heap == [Address -> Node \cup {NULL}]

LEMMA ElementOfSequence ==
  ASSUME NEW S, NEW s \in Seq(S), NEW n \in 1..Len(s)
  PROVE  s[n] \in S
OBVIOUS

LEMMA LengthOfSequence ==
  ASSUME NEW S, NEW s \in Seq(S)
  PROVE  /\ Len(s) \in Nat /\ DOMAIN s = 1..Len(s)
         /\ s # <<>> => Len(s) \in Nat \ {0} /\ Len(s) \in 1..Len(s)
         /\ s = <<>> <=> Len(s) = 0
OBVIOUS

LEMMA Appended ==
  ASSUME NEW S, NEW s \in Seq(S), NEW a \in S
  PROVE  /\ Append(s, a) \in Seq(S)
         /\ Len(Append(s, a)) = Len(s) + 1
         /\ DOMAIN Append(s, a) = 1..Len(s) + 1
         /\ Append(s, a)[Len(s) + 1] = a
         /\ \A n \in 1..Len(s) : Append(s, a)[n] = s[n]
OBVIOUS

LEMMA WithoutLast ==
  ASSUME NEW S, NEW s \in Seq(S), NEW t, s # <<>>, t = SubSeq(s, 1, Len(s) - 1)
  PROVE  /\ t \in Seq(S)
         /\ Len(t) = Len(s) - 1
         /\ DOMAIN t = 1..Len(s) - 1
         /\ \A n \in 1..Len(s) - 1 : t[n] = s[n]
<1>1. PICK k \in Nat \ {0} : k = Len(s)
  OBVIOUS
<1>2. \A n \in 1..k - 1 : s[n] \in S
  BY <1>1, ElementOfSequence
<1>3. t = [n \in 1..k - 1 |-> s[n]]
  BY <1>1
<1>4. k - 1 \in Nat
  OBVIOUS
<1>5. t \in Seq(S) /\ Len(t) = k - 1
  BY <1>2, <1>3, <1>4
<1> QED BY <1>1, <1>3, <1>4, <1>5

LEMMA WithoutFirst ==
  ASSUME NEW S, NEW s \in Seq(S), s # <<>>
  PROVE  /\ Tail(s) \in Seq(S)
         /\ Len(Tail(s)) = Len(s) - 1
         /\ DOMAIN Tail(s) = 1..Len(s) - 1
         /\ \A n \in 1..Len(s) - 1 : Tail(s)[n] = s[n + 1]
OBVIOUS

-----------------------------------------------------------------------------
(* What the assignments to the heap do.                                    *)

(* The pointer of a node is set. *)
LEMMA SetNext ==
  ASSUME NEW node \in Node, NEW p \in Address \cup {NULL}
  PROVE  /\ [node EXCEPT !.next = p] \in Node
         /\ [node EXCEPT !.next = p] # NULL
         /\ [node EXCEPT !.next = p].next = p
         /\ [node EXCEPT !.next = p].filled = node.filled
<1>1. [node EXCEPT !.next = p] \in Node
  BY DEF Node
<1>2. [node EXCEPT !.next = p] # NULL
  BY <1>1, HidAssumption
<1> QED BY <1>1, <1>2 DEF Node

-----------------------------------------------------------------------------
(* What they do to the list.                                               *)

(* Linked, as a property of any heap h. *)
LinkedIn(h, s) ==
  /\ \A n \in DOMAIN s : /\ h[s[n]] # NULL
                         /\ h[s[n]].next = IF n = Len(s) THEN NULL ELSE s[n + 1]
  /\ \A m, n \in DOMAIN s : s[m] = s[n] => m = n
  /\ \A a \in Address : h[a] # NULL => \E n \in DOMAIN s : s[n] = a

LEMMA LinkedIsLinkedIn ==
  ASSUME order \in Seq(Address)
  PROVE  Linked(order) <=> LinkedIn(heap, order)
<1>1. \A n \in DOMAIN order : order[n] \in Address
  BY ElementOfSequence
<1> QED BY <1>1 DEF Linked, LinkedIn, live

(* A node is linked behind the last one. *)
LEMMA LinkAppends ==
  ASSUME NEW h, NEW g, NEW s \in Seq(Address), NEW a \in Address
  PROVE  /\ LinkedIn(h, s)
         /\ h[a] = NULL
         /\ g[a] # NULL /\ g[a].next = NULL
         /\ \A x \in Address : x # a /\ x # Last(s) => g[x] = h[x]
         /\ s # <<>> => g[Last(s)] # NULL /\ g[Last(s)].next = a
         => LinkedIn(g, Append(s, a))
<1>1. SUFFICES ASSUME LinkedIn(h, s),
                      h[a] = NULL,
                      g[a] # NULL /\ g[a].next = NULL,
                      \A x \in Address : x # a /\ x # Last(s) => g[x] = h[x],
                      s # <<>> => g[Last(s)] # NULL /\ g[Last(s)].next = a
               PROVE  LinkedIn(g, Append(s, a))
  OBVIOUS
<1>0. PICK k \in Nat : k = Len(s)
  BY LengthOfSequence
<1>2. PICK t : t = Append(s, a) /\ k = Len(s)
  BY <1>0
<1>3. /\ DOMAIN s = 1..k
      /\ DOMAIN t = 1..k + 1 /\ Len(t) = k + 1
      /\ t[k + 1] = a
      /\ \A n \in 1..k : t[n] = s[n]
  BY <1>2, Appended
<1>4. \A n \in 1..k : s[n] \in Address /\ h[s[n]] # NULL /\ s[n] # a
  BY <1>1, <1>2, <1>3, ElementOfSequence DEF LinkedIn
<1>5. k # 0 => s # <<>> /\ Last(s) = s[k]
  BY <1>2 DEF Last
<1>6. ASSUME NEW n \in 1..k + 1
      PROVE  g[t[n]] # NULL /\ g[t[n]].next = IF n = k + 1 THEN NULL ELSE t[n + 1]
  <2>1. CASE n = k + 1
    BY <1>1, <1>3, <2>1
  <2>2. CASE n = k /\ n # k + 1
    <3>1. k # 0 /\ k \in 1..k
      BY <2>2
    <3>2. t[n] = Last(s) /\ t[n + 1] = a /\ s # <<>>
      BY <1>3, <1>5, <2>2, <3>1
    <3> QED BY <1>1, <2>2, <3>2
  <2>3. CASE n # k /\ n # k + 1
    <3>1. n \in 1..k /\ n + 1 \in 1..k /\ k \in 1..k /\ k # 0
      BY <2>3
    <3>2. t[n] = s[n] /\ t[n + 1] = s[n + 1] /\ s[n] \in Address /\ s[n] # a
      BY <1>3, <1>4, <3>1
    <3>3. s[n] # Last(s)
      BY <1>1, <1>3, <1>5, <2>3, <3>1 DEF LinkedIn
    <3>4. g[s[n]] = h[s[n]]
      BY <1>1, <3>2, <3>3
    <3>5. h[s[n]] # NULL /\ h[s[n]].next = s[n + 1]
      BY <1>1, <1>2, <1>3, <2>3, <3>1 DEF LinkedIn
    <3> QED BY <2>3, <3>2, <3>4, <3>5
  <2> QED BY <2>1, <2>2, <2>3
<1>7. ASSUME NEW m \in 1..k + 1, NEW n \in 1..k + 1, t[m] = t[n]
      PROVE  m = n
  <2>1. CASE m \in 1..k /\ n \in 1..k
    BY <1>1, <1>3, <1>7, <2>1 DEF LinkedIn
  <2>2. CASE m = k + 1 /\ n \in 1..k
    BY <1>3, <1>4, <1>7, <2>2
  <2>3. CASE m \in 1..k /\ n = k + 1
    BY <1>3, <1>4, <1>7, <2>3
  <2> QED BY <2>1, <2>2, <2>3
<1>8. ASSUME NEW x \in Address, g[x] # NULL
      PROVE  \E n \in 1..k + 1 : t[n] = x
  <2>1. k + 1 \in 1..k + 1 /\ \A n \in 1..k : n \in 1..k + 1
    OBVIOUS
  <2>2. CASE x = a
    BY <1>3, <2>1, <2>2
  <2>3. CASE x # a
    <3>1. h[x] # NULL => \E n \in 1..k : s[n] = x
      BY <1>1, <1>3 DEF LinkedIn
    <3>2. CASE x # Last(s)
      BY <1>1, <1>3, <1>8, <2>1, <2>3, <3>1, <3>2
    <3>3. CASE x = Last(s)
      <4>1. k # 0 => k \in 1..k
        OBVIOUS
      <4>2. k = 0 => Last(s) = NULL
        BY <1>2, LengthOfSequence DEF Last
      <4>3. k # 0
        BY <3>3, <4>2, HidAssumption
      <4> QED BY <1>3, <1>5, <2>1, <3>3, <4>1, <4>3
    <3> QED BY <3>2, <3>3
  <2> QED BY <2>2, <2>3
<1>9. LinkedIn(g, t)
  BY <1>3, <1>6, <1>7, <1>8 DEF LinkedIn
<1> QED BY <1>2, <1>9

(* The last node is taken off, and the one before is now the last. *)
LEMMA TakeBackUnlinks ==
  ASSUME NEW h, NEW g, NEW s \in Seq(Address), NEW t \in Seq(Address), NEW k \in Nat \ {0}
  PROVE  /\ LinkedIn(h, s)
         /\ Len(s) = k /\ Len(t) = k - 1 /\ \A n \in 1..k - 1 : t[n] = s[n]
         /\ g[Last(s)] = NULL
         /\ \A x \in Address : x # Last(s) /\ x # Last(t) => g[x] = h[x]
         /\ t # <<>> => g[Last(t)] # NULL /\ g[Last(t)].next = NULL
         => LinkedIn(g, t)
<1>1. SUFFICES ASSUME LinkedIn(h, s),
                      Len(s) = k /\ Len(t) = k - 1 /\ \A n \in 1..k - 1 : t[n] = s[n],
                      g[Last(s)] = NULL,
                      \A x \in Address : x # Last(s) /\ x # Last(t) => g[x] = h[x],
                      t # <<>> => g[Last(t)] # NULL /\ g[Last(t)].next = NULL
               PROVE  LinkedIn(g, t)
  OBVIOUS
<1>2. k = Len(s) /\ s # <<>>
  BY <1>1, LengthOfSequence
<1>3. /\ DOMAIN s = 1..k
      /\ DOMAIN t = 1..k - 1 /\ Len(t) = k - 1
      /\ \A n \in 1..k - 1 : t[n] = s[n]
  BY <1>1, LengthOfSequence
<1>4. \A n \in 1..k : s[n] \in Address /\ h[s[n]] # NULL
  BY <1>1, <1>2, <1>3, ElementOfSequence DEF LinkedIn
<1>5. k \in 1..k /\ Last(s) = s[k]
  BY <1>1, <1>2 DEF Last
<1>6. k # 1 => k - 1 \in 1..k - 1 /\ t # <<>> /\ Last(t) = s[k - 1]
  <2>1. SUFFICES ASSUME k # 1 PROVE k - 1 \in 1..k - 1 /\ t # <<>> /\ Last(t) = s[k - 1]
    OBVIOUS
  <2>2. k - 1 \in 1..k - 1 /\ k - 1 # 0
    BY <2>1
  <2>3. t # <<>>
    BY <1>3, <2>2, LengthOfSequence
  <2> QED BY <1>3, <2>2, <2>3 DEF Last
<1>7. \A n \in 1..k - 1 : n \in 1..k /\ n # k
  OBVIOUS
<1>8. \A n \in 1..k - 1 : s[n] # Last(s) /\ s[n] \in Address
  <2> SUFFICES ASSUME NEW n \in 1..k - 1
               PROVE  s[n] # Last(s) /\ s[n] \in Address
    OBVIOUS
  <2>1. n \in 1..k /\ n # k
    BY <1>7
  <2>2. s[n] = s[k] => n = k
    BY <1>1, <1>3, <1>5, <2>1 DEF LinkedIn
  <2> QED BY <1>4, <1>5, <2>1, <2>2
<1>9. ASSUME NEW n \in 1..k - 1
      PROVE  g[t[n]] # NULL /\ g[t[n]].next = IF n = k - 1 THEN NULL ELSE t[n + 1]
  <2>1. CASE n = k - 1
    <3>1. k # 1
      BY <2>1
    <3>2. t[n] = Last(t) /\ t # <<>>
      BY <1>3, <1>6, <2>1, <3>1
    <3> QED BY <1>1, <2>1, <3>2
  <2>2. CASE n # k - 1
    <3>1. n \in 1..k /\ n + 1 \in 1..k - 1 /\ n # k /\ k # 1 /\ k - 1 \in 1..k
      BY <2>2
    <3>2. t[n] = s[n] /\ t[n + 1] = s[n + 1]
      BY <1>3, <3>1
    <3>3. s[n] # s[k - 1]
      BY <1>1, <1>3, <2>2, <3>1 DEF LinkedIn
    <3>4. g[s[n]] = h[s[n]]
      BY <1>1, <1>6, <1>8, <3>1, <3>3
    <3>5. h[s[n]] # NULL /\ h[s[n]].next = s[n + 1]
      BY <1>1, <1>2, <1>3, <3>1 DEF LinkedIn
    <3> QED BY <2>2, <3>2, <3>4, <3>5
  <2> QED BY <2>1, <2>2
<1>10. ASSUME NEW m \in 1..k - 1, NEW n \in 1..k - 1, t[m] = t[n]
       PROVE  m = n
  <2>1. m \in 1..k /\ n \in 1..k /\ s[m] = s[n]
    BY <1>3, <1>7, <1>10
  <2> QED BY <1>1, <1>3, <2>1 DEF LinkedIn
<1>11. ASSUME NEW x \in Address, g[x] # NULL
       PROVE  \E n \in 1..k - 1 : t[n] = x
  <2>1. x # Last(s)
    BY <1>1, <1>11
  <2>2. CASE x = Last(t)
    <3>1. k = 1 => t = <<>>
      <4>1. SUFFICES ASSUME k = 1 PROVE t = <<>>
        OBVIOUS
      <4>2. Len(t) = 0
        BY <1>3, <4>1
      <4> QED BY <4>2, LengthOfSequence
    <3>2. k # 1
      BY <2>2, <3>1, HidAssumption DEF Last
    <3> QED BY <1>3, <1>6, <2>2, <3>2
  <2>3. CASE x # Last(t)
    <3>1. h[x] # NULL
      BY <1>1, <1>11, <2>1, <2>3
    <3>2. PICK n \in 1..k : s[n] = x
      BY <1>1, <1>3, <3>1 DEF LinkedIn
    <3>3. n # k
      BY <1>5, <2>1, <3>2
    <3>4. n \in 1..k - 1
      BY <3>3
    <3> QED BY <1>3, <3>2, <3>4
  <2> QED BY <2>2, <2>3
<1> QED BY <1>3, <1>9, <1>10, <1>11 DEF LinkedIn

(* The first node is freed. *)
LEMMA FreeUnlinks ==
  ASSUME NEW h, NEW g, NEW s \in Seq(Address)
  PROVE  /\ LinkedIn(h, s)
         /\ s # <<>>
         /\ g[First(s)] = NULL
         /\ \A x \in Address : x # First(s) => g[x] = h[x]
         => LinkedIn(g, Tail(s)) /\ h[First(s)].next = First(Tail(s))
<1>1. SUFFICES ASSUME LinkedIn(h, s),
                      s # <<>>,
                      g[First(s)] = NULL,
                      \A x \in Address : x # First(s) => g[x] = h[x]
               PROVE  LinkedIn(g, Tail(s)) /\ h[First(s)].next = First(Tail(s))
  OBVIOUS
<1>2. PICK k \in Nat \ {0} : k = Len(s)
  BY <1>1, LengthOfSequence
<1>0. PICK t \in Seq(Address) : t = Tail(s)
  BY <1>1, WithoutFirst
<1>3. /\ DOMAIN s = 1..k
      /\ DOMAIN t = 1..k - 1 /\ Len(t) = k - 1
      /\ \A n \in 1..k - 1 : t[n] = s[n + 1]
  BY <1>0, <1>1, <1>2, WithoutFirst
<1>4. \A n \in 1..k : s[n] \in Address /\ h[s[n]] # NULL
  BY <1>1, <1>2, <1>3, ElementOfSequence DEF LinkedIn
<1>5. 1 \in 1..k /\ First(s) = s[1]
  BY <1>1 DEF First
<1>6. \A n \in 1..k - 1 : n + 1 \in 1..k /\ n + 1 # 1
  OBVIOUS
<1>7. \A n \in 1..k - 1 : s[n + 1] # First(s) /\ s[n + 1] \in Address
  <2> SUFFICES ASSUME NEW n \in 1..k - 1
               PROVE  s[n + 1] # First(s) /\ s[n + 1] \in Address
    OBVIOUS
  <2>1. n + 1 \in 1..k /\ n + 1 # 1
    BY <1>6
  <2>2. s[n + 1] = s[1] => n + 1 = 1
    BY <1>1, <1>3, <1>5, <2>1 DEF LinkedIn
  <2> QED BY <1>4, <1>5, <2>1, <2>2
<1>8. ASSUME NEW n \in 1..k - 1
      PROVE  g[t[n]] # NULL /\ g[t[n]].next = IF n = k - 1 THEN NULL ELSE t[n + 1]
  <2>1. t[n] = s[n + 1] /\ g[s[n + 1]] = h[s[n + 1]]
    BY <1>1, <1>3, <1>7
  <2>2. /\ h[s[n + 1]] # NULL
        /\ h[s[n + 1]].next = IF n + 1 = k THEN NULL ELSE s[(n + 1) + 1]
    BY <1>1, <1>2, <1>3, <1>6 DEF LinkedIn
  <2>3. CASE n = k - 1
    BY <2>1, <2>2, <2>3
  <2>4. CASE n # k - 1
    <3>1. n + 1 \in 1..k - 1 /\ n + 1 # k
      BY <2>4
    <3>2. t[n + 1] = s[(n + 1) + 1]
      BY <1>3, <3>1
    <3> QED BY <2>1, <2>2, <2>4, <3>1, <3>2
  <2> QED BY <2>3, <2>4
<1>9. ASSUME NEW m \in 1..k - 1, NEW n \in 1..k - 1, t[m] = t[n]
      PROVE  m = n
  <2>1. s[m + 1] = s[n + 1]
    BY <1>3, <1>9
  <2>2. m + 1 = n + 1
    BY <1>1, <1>3, <1>6, <2>1 DEF LinkedIn
  <2> QED BY <2>2
<1>10. ASSUME NEW x \in Address, g[x] # NULL
       PROVE  \E n \in 1..k - 1 : t[n] = x
  <2>1. x # First(s)
    BY <1>1, <1>10
  <2>2. h[x] # NULL
    BY <1>1, <1>10, <2>1
  <2>3. PICK n \in 1..k : s[n] = x
    BY <1>1, <1>3, <2>2 DEF LinkedIn
  <2>4. n # 1
    BY <1>5, <2>1, <2>3
  <2>5. PICK m \in 1..k - 1 : n = m + 1
    <3>1. n - 1 \in 1..k - 1 /\ n = (n - 1) + 1
      BY <2>4
    <3> QED BY <3>1
  <2> QED BY <1>3, <2>3, <2>5
<1>11. LinkedIn(g, t)
  BY <1>3, <1>8, <1>9, <1>10 DEF LinkedIn
<1>12. h[First(s)].next = First(t)
  <2>1. h[s[1]].next = IF 1 = k THEN NULL ELSE s[1 + 1]
    BY <1>1, <1>2, <1>3, <1>5 DEF LinkedIn
  <2>2. CASE k = 1
    <3>1. Len(t) = 0
      BY <1>3, <2>2
    <3>2. t = <<>>
      BY <3>1, LengthOfSequence
    <3> QED BY <1>5, <2>1, <2>2, <3>2 DEF First
  <2>3. CASE k # 1
    <3>1. 1 \in 1..k - 1 /\ k - 1 # 0
      BY <2>3
    <3>2. t # <<>>
      BY <1>3, <3>1, LengthOfSequence
    <3>3. t[1] = s[1 + 1]
      BY <1>3, <3>1
    <3> QED BY <1>5, <2>1, <2>3, <3>2, <3>3 DEF First
  <2> QED BY <2>2, <2>3
<1> QED BY <1>0, <1>11, <1>12

-----------------------------------------------------------------------------
(* The inductive invariant.                                                *)

(* Where udev's list is still true there is a device. *)
Fresh ==
  /\ pc \in {"entry", "uevent", "usb_device"} => \A n \in todo \ stale : kind[n] # NULL
  /\ pc \in {"uevent", "usb_device"} => entry \in Slot /\ (entry \notin stale => kind[entry] # NULL)

(* ListIsLinked's chain of nodes. *)
Chain == LinkedIn(heap, order)

(* Where the pointers are, by the program's place: ListIsLinked, what it   *)
(* needs between two calls, and that the node to take back exists.         *)
Placed ==
  /\ pc \in {"entry", "uevent", "usb_device"} =>
       cur_dev = Last(order) /\ root = First(order)
  /\ pc = "usb_device" => order # <<>> /\ prev_dev = Last(SubSeq(order, 1, Len(order) - 1))
  /\ pc \in {"search", "hid_open_path"} =>
       root = First(order) /\ cur_dev \in live \cup {NULL}
  /\ pc = "hid_free_enumeration" => cur_dev = First(order)
  /\ pc \in {"hid_enumerate", "run", "ended"} => order = <<>>

Inv == TypeOK /\ Fresh /\ Chain /\ Placed /\ EveryNodeIsFilled

LEMMA InvInit == Init => Inv
<1> SUFFICES ASSUME Init PROVE Inv
  OBVIOUS
<1>1. order = <<>> /\ order \in Seq(Address) /\ \A a \in Address : heap[a] = NULL
  BY DEF Init
<1>2. TypeOK
  <2>1. /\ pc \in Labels /\ call \in {"open", "list"} /\ serial \in Serial \cup {NULL}
        /\ todo \subseteq Slot /\ entry \in Slot \cup {NULL}
    BY DEF Init, Labels
  <2>2. heap \in [Address -> Node \cup {NULL}] /\ {root, cur_dev, prev_dev} \subseteq Pointer
    BY DEF Init, Pointer
  <2>3. /\ path \in Slot \cup {NULL} /\ handle \in [fd : opened, slot : Slot] \cup {NULL}
        /\ fds \subseteq Nat /\ opened \subseteq fds
    BY DEF Init
  <2>4. kind \in [Slot -> Kind \cup {NULL}] /\ stale \subseteq Slot /\ changes \in 0..MaxChanges
    BY HidAssumption DEF Init
  <2> QED BY <1>1, <2>1, <2>2, <2>3, <2>4 DEF TypeOK
<1>3. Fresh /\ Placed
  BY <1>1 DEF Init, Fresh, Placed
<1>4. Chain
  BY <1>1 DEF Chain, LinkedIn
<1>5. EveryNodeIsFilled
  BY <1>1 DEF EveryNodeIsFilled, live
<1> QED BY <1>2, <1>3, <1>4, <1>5 DEF Inv

-----------------------------------------------------------------------------
(* Steps that leave the list alone.                                        *)

(* The nodes keep being linked and filled. *)
LEMMA SameList ==
  ASSUME Inv, heap' = heap, order' = order, pc = "usb_device" => pc' = pc /\ cur_dev' = cur_dev
  PROVE  Chain' /\ EveryNodeIsFilled'
<1>1. Chain'
  BY DEF Inv, Chain
<1>2. EveryNodeIsFilled'
  BY DEF Inv, EveryNodeIsFilled, live
<1> QED BY <1>1, <1>2

(* The root of a list is a node of it. *)
LEMMA RootIsLive ==
  ASSUME Inv
  PROVE  First(order) \in live \cup {NULL}
<1>1. order \in Seq(Address) /\ Chain
  BY DEF Inv, TypeOK
<1>2. CASE order = <<>>
  BY <1>2 DEF First
<1>3. CASE order # <<>>
  <2>1. 1 \in DOMAIN order /\ 1 \in 1..Len(order)
    BY <1>1, <1>3
  <2>2. order[1] \in Address /\ heap[order[1]] # NULL
    BY <1>1, <2>1, ElementOfSequence DEF Chain, LinkedIn
  <2> QED BY <1>3, <2>2 DEF First, live
<1> QED BY <1>2, <1>3

LEMMA StartStep == Inv /\ StartEnumeration => Inv'
<1> SUFFICES ASSUME Inv, StartEnumeration PROVE Inv'
  OBVIOUS
<1>1. TypeOK'
  BY DEF Inv, TypeOK, StartEnumeration, Goto, Labels, Pointer, file, present
<1>2. Fresh'
  BY DEF StartEnumeration, Goto, Fresh, present
<1>3. order' = order /\ heap' = heap /\ order = <<>>
  BY DEF Inv, Placed, StartEnumeration
<1>4. Placed'
  BY <1>3 DEF StartEnumeration, Goto, Placed, First, Last
<1>5. Chain' /\ EveryNodeIsFilled'
  BY <1>3, SameList DEF StartEnumeration
<1> QED BY <1>1, <1>2, <1>4, <1>5 DEF Inv

LEMMA NextEntryStep == ASSUME NEW n \in Slot PROVE Inv /\ NextEntry(n) => Inv'
<1> SUFFICES ASSUME Inv, NextEntry(n) PROVE Inv'
  OBVIOUS
<1>1. TypeOK'
  BY DEF Inv, TypeOK, NextEntry, Goto, Labels, list, file, world
<1>2. Fresh'
  BY DEF Inv, Fresh, NextEntry, Goto, HasHidParent, world
<1>3. Placed'
  BY DEF Inv, Placed, NextEntry, Goto, list
<1>4. Chain' /\ EveryNodeIsFilled'
  BY SameList DEF NextEntry, list
<1> QED BY <1>1, <1>2, <1>3, <1>4 DEF Inv

LEMMA UeventGoneStep == Inv /\ UeventGone => Inv'
<1> SUFFICES ASSUME Inv, UeventGone PROVE Inv'
  OBVIOUS
<1>1. TypeOK'
  BY DEF Inv, TypeOK, UeventGone, Goto, Labels, walk, list, file, world
<1>2. Fresh' /\ Placed'
  BY DEF UeventGone, Goto, Fresh, Placed
<1>3. Chain' /\ EveryNodeIsFilled'
  BY SameList DEF UeventGone, list
<1> QED BY <1>1, <1>2, <1>3 DEF Inv

LEMMA EndEnumerationStep == Inv /\ EndEnumeration => Inv'
<1> SUFFICES ASSUME Inv, EndEnumeration PROVE Inv'
  OBVIOUS
<1>1. TypeOK'
  BY DEF Inv, TypeOK, EndEnumeration, Goto, Labels, walk, file, world
<1>2. Fresh'
  BY DEF EndEnumeration, Goto, Fresh
<1>3. cur_dev' = First(order) /\ live' = live
  BY DEF Inv, Placed, EndEnumeration, live
<1>4. Placed'
  BY <1>3, RootIsLive DEF Inv, Placed, EndEnumeration, Goto
<1>5. Chain' /\ EveryNodeIsFilled'
  BY SameList DEF EndEnumeration
<1> QED BY <1>1, <1>2, <1>4, <1>5 DEF Inv

LEMMA FoundStep == Inv /\ Found => Inv'
<1> SUFFICES ASSUME Inv, Found PROVE Inv'
  OBVIOUS
<1>1. cur_dev \in Address /\ heap[cur_dev] \in Node
  BY DEF Inv, TypeOK, Placed, Found, live
<1>2. path' \in Slot \cup {NULL}
  BY <1>1 DEF Found, Node
<1>3. TypeOK'
  BY <1>2 DEF Inv, TypeOK, Found, Goto, Labels, walk, list, world
<1>4. Fresh'
  BY DEF Found, Goto, Fresh
<1>5. Placed'
  BY DEF Inv, Placed, Found, Goto, list, live
<1>6. Chain' /\ EveryNodeIsFilled'
  BY SameList DEF Found, list
<1> QED BY <1>3, <1>4, <1>5, <1>6 DEF Inv

(* What a node points to is a node. *)
LEMMA NextIsLive ==
  ASSUME Inv, cur_dev \in live
  PROVE  heap[cur_dev].next \in live \cup {NULL}
<1>1. order \in Seq(Address) /\ LinkedIn(heap, order)
  BY DEF Inv, TypeOK, Chain
<1>2. PICK k \in Nat : k = Len(order)
  BY <1>1, LengthOfSequence
<1>3. PICK n \in 1..k : order[n] = cur_dev
  BY <1>1, <1>2 DEF LinkedIn, live
<1>4. heap[cur_dev].next = IF n = k THEN NULL ELSE order[n + 1]
  BY <1>1, <1>2, <1>3 DEF LinkedIn
<1>5. CASE n # k
  <2>1. n + 1 \in 1..k
    BY <1>5
  <2>2. order[n + 1] \in Address /\ heap[order[n + 1]] # NULL
    BY <1>1, <1>2, <2>1, ElementOfSequence DEF LinkedIn
  <2> QED BY <1>4, <1>5, <2>2 DEF live
<1> QED BY <1>4, <1>5

LEMMA SearchOnStep == Inv /\ SearchOn => Inv'
<1> SUFFICES ASSUME Inv, SearchOn PROVE Inv'
  OBVIOUS
<1>1. cur_dev \in live
  BY DEF Inv, Placed, SearchOn
<1>2. cur_dev' \in live \cup {NULL}
  BY <1>1, NextIsLive DEF SearchOn
<1>3. TypeOK'
  BY <1>2 DEF Inv, TypeOK, SearchOn, Pointer, walk, file, world, live
<1>4. Fresh'
  BY DEF SearchOn, Fresh
<1>5. Placed'
  BY <1>2 DEF Inv, Placed, SearchOn, live
<1>6. Chain' /\ EveryNodeIsFilled'
  BY SameList DEF SearchOn
<1> QED BY <1>3, <1>4, <1>5, <1>6 DEF Inv

LEMMA NotFoundStep == Inv /\ NotFound => Inv'
<1> SUFFICES ASSUME Inv, NotFound PROVE Inv'
  OBVIOUS
<1>1. TypeOK'
  BY DEF Inv, TypeOK, NotFound, Goto, Labels, walk, file, world
<1>2. Fresh'
  BY DEF NotFound, Goto, Fresh
<1>3. Placed'
  BY DEF Inv, Placed, NotFound, Goto
<1>4. Chain' /\ EveryNodeIsFilled'
  BY SameList DEF NotFound
<1> QED BY <1>1, <1>2, <1>3, <1>4 DEF Inv

LEMMA OpenPathStep == Inv /\ OpenPath => Inv'
<1> SUFFICES ASSUME Inv, OpenPath PROVE Inv'
  OBVIOUS
<1>1. PICK fd \in 0..3 :
        /\ fds' = fds \cup {fd} /\ opened' = opened \cup {fd}
        /\ handle' = IF GoodHandle(fd) THEN [fd |-> fd, slot |-> path] ELSE NULL
  BY DEF OpenPath
<1>2. path \in Slot
  BY DEF OpenPath, present
<1>3. /\ fds' \subseteq Nat /\ opened' \subseteq fds'
      /\ handle' \in [fd : opened', slot : Slot] \cup {NULL}
  <2>1. fds \subseteq Nat /\ opened \subseteq fds /\ fd \in Nat
    BY DEF Inv, TypeOK
  <2>2. fds' \subseteq Nat /\ opened' \subseteq fds'
    BY <1>1, <2>1
  <2>3. CASE GoodHandle(fd)
    <3>1. fd \in opened' /\ handle' = [fd |-> fd, slot |-> path]
      BY <1>1, <2>3
    <3> QED BY <1>2, <2>2, <3>1
  <2>4. CASE ~GoodHandle(fd)
    BY <1>1, <2>2, <2>4
  <2> QED BY <2>3, <2>4
<1>4. TypeOK'
  BY <1>3 DEF Inv, TypeOK, OpenPath, Goto, Labels, walk, world
<1>5. Fresh'
  BY DEF OpenPath, Goto, Fresh
<1>6. Placed'
  BY DEF Inv, Placed, OpenPath, Goto
<1>7. Chain' /\ EveryNodeIsFilled'
  BY SameList DEF OpenPath
<1> QED BY <1>4, <1>5, <1>6, <1>7 DEF Inv

LEMMA OpenNothingStep == Inv /\ OpenNothing => Inv'
<1> SUFFICES ASSUME Inv, OpenNothing PROVE Inv'
  OBVIOUS
<1>1. TypeOK'
  BY DEF Inv, TypeOK, OpenNothing, Goto, Labels, walk, file, world
<1>2. Fresh'
  BY DEF OpenNothing, Goto, Fresh
<1>3. Placed'
  BY DEF Inv, Placed, OpenNothing, Goto
<1>4. Chain' /\ EveryNodeIsFilled'
  BY SameList DEF OpenNothing
<1> QED BY <1>1, <1>2, <1>3, <1>4 DEF Inv

LEMMA EndFreeStep == Inv /\ EndFree => Inv'
<1> SUFFICES ASSUME Inv, EndFree PROVE Inv'
  OBVIOUS
<1>1. TypeOK'
  BY DEF Inv, TypeOK, EndFree, Goto, Labels, walk, list, file, world
<1>2. Fresh'
  BY DEF EndFree, Goto, Fresh
<1>3. order = <<>>
  <2>1. First(order) = NULL /\ order \in Seq(Address)
    BY DEF Inv, TypeOK, Placed, EndFree
  <2>2. order # <<>> => order[1] \in Address
    BY <2>1
  <2> QED BY <2>1, <2>2, HidAssumption DEF First
<1>4. Placed'
  BY <1>3 DEF EndFree, Goto, Placed, list
<1>5. Chain' /\ EveryNodeIsFilled'
  BY SameList DEF EndFree, list
<1> QED BY <1>1, <1>2, <1>4, <1>5 DEF Inv

LEMMA GiveUpStep == Inv /\ GiveUp => Inv'
<1> SUFFICES ASSUME Inv, GiveUp PROVE Inv'
  OBVIOUS
<1>1. TypeOK'
  BY DEF Inv, TypeOK, GiveUp, Labels, walk, list, file, world
<1>2. Fresh' /\ Placed'
  BY DEF Inv, GiveUp, Fresh, Placed, list
<1>3. Chain' /\ EveryNodeIsFilled'
  BY SameList DEF GiveUp, list
<1> QED BY <1>1, <1>2, <1>3 DEF Inv

LEMMA CloseStep == Inv /\ Close => Inv'
<1> SUFFICES ASSUME Inv, Close PROVE Inv'
  OBVIOUS
<1>1. TypeOK'
  BY DEF Inv, TypeOK, Close, Goto, Labels, walk, list, world
<1>2. Fresh' /\ Placed'
  BY DEF Inv, Close, Goto, Fresh, Placed, list
<1>3. Chain' /\ EveryNodeIsFilled'
  BY SameList DEF Close, list
<1> QED BY <1>1, <1>2, <1>3 DEF Inv

LEMMA WorldStep == Inv /\ World => Inv'
<1> SUFFICES ASSUME Inv, World PROVE Inv'
  OBVIOUS
<1>1. PICK n \in Slot : /\ Unplug(n) \/ \E k \in Kind : Plug(n, k)
                        /\ stale' = stale \cup {n}
  BY DEF World
<1>2. /\ kind' \in [Slot -> Kind \cup {NULL}]
      /\ \A m \in Slot : m # n => kind'[m] = kind[m]
  BY <1>1 DEF Inv, TypeOK, Unplug, Plug
<1>3. changes' \in 0..MaxChanges
  BY HidAssumption DEF Inv, TypeOK, World
<1>4. TypeOK'
  BY <1>1, <1>2, <1>3 DEF Inv, TypeOK, World, control, walk, list, file
<1>5. Fresh'
  BY <1>1, <1>2 DEF Inv, TypeOK, Fresh, World, control, walk
<1>6. Placed'
  BY DEF Inv, Placed, World, control, list, live
<1>7. Chain' /\ EveryNodeIsFilled'
  BY SameList DEF World, control, list
<1> QED BY <1>4, <1>5, <1>6, <1>7 DEF Inv

-----------------------------------------------------------------------------
(* Steps that change the list.                                             *)

(* The last node of a list that is not empty. *)
LEMMA LastIsLive ==
  ASSUME Inv, order # <<>>
  PROVE  Last(order) \in Address /\ heap[Last(order)] # NULL
<1>1. order \in Seq(Address) /\ LinkedIn(heap, order)
  BY DEF Inv, TypeOK, Chain
<1>2. Len(order) \in 1..Len(order) /\ DOMAIN order = 1..Len(order)
  BY <1>1, LengthOfSequence
<1> QED BY <1>1, <1>2, ElementOfSequence DEF Last, LinkedIn

LEMMA FreeNodeStep == Inv /\ FreeNode => Inv'
<1> SUFFICES ASSUME Inv, FreeNode PROVE Inv'
  OBVIOUS
<1>1. /\ heap \in Heap /\ order \in Seq(Address) /\ LinkedIn(heap, order)
      /\ cur_dev \in Address /\ cur_dev = First(order)
  BY DEF Inv, TypeOK, Chain, Placed, Pointer, Heap, FreeNode
<1>2. order # <<>>
  BY <1>1, HidAssumption DEF First
<1>3. order' = Tail(order) /\ order' \in Seq(Address)
  BY <1>1, <1>2, WithoutFirst DEF FreeNode
<1>4. heap' \in Heap /\ heap'[cur_dev] = NULL
      /\ \A x \in Address : x # cur_dev => heap'[x] = heap[x]
  BY <1>1 DEF FreeNode, Heap
<1>5. LinkedIn(heap', Tail(order)) /\ heap[cur_dev].next = First(Tail(order))
  BY <1>1, <1>2, <1>4, FreeUnlinks
<1>6. heap[cur_dev].next \in Pointer
  <2>1. cur_dev \in live
    <3>1. First(order) \in live \cup {NULL}
      BY RootIsLive
    <3> QED BY <1>1, <3>1, HidAssumption
  <2> QED BY <2>1, NextIsLive DEF live, Pointer
<1>7. TypeOK'
  BY <1>3, <1>4, <1>6 DEF Inv, TypeOK, Heap, FreeNode, walk, file, world
<1>8. Fresh'
  BY DEF FreeNode, Fresh
<1>9. Placed'
  BY <1>3, <1>5 DEF FreeNode, Placed, First
<1>10. Chain'
  BY <1>3, <1>5 DEF Chain
<1>11. EveryNodeIsFilled'
  BY <1>4 DEF Inv, EveryNodeIsFilled, FreeNode, live
<1> QED BY <1>7, <1>8, <1>9, <1>10, <1>11 DEF Inv

LEMMA FillNodeStep == Inv /\ FillNode => Inv'
<1> SUFFICES ASSUME Inv, FillNode PROVE Inv'
  OBVIOUS
<1>1. heap \in Heap /\ order \in Seq(Address) /\ LinkedIn(heap, order)
  BY DEF Inv, TypeOK, Chain, Heap
<1>2. cur_dev = Last(order) /\ order # <<>> /\ order' = order /\ cur_dev' = cur_dev
  BY DEF Inv, Placed, FillNode
<1>3. cur_dev \in Address /\ heap[cur_dev] # NULL
  BY <1>2, LastIsLive
<1>4. PICK node : node = [heap[cur_dev] EXCEPT !.filled = TRUE]
  OBVIOUS
<1>5. heap[cur_dev] \in Node
  BY <1>1, <1>3 DEF Heap
<1>6. node \in Node /\ node.next = heap[cur_dev].next /\ node.filled
  BY <1>4, <1>5 DEF Node
<1>7. node # NULL
  BY <1>6, HidAssumption
<1>8. heap' = [heap EXCEPT ![cur_dev] = node]
  BY <1>4 DEF FillNode
<1>9. heap' \in Heap /\ heap'[cur_dev] = node
      /\ \A x \in Address : x # cur_dev => heap'[x] = heap[x]
  BY <1>1, <1>3, <1>6, <1>8 DEF Heap
<1>10. \A x \in Address : (heap'[x] # NULL <=> heap[x] # NULL) /\ heap'[x].next = heap[x].next
  BY <1>3, <1>6, <1>7, <1>9
<1>11. Chain'
  <2>1. \A n \in DOMAIN order : order[n] \in Address
    BY <1>1, ElementOfSequence
  <2>2. LinkedIn(heap', order)
    BY <1>1, <1>10, <2>1 DEF LinkedIn
  <2> QED BY <1>2, <2>2 DEF Chain
<1>12. TypeOK'
  BY <1>9 DEF Inv, TypeOK, Heap, FillNode, Goto, Labels, walk, file, world
<1>13. Fresh'
  BY DEF Inv, Fresh, FillNode, Goto, walk, world
<1>14. Placed'
  BY DEF Inv, Placed, FillNode, Goto
<1>15. EveryNodeIsFilled'
  BY <1>6, <1>9 DEF Inv, EveryNodeIsFilled, live
<1> QED BY <1>11, <1>12, <1>13, <1>14, <1>15 DEF Inv

LEMMA TakeBackStep == Inv /\ TakeBack => Inv'
<1> SUFFICES ASSUME Inv, TakeBack PROVE Inv'
  OBVIOUS
<1>1. heap \in Heap /\ order \in Seq(Address) /\ LinkedIn(heap, order)
  BY DEF Inv, TypeOK, Chain, Heap
<1>2. PICK t : t = SubSeq(order, 1, Len(order) - 1)
  OBVIOUS
<1>3. /\ cur_dev = Last(order) /\ order # <<>> /\ prev_dev = Last(t) /\ root = First(order)
      /\ order' = t /\ pc = "usb_device" /\ pc' = "entry" /\ cur_dev' = prev_dev
  BY <1>2 DEF Inv, Placed, TakeBack, Goto
<1>4. cur_dev \in Address /\ heap[cur_dev] # NULL
  BY <1>3, LastIsLive
<1>5. PICK k \in Nat \ {0} : k = Len(order)
  BY <1>1, <1>3, LengthOfSequence
<1>6. t \in Seq(Address) /\ Len(t) = k - 1 /\ \A n \in 1..k - 1 : t[n] = order[n]
  BY <1>1, <1>2, <1>3, <1>5, WithoutLast
<1>7. prev_dev # NULL <=> t # <<>>
  <2>1. t = <<>> => prev_dev = NULL
    BY <1>3 DEF Last
  <2>2. t # <<>> => prev_dev \in Address
    BY <1>3, <1>6, LengthOfSequence, ElementOfSequence DEF Last
  <2> QED BY <2>1, <2>2, HidAssumption
<1>8. First(t) = IF t = <<>> THEN NULL ELSE First(order)
  <2>1. CASE t # <<>>
    <3>1. 1 \in 1..k - 1
      BY <1>5, <1>6, <2>1, LengthOfSequence
    <3> QED BY <1>3, <1>6, <2>1, <3>1 DEF First
  <2> QED BY <2>1 DEF First
<1>9. /\ heap' \in Heap /\ heap'[cur_dev] = NULL
      /\ \A x \in Address : x # cur_dev /\ x # prev_dev => heap'[x] = heap[x]
      /\ t # <<>> => /\ heap'[prev_dev] # NULL /\ heap'[prev_dev].next = NULL
                     /\ heap'[prev_dev].filled = heap[prev_dev].filled
                     /\ heap[prev_dev] # NULL /\ prev_dev \in Address
  <2>1. CASE t = <<>>
    <3>1. heap' = [heap EXCEPT ![cur_dev] = NULL]
      BY <1>7, <2>1 DEF TakeBack
    <3> QED BY <1>1, <1>4, <2>1, <3>1 DEF Heap
  <2>2. CASE t # <<>>
    <3>1. PICK f : f = [heap EXCEPT ![cur_dev] = NULL]
      OBVIOUS
    <3>2. f \in Heap /\ f[cur_dev] = NULL /\ \A x \in Address : x # cur_dev => f[x] = heap[x]
      BY <1>1, <1>4, <3>1 DEF Heap
    <3>3. heap' = [f EXCEPT ![prev_dev].next = NULL]
      BY <1>7, <2>2, <3>1 DEF TakeBack
    <3>4. k - 1 \in 1..k /\ k - 1 \in 1..k - 1 /\ k \in 1..k /\ k - 1 # k
      BY <1>6, <2>2, LengthOfSequence
    <3>5. prev_dev = order[k - 1] /\ cur_dev = order[k]
      BY <1>3, <1>5, <1>6, <2>2, <3>4 DEF Last
    <3>6. /\ prev_dev \in Address /\ heap[prev_dev] # NULL /\ prev_dev # cur_dev
      BY <1>1, <1>5, <3>4, <3>5, ElementOfSequence, LengthOfSequence DEF LinkedIn
    <3>7. f[prev_dev] # NULL /\ f[prev_dev].filled = heap[prev_dev].filled
      BY <3>2, <3>6
    <3>8. NULL \in Address \cup {NULL}
      OBVIOUS
    <3>9. /\ heap' \in Heap /\ heap'[prev_dev] # NULL /\ heap'[prev_dev].next = NULL
          /\ heap'[prev_dev].filled = f[prev_dev].filled
          /\ \A x \in Address : x # prev_dev => heap'[x] = f[x]
      <4>1. PICK before \in Node : before = f[prev_dev]
        BY <3>2, <3>6, <3>7 DEF Heap
      <4>2. PICK node \in Node : /\ node # NULL /\ node.next = NULL
                                /\ node.filled = before.filled
                                /\ node = [before EXCEPT !.next = NULL]
        BY <3>8, SetNext
      <4>3. heap' = [f EXCEPT ![prev_dev] = node]
        BY <3>3, <4>1, <4>2
      <4> QED BY <3>2, <3>6, <4>1, <4>2, <4>3 DEF Heap
    <3>10. heap'[cur_dev] = NULL
      BY <1>4, <3>2, <3>6, <3>9
    <3> QED BY <3>2, <3>6, <3>7, <3>9, <3>10
  <2> QED BY <2>1, <2>2
<1>10. Chain'
  <2>1. LinkedIn(heap', t)
    <3>1. heap'[Last(order)] = NULL
      BY <1>3, <1>9
    <3>2. \A x \in Address : x # Last(order) /\ x # Last(t) => heap'[x] = heap[x]
      BY <1>3, <1>9
    <3>3. t # <<>> => heap'[Last(t)] # NULL /\ heap'[Last(t)].next = NULL
      BY <1>3, <1>9
    <3>4. /\ LinkedIn(heap, order)
          /\ Len(order) = k /\ Len(t) = k - 1 /\ \A n \in 1..k - 1 : t[n] = order[n]
          /\ heap'[Last(order)] = NULL
          /\ \A x \in Address : x # Last(order) /\ x # Last(t) => heap'[x] = heap[x]
          /\ t # <<>> => heap'[Last(t)] # NULL /\ heap'[Last(t)].next = NULL
      BY <1>1, <1>5, <1>6, <3>1, <3>2, <3>3
    <3>5. order \in Seq(Address) /\ t \in Seq(Address)
      BY <1>1, <1>6
    <3> QED BY <3>4, <3>5, TakeBackUnlinks
  <2> QED BY <1>3, <2>1 DEF Chain
<1>11. TypeOK'
  <2>1. {root', cur_dev', prev_dev'} \subseteq Pointer
    BY DEF Inv, TypeOK, TakeBack, Pointer
  <2> QED BY <1>3, <1>6, <1>9, <2>1 DEF Inv, TypeOK, Heap, TakeBack, Goto, Labels, walk, file, world
<1>12. Fresh'
  BY <1>3 DEF Inv, Fresh, TakeBack, walk, world
<1>13. Placed'
  <2>1. root' = First(t)
    BY <1>3, <1>7, <1>8 DEF TakeBack
  <2> QED BY <1>3, <2>1 DEF Placed
<1>14. EveryNodeIsFilled'
  <2>1. ASSUME NEW x \in Address, heap'[x] # NULL
        PROVE  heap'[x].filled
    <3>1. x # cur_dev
      BY <1>9, <2>1
    <3>2. heap[x] # NULL => heap[x].filled
      BY <1>3, <3>1 DEF Inv, EveryNodeIsFilled, live
    <3>3. CASE x # prev_dev
      BY <1>9, <2>1, <3>1, <3>2, <3>3
    <3>4. CASE x = prev_dev
      BY <1>7, <1>9, <3>2, <3>4, HidAssumption
    <3> QED BY <3>3, <3>4
  <2> QED BY <2>1 DEF EveryNodeIsFilled, live
<1> QED BY <1>10, <1>11, <1>12, <1>13, <1>14 DEF Inv

LEMMA ReadUeventStep == Inv /\ ReadUevent => Inv'
<1> SUFFICES ASSUME Inv, ReadUevent PROVE Inv'
  OBVIOUS
<1>1. /\ heap \in Heap /\ order \in Seq(Address) /\ LinkedIn(heap, order)
      /\ pc = "uevent" /\ cur_dev = Last(order) /\ root = First(order)
  BY DEF Inv, TypeOK, Chain, Heap, Placed, ReadUevent
<1>2. entry \in Slot /\ kind[entry] \in Kind
  BY DEF Inv, TypeOK, Fresh, ReadUevent, HasUevent
<1>3. CASE ~Selected(kind[entry])
  <2>1. pc' = "entry" /\ UNCHANGED <<call, serial, heap, root, cur_dev, prev_dev, order>>
    BY <1>3 DEF ReadUevent, Goto, list
  <2>2. TypeOK'
    BY <2>1 DEF Inv, TypeOK, ReadUevent, Labels, walk, file, world
  <2>3. Fresh' /\ Placed'
    BY <1>1, <2>1 DEF Inv, Fresh, Placed, ReadUevent, walk, world
  <2>4. Chain' /\ EveryNodeIsFilled'
    BY <1>1, <2>1, SameList
  <2> QED BY <2>2, <2>3, <2>4 DEF Inv
<1>4. CASE Selected(kind[entry])
  <2>0. PICK node : node = [next |-> NULL, slot |-> entry, device |-> kind[entry],
                            filled |-> kind[entry].bus = BUS_BLUETOOTH]
    OBVIOUS
  <2>1. PICK a \in Address \ live :
          /\ Link(a, node)
          /\ prev_dev' = cur_dev /\ cur_dev' = a /\ order' = Append(order, a)
          /\ IF kind[entry].bus = BUS_USB THEN Goto("usb_device") ELSE Goto("entry")
    BY <1>4, <2>0 DEF ReadUevent
  <2>2. node \in Node /\ node.next = NULL /\ node # NULL
    <3>1. (kind[entry].bus = BUS_BLUETOOTH) \in BOOLEAN
      OBVIOUS
    <3>2. node \in Node /\ node.next = NULL
      BY <1>2, <2>0, <3>1 DEF Node
    <3> QED BY <3>2, HidAssumption
  <2>3. a \in Address /\ heap[a] = NULL
    BY <2>1 DEF live
  <2>4. /\ heap' \in Heap /\ heap'[a] = node
        /\ \A x \in Address : x # a /\ x # Last(order) => heap'[x] = heap[x]
        /\ order # <<>> => /\ heap'[Last(order)] # NULL /\ heap'[Last(order)].next = a
                           /\ heap'[Last(order)].filled = heap[Last(order)].filled
                           /\ heap[Last(order)] # NULL /\ Last(order) \in Address
        /\ root' = IF order = <<>> THEN a ELSE root
    <3>1. CASE order = <<>>
      <4>1. cur_dev = NULL
        BY <1>1, <3>1 DEF Last
      <4>2. heap' = [heap EXCEPT ![a] = node] /\ root' = a
        BY <2>1, <4>1 DEF Link
      <4> QED BY <1>1, <2>2, <2>3, <3>1, <4>2 DEF Heap
    <3>2. CASE order # <<>>
      <4>1. cur_dev \in Address /\ heap[cur_dev] # NULL /\ cur_dev = Last(order) /\ cur_dev # a
        BY <1>1, <2>3, <3>2, LastIsLive
      <4>2. cur_dev # NULL
        BY <4>1, HidAssumption
      <4>3. PICK f : f = [heap EXCEPT ![cur_dev].next = a]
        OBVIOUS
      <4>4. a \in Address \cup {NULL}
        BY <2>3
      <4>5. /\ f \in Heap /\ f[cur_dev] # NULL /\ f[cur_dev].next = a
            /\ f[cur_dev].filled = heap[cur_dev].filled
            /\ \A x \in Address : x # cur_dev => f[x] = heap[x]
        <5>1. PICK before \in Node : before = heap[cur_dev]
          BY <1>1, <4>1 DEF Heap
        <5>2. PICK last \in Node : /\ last # NULL /\ last.next = a
                                   /\ last.filled = before.filled
                                   /\ last = [before EXCEPT !.next = a]
          BY <4>4, SetNext
        <5>3. f = [heap EXCEPT ![cur_dev] = last]
          BY <4>3, <5>1, <5>2
        <5> QED BY <1>1, <4>1, <5>1, <5>2, <5>3 DEF Heap
      <4>6. heap' = [f EXCEPT ![a] = node] /\ root' = root
        BY <2>1, <4>2, <4>3 DEF Link
      <4>7. heap' \in Heap /\ heap'[a] = node /\ \A x \in Address : x # a => heap'[x] = f[x]
        BY <2>2, <2>3, <4>5, <4>6 DEF Heap
      <4>8. heap'[cur_dev] = f[cur_dev]
        BY <4>1, <4>7
      <4>9. \A x \in Address : x # a /\ x # Last(order) => heap'[x] = heap[x]
        BY <4>1, <4>5, <4>7
      <4>10. /\ heap'[Last(order)] # NULL /\ heap'[Last(order)].next = a
             /\ heap'[Last(order)].filled = heap[Last(order)].filled
             /\ heap[Last(order)] # NULL /\ Last(order) \in Address
        BY <4>1, <4>5, <4>8
      <4> QED BY <3>2, <4>6, <4>7, <4>9, <4>10
    <3> QED BY <3>1, <3>2
  <2>5. Chain'
    <3>1. LinkedIn(heap', Append(order, a))
      BY <1>1, <2>2, <2>3, <2>4, LinkAppends
    <3> QED BY <2>1, <3>1 DEF Chain
  <2>6. PICK k \in Nat : k = Len(order)
    BY <1>1, LengthOfSequence
  <2>7. PICK t \in Seq(Address) : t = Append(order, a)
    BY <1>1, <2>3, Appended
  <2>8. Len(t) = k + 1 /\ t[k + 1] = a /\ \A n \in 1..k : t[n] = order[n]
    BY <1>1, <2>3, <2>6, <2>7, Appended
  <2>9. t # <<>> /\ Last(t) = a /\ First(t) = IF order = <<>> THEN a ELSE First(order)
    <3>1. k + 1 # 0
      OBVIOUS
    <3>2. t # <<>> /\ Last(t) = a
      BY <2>8, <3>1, LengthOfSequence DEF Last
    <3>3. CASE order = <<>>
      <4>1. k = 0 /\ k + 1 = 1
        BY <1>1, <2>6, <3>3
      <4> QED BY <2>8, <3>2, <3>3, <4>1 DEF First
    <3>4. CASE order # <<>>
      <4>1. k # 0
        BY <1>1, <2>6, <3>4, LengthOfSequence
      <4>2. 1 \in 1..k
        BY <4>1
      <4> QED BY <2>8, <3>2, <3>4, <4>2 DEF First
    <3> QED BY <3>2, <3>3, <3>4
  <2>10. SubSeq(t, 1, Len(t) - 1) = order
    BY <1>1, <2>3, <2>7
  <2>11. (pc' = "usb_device" \/ pc' = "entry") /\ call' = call /\ serial' = serial
    BY <2>1 DEF Goto
  <2>12. TypeOK'
    <3>1. order' \in Seq(Address)
      BY <2>1, <2>7
    <3>2. {root', cur_dev', prev_dev'} \subseteq Pointer
      BY <2>1, <2>4 DEF Inv, TypeOK, Pointer
    <3> QED BY <2>4, <2>11, <3>1, <3>2 DEF Inv, TypeOK, Heap, ReadUevent, Labels, walk, file, world
  <2>13. Fresh'
    BY <1>1, <1>2, <2>11 DEF Inv, Fresh, ReadUevent, HasUevent, walk, world
  <2>14. Placed'
    <3>1. order' = t /\ cur_dev' = a /\ prev_dev' = Last(order) /\ root' = First(t)
      BY <1>1, <2>1, <2>4, <2>7, <2>9
    <3> QED BY <2>9, <2>10, <2>11, <3>1 DEF Placed
  <2>15. EveryNodeIsFilled'
    <3>1. ASSUME NEW x \in Address, heap'[x] # NULL, x # a
          PROVE  heap'[x].filled
      <4>1. heap[x] # NULL /\ heap'[x].filled = heap[x].filled
        BY <2>4, <3>1, HidAssumption DEF Last
      <4> QED BY <1>1, <4>1 DEF Inv, EveryNodeIsFilled, live
    <3>2. heap'[a].filled \/ pc' = "usb_device"
      <4>1. CASE kind[entry].bus = BUS_USB
        BY <2>1, <4>1 DEF Goto
      <4>2. CASE kind[entry].bus = BUS_BLUETOOTH
        <5>1. (kind[entry].bus = BUS_BLUETOOTH) = TRUE
          BY <4>2
        <5>2. node.filled = TRUE
          BY <2>0, <5>1
        <5> QED BY <2>4, <5>2
      <4> QED BY <1>4, <4>1, <4>2 DEF Selected
    <3> QED BY <2>1, <3>1, <3>2 DEF EveryNodeIsFilled, live
  <2> QED BY <2>5, <2>12, <2>13, <2>14, <2>15 DEF Inv
<1> QED BY <1>3, <1>4

-----------------------------------------------------------------------------
(* Theorems.                                                               *)

LEMMA InvStep == Inv /\ [Next]_vars => Inv'
<1> SUFFICES ASSUME Inv, [Next]_vars PROVE Inv'
  OBVIOUS
<1>1. CASE Program
  <2>1. CASE StartEnumeration
    BY <2>1, StartStep
  <2>2. CASE \E n \in Slot : NextEntry(n)
    BY <2>2, NextEntryStep
  <2>3. CASE ReadUevent
    BY <2>3, ReadUeventStep
  <2>4. CASE UeventGone
    BY <2>4, UeventGoneStep
  <2>5. CASE FillNode
    BY <2>5, FillNodeStep
  <2>6. CASE TakeBack
    BY <2>6, TakeBackStep
  <2>7. CASE EndEnumeration
    BY <2>7, EndEnumerationStep
  <2>8. CASE Found
    BY <2>8, FoundStep
  <2>9. CASE SearchOn
    BY <2>9, SearchOnStep
  <2>10. CASE NotFound
    BY <2>10, NotFoundStep
  <2>11. CASE OpenPath
    BY <2>11, OpenPathStep
  <2>12. CASE OpenNothing
    BY <2>12, OpenNothingStep
  <2>13. CASE FreeNode
    BY <2>13, FreeNodeStep
  <2>14. CASE EndFree
    BY <2>14, EndFreeStep
  <2>15. CASE GiveUp
    BY <2>15, GiveUpStep
  <2>16. CASE Close
    BY <2>16, CloseStep
  <2> QED BY <1>1, <2>1, <2>2, <2>3, <2>4, <2>5, <2>6, <2>7, <2>8, <2>9, <2>10,
             <2>11, <2>12, <2>13, <2>14, <2>15, <2>16 DEF Program
<1>2. CASE World
  BY <1>2, WorldStep
<1>3. CASE UNCHANGED vars
  <2>1. TypeOK'
    BY <1>3 DEF Inv, TypeOK, vars, control, walk, list, file, world
  <2>2. Fresh' /\ Placed'
    BY <1>3 DEF Inv, Fresh, Placed, First, Last, live, vars, control, walk, list, file, world
  <2>3. Chain' /\ EveryNodeIsFilled'
    BY <1>3, SameList DEF vars, control, list
  <2> QED BY <2>1, <2>2, <2>3 DEF Inv
<1> QED BY <1>1, <1>2, <1>3 DEF Next

(* The invariant of hid_open and hid_enumerate: types, fresh entries of    *)
(* udev's list, the chain of nodes, the pointers into it at each place of  *)
(* the program, and filled nodes.  It is inductive.                        *)
THEOREM ListInvariant == Spec => []Inv
BY InvInit, InvStep, PTL DEF Spec

(* Every variable of the enumeration keeps its type: no pointer but NULL   *)
(* or an address, no handle but of a file descriptor that is open.         *)
THEOREM TypeCorrect == Spec => []TypeOK
<1>1. Inv => TypeOK
  BY DEF Inv
<1> QED BY <1>1, ListInvariant, PTL

(* Whatever is plugged in, and however devices come and go during the      *)
(* enumeration, the list that hid_enumerate puts together is linked at     *)
(* every step, taking back a node included, and nothing of it is lost or   *)
(* freed twice.                                                            *)
THEOREM ListCorrect == Spec => []ListIsLinked
<1>1. Inv => ListIsLinked
  <2> SUFFICES ASSUME Inv PROVE ListIsLinked
    OBVIOUS
  <2>1. Linked(order)
    BY LinkedIsLinkedIn DEF Inv, TypeOK, Chain
  <2>2. pc = "usb_device" => cur_dev # NULL
    <3>1. pc = "usb_device" => cur_dev \in Address
      BY LastIsLive DEF Inv, Placed
    <3> QED BY <3>1, HidAssumption
  <2> QED BY <2>1, <2>2 DEF Inv, Placed, ListIsLinked
<1> QED BY <1>1, ListInvariant, PTL

(* A call that has returned has freed every node it allocated.             *)
THEOREM NothingLeft == Spec => []NothingIsLeft
<1>1. Inv => NothingIsLeft
  <2> SUFFICES ASSUME Inv, pc \in {"hid_enumerate", "run", "ended"} PROVE live = {}
    BY DEF NothingIsLeft
  <2>1. order = <<>> /\ LinkedIn(heap, order)
    BY DEF Inv, Placed, Chain
  <2> QED BY <2>1 DEF LinkedIn, live
<1> QED BY <1>1, ListInvariant, PTL

(* Nobody but hid_enumerate itself ever sees a node without its strings.   *)
THEOREM NodesFilled == Spec => []EveryNodeIsFilled
<1>1. Inv => EveryNodeIsFilled
  BY DEF Inv
<1> QED BY <1>1, ListInvariant, PTL
-----------------------------------------------------------------------------
(* Which devices are listed, and which one is opened.                      *)

(* What is known of each node while the list is put together and searched. *)
Listing == pc \in {"entry", "uevent", "usb_device", "search"}

(* Which devices get a node: all of this is checked before there is one.   *)
Candidate(device) == device.hid /\ Selected(device)

(* The slots of the list increase.                                         *)
Increasing ==
  \A i, j \in DOMAIN order : i < j => heap[order[i]].slot < heap[order[j]].slot

(* What is still to come is behind what is listed.                         *)
Ahead ==
  /\ pc \in {"entry", "uevent", "usb_device"} =>
       \A a \in live : \A n \in todo : heap[a].slot < n
  /\ pc \in {"uevent", "usb_device"} => \A n \in todo : entry < n
  /\ pc = "uevent" => \A a \in live : heap[a].slot < entry
  /\ pc = "usb_device" => heap[cur_dev].slot = entry /\ heap[cur_dev].device.bus = BUS_USB
  /\ pc = "search" => todo = {}

(* A node describes the device in its slot, unless that was touched.       *)
Described ==
  \A a \in live : heap[a].slot \notin stale => kind[heap[a].slot] = heap[a].device

(* A node is of a wanted device, or in hand and of a candidate.            *)
AllWanted ==
  \A a \in live :
    \/ Wants(heap[a].device)
    \/ pc = "usb_device" /\ a = cur_dev /\ Candidate(heap[a].device)

(* An untouched device that is wanted has a node, or is still to come.     *)
AllListed ==
  \A n \in present \ stale :
    \/ n \in todo
    \/ n = entry /\ pc = "uevent"
    \/ ~Wants(kind[n])
    \/ \E a \in live : heap[a].slot = n

(* No node that was passed is of the device to open.                       *)
Passed ==
  pc = "search" /\ call = "open" =>
    \A a \in live : IsTheOne(heap[a].device) =>
                      cur_dev # NULL /\ heap[cur_dev].slot <= heap[a].slot

ListFacts == Increasing /\ Ahead /\ Described /\ AllWanted /\ AllListed /\ Passed

(* The device in slot p is the first one asked for, or was touched.        *)
Right(p) ==
  /\ p \notin stale => p \in present /\ Asked(kind[p])
  /\ \A n \in present \ stale : n < p => ~Asked(kind[n])

(* What the path found and the handle opened are.                          *)
Opened ==
  /\ pc = "hid_open_path" /\ path # NULL => Right(path)
  /\ pc \in {"hid_free_enumeration", "run"} /\ handle # NULL => Right(handle.slot)

BeforeOpen == {"hid_enumerate", "entry", "uevent", "usb_device", "search", "hid_open_path"}

(* At most one device is open, the one of the handle, or descriptor 0.     *)
OneOpen ==
  /\ opened \subseteq (IF handle = NULL THEN {0} ELSE {handle.fd})
  /\ pc \in BeforeOpen => handle = NULL /\ (call = "open" => opened = {})
  /\ pc = "hid_open_path" => call = "open"
  /\ call = "list" => handle = NULL

(* A uevent is read of a device that had a hid parent.                     *)
ParentWasThere ==
  /\ pc = "uevent" => entry \in stale \/ kind[entry].hid
  /\ CrashesOnlyOnUnplug

OpenInv == Inv /\ (Listing => ListFacts) /\ Opened /\ OneOpen /\ ParentWasThere

LEMMA OneOpenStep == Inv /\ OneOpen /\ [Next]_vars => OneOpen'
<1> SUFFICES ASSUME Inv, OneOpen, [Next]_vars PROVE OneOpen'
  OBVIOUS
<1>1. CASE OpenPath
  <2>1. pc = "hid_open_path" /\ call = "open" /\ opened = {} /\ handle = NULL
    BY <1>1 DEF OpenPath, OneOpen, BeforeOpen
  <2>2. PICK fd \in 0..3 :
          /\ opened' = opened \cup {fd}
          /\ handle' = IF GoodHandle(fd) THEN [fd |-> fd, slot |-> path] ELSE NULL
    BY <1>1 DEF OpenPath
  <2>3. pc' = "hid_free_enumeration" /\ call' = call /\ opened' = {fd}
    BY <1>1, <2>1, <2>2 DEF OpenPath, Goto
  <2>4. CASE GoodHandle(fd)
    <3>1. handle' = [fd |-> fd, slot |-> path]
      BY <2>2, <2>4
    <3>2. handle' # NULL
      <4>1. path \in Slot
        BY <1>1 DEF OpenPath, present
      <4>2. [fd |-> fd, slot |-> path] \in [fd : Nat, slot : Slot]
        BY <4>1
      <4> QED BY <3>1, <4>2, HidAssumption
    <3> QED BY <2>1, <2>3, <3>1, <3>2 DEF OneOpen, BeforeOpen
  <2>5. CASE ~GoodHandle(fd)
    <3>1. fd = 0 /\ handle' = NULL
      BY <2>2, <2>5 DEF GoodHandle
    <3> QED BY <2>1, <2>3, <3>1 DEF OneOpen, BeforeOpen
  <2> QED BY <2>4, <2>5
<1>2. CASE Close
  BY <1>2 DEF OneOpen, Close, Goto, BeforeOpen
<1>3. CASE GiveUp
  BY <1>3 DEF OneOpen, GiveUp, BeforeOpen, file
<1>4. CASE EndFree
  BY <1>4 DEF OneOpen, EndFree, Goto, BeforeOpen, file
<1>5. CASE FreeNode \/ OpenNothing \/ NotFound \/ SearchOn \/ Found
  BY <1>5 DEF OneOpen, FreeNode, OpenNothing, NotFound, SearchOn, Found, Goto, BeforeOpen, file
<1>6. CASE StartEnumeration \/ (\E n \in Slot : NextEntry(n)) \/ ReadUevent \/ UeventGone
  BY <1>6 DEF OneOpen, StartEnumeration, NextEntry, ReadUevent, UeventGone, Goto,
              BeforeOpen, file
<1>7. CASE FillNode \/ TakeBack \/ EndEnumeration
  BY <1>7 DEF OneOpen, FillNode, TakeBack, EndEnumeration, Goto, BeforeOpen, file
<1>8. CASE World \/ UNCHANGED vars
  BY <1>8 DEF OneOpen, World, vars, control, file, BeforeOpen
<1> QED BY <1>1, <1>2, <1>3, <1>4, <1>5, <1>6, <1>7, <1>8 DEF Next, Program

LEMMA ParentStep == Inv /\ ParentWasThere /\ [Next]_vars => ParentWasThere'
<1> SUFFICES ASSUME Inv, ParentWasThere, [Next]_vars PROVE ParentWasThere'
  OBVIOUS
<1>1. CASE \E n \in Slot : NextEntry(n)
  BY <1>1 DEF ParentWasThere, CrashesOnlyOnUnplug, NextEntry, HasHidParent, Goto, world
<1>2. CASE UeventGone
  <2>1. entry \in stale
    BY <1>2 DEF ParentWasThere, UeventGone, HasUevent
  <2> QED BY <1>2, <2>1 DEF ParentWasThere, CrashesOnlyOnUnplug, UeventGone, Goto, world
<1>3. CASE World
  <2>1. PICK n \in Slot : /\ Unplug(n) \/ \E k \in Kind : Plug(n, k)
                          /\ stale' = stale \cup {n}
    BY <1>3 DEF World
  <2>2. kind \in [Slot -> Kind \cup {NULL}]
    BY DEF Inv, TypeOK
  <2>3. \A m \in Slot : m # n => kind'[m] = kind[m]
    BY <2>1, <2>2 DEF Unplug, Plug
  <2>4. UNCHANGED <<pc, entry>>
    BY <1>3 DEF World, control, walk
  <2>5. pc = "uevent" => entry \in Slot
    BY DEF Inv, Fresh
  <2> QED BY <2>1, <2>3, <2>4, <2>5 DEF ParentWasThere, CrashesOnlyOnUnplug
<1>4. CASE StartEnumeration \/ ReadUevent \/ FillNode \/ TakeBack \/ EndEnumeration
  <2>1. pc' \in {"entry", "usb_device", "search"}
    BY <1>4 DEF StartEnumeration, ReadUevent, FillNode, TakeBack, EndEnumeration, Goto
  <2> QED BY <2>1 DEF ParentWasThere, CrashesOnlyOnUnplug
<1>5. CASE Found \/ SearchOn \/ NotFound \/ OpenPath \/ OpenNothing \/ FreeNode
  <2>1. pc' \in {"search", "hid_open_path", "hid_free_enumeration"}
    BY <1>5 DEF Found, SearchOn, NotFound, OpenPath, OpenNothing, FreeNode, Goto
  <2> QED BY <2>1 DEF ParentWasThere, CrashesOnlyOnUnplug
<1>6. CASE EndFree \/ GiveUp \/ Close
  <2>1. pc' \in {"run", "ended", "hid_enumerate"}
    BY <1>6 DEF EndFree, GiveUp, Close, Goto
  <2> QED BY <2>1 DEF ParentWasThere, CrashesOnlyOnUnplug
<1>7. CASE UNCHANGED vars
  BY <1>7 DEF ParentWasThere, CrashesOnlyOnUnplug, vars, control, walk, world
<1> QED BY <1>1, <1>2, <1>3, <1>4, <1>5, <1>6, <1>7 DEF Next, Program

(* No device stays open behind the program's back: once hid_open or        *)
(* hid_close has returned, only the handle's device is open, or descriptor *)
(* 0 without a handle; however many devices come and go meanwhile.         *)
THEOREM NoneStaysOpen == Spec => []NoDeviceStaysOpen
<1>1. Init => OneOpen
  BY DEF Init, OneOpen, BeforeOpen
<1>2. OneOpen => NoDeviceStaysOpen
  BY DEF OneOpen, NoDeviceStaysOpen
<1> QED BY <1>1, <1>2, ListInvariant, OneOpenStep, PTL DEF Spec

(* Enumerating dereferences NULL only if a device was unplugged, or        *)
(* replaced, while udev's list was walked.                                 *)
THEOREM CrashNeedsUnplug == Spec => []CrashesOnlyOnUnplug
<1>1. Init => ParentWasThere
  BY DEF Init, ParentWasThere, CrashesOnlyOnUnplug
<1>2. ParentWasThere => CrashesOnlyOnUnplug
  BY DEF ParentWasThere
<1> QED BY <1>1, <1>2, ListInvariant, ParentStep, PTL DEF Spec

-----------------------------------------------------------------------------
(* What each step does to the nodes.                                       *)

(* g has the nodes A of h, with what they describe.                        *)
Keeps(h, g, A) ==
  \A a \in A : g[a] # NULL /\ g[a].slot = h[a].slot /\ g[a].device = h[a].device

(* The types of what a node describes. *)
LEMMA NodeTypes ==
  ASSUME Inv, NEW a \in live
  PROVE  /\ a \in Address /\ a # NULL /\ heap[a] \in Node
         /\ heap[a].slot \in Slot /\ heap[a].slot \in Nat
         /\ heap[a].device \in Kind /\ heap[a].device # NULL
<1>1. a \in Address /\ heap[a] \in Node
  BY DEF Inv, TypeOK, live
<1>2. heap[a].slot \in Slot /\ heap[a].device \in Kind
  BY <1>1 DEF Node
<1> QED BY <1>1, <1>2, HidAssumption

(* The nodes of the heap are those of the list. *)
NodesOfList ==
  /\ order \in Seq(Address) /\ Len(order) \in Nat /\ DOMAIN order = 1..Len(order)
  /\ \A i \in DOMAIN order : order[i] \in live
  /\ \A a \in live : \E i \in DOMAIN order : order[i] = a

LEMMA ListNodes == Inv => NodesOfList
<1> SUFFICES ASSUME Inv PROVE NodesOfList
  OBVIOUS
<1>1. order \in Seq(Address) /\ LinkedIn(heap, order)
  BY DEF Inv, TypeOK, Chain
<1>2. Len(order) \in Nat /\ DOMAIN order = 1..Len(order)
  BY <1>1, LengthOfSequence
<1>3. /\ \A i \in DOMAIN order : order[i] \in live
      /\ \A a \in live : \E i \in DOMAIN order : order[i] = a
  BY <1>1, <1>2, ElementOfSequence DEF LinkedIn, live
<1> QED BY <1>1, <1>2, <1>3 DEF NodesOfList

(* g is h with the pointer of node x set to p. *)
Points(h, g, x, p) == g = [h EXCEPT ![x].next = p]

(* That says nothing of what a node describes. *)
LEMMA PointsKeeps ==
  ASSUME NEW h \in Heap, NEW x \in Address, h[x] # NULL, NEW p \in Address \cup {NULL}, NEW g,
         Points(h, g, x, p)
  PROVE  /\ g \in Heap /\ g[x] # NULL
         /\ g[x].slot = h[x].slot /\ g[x].device = h[x].device
         /\ \A y \in Address : y # x => g[y] = h[y]
<1>1. PICK node \in Node : node = h[x]
  BY DEF Heap
<1>2. PICK new : new = [node EXCEPT !.next = p]
  OBVIOUS
<1>3. new \in Node /\ new.slot = node.slot /\ new.device = node.device
  BY <1>2 DEF Node
<1>4. new # NULL
  BY <1>3, HidAssumption
<1>5. g = [h EXCEPT ![x] = new]
  BY <1>1, <1>2 DEF Points
<1> QED BY <1>1, <1>3, <1>4, <1>5 DEF Heap

LEMMA FillNodeNodes ==
  ASSUME Inv, FillNode
  PROVE  live' = live /\ Keeps(heap, heap', live) /\ cur_dev \in live
<1>1. heap \in Heap
  BY DEF Inv, TypeOK, Heap
<1>2. cur_dev \in Address /\ heap[cur_dev] # NULL
  BY LastIsLive DEF Inv, Placed, FillNode
<1>3. PICK node \in Node : node = heap[cur_dev]
  BY <1>1, <1>2 DEF Heap
<1>4. PICK new : new = [node EXCEPT !.filled = TRUE]
  OBVIOUS
<1>5. new \in Node /\ new.slot = node.slot /\ new.device = node.device
  BY <1>4 DEF Node
<1>6. new # NULL
  BY <1>5, HidAssumption
<1>7. heap' = [heap EXCEPT ![cur_dev] = new]
  BY <1>3, <1>4 DEF FillNode
<1>8. heap'[cur_dev] = new /\ \A x \in Address : x # cur_dev => heap'[x] = heap[x]
  BY <1>1, <1>2, <1>7 DEF Heap
<1> QED BY <1>2, <1>3, <1>5, <1>6, <1>8 DEF live, Keeps

LEMMA TakeBackNodes ==
  ASSUME Inv, TakeBack
  PROVE  /\ cur_dev \in live /\ live' = live \ {cur_dev}
         /\ Keeps(heap, heap', live')
<1>1. heap \in Heap /\ LinkedIn(heap, order) /\ order \in Seq(Address)
  BY DEF Inv, TypeOK, Heap, Chain
<1>2. /\ order # <<>> /\ cur_dev = Last(order)
      /\ prev_dev = Last(SubSeq(order, 1, Len(order) - 1))
  BY DEF Inv, Placed, TakeBack
<1>3. cur_dev \in Address /\ heap[cur_dev] # NULL
  BY <1>2, LastIsLive
<1>4. PICK f : f = [heap EXCEPT ![cur_dev] = NULL]
  OBVIOUS
<1>5. f \in Heap /\ f[cur_dev] = NULL /\ \A x \in Address : x # cur_dev => f[x] = heap[x]
  BY <1>1, <1>3, <1>4 DEF Heap
<1>6. CASE prev_dev = NULL
  <2>1. heap' = f
    BY <1>4, <1>6 DEF TakeBack
  <2> QED BY <1>3, <1>5, <2>1 DEF live, Keeps
<1>7. CASE prev_dev # NULL
  <2>1. Points(f, heap', prev_dev, NULL)
    BY <1>4, <1>7 DEF TakeBack, Points
  <2>2. prev_dev \in Address /\ prev_dev # cur_dev /\ heap[prev_dev] # NULL
    <3>1. PICK k \in Nat \ {0} : k = Len(order)
      BY <1>1, <1>2, LengthOfSequence
    <3>2. PICK t : t = SubSeq(order, 1, Len(order) - 1)
      OBVIOUS
    <3>3. /\ t \in Seq(Address) /\ Len(t) = k - 1 /\ DOMAIN order = 1..k
          /\ \A n \in 1..k - 1 : t[n] = order[n]
      BY <1>1, <1>2, <3>1, <3>2, WithoutLast, LengthOfSequence
    <3>4. t # <<>>
      BY <1>2, <1>7, <3>2 DEF Last
    <3>5. k - 1 \in 1..k - 1 /\ k - 1 \in 1..k /\ k \in 1..k /\ k - 1 # k
      BY <3>3, <3>4, LengthOfSequence
    <3>6. prev_dev = order[k - 1] /\ cur_dev = order[k]
      BY <1>2, <3>1, <3>2, <3>3, <3>4, <3>5 DEF Last
    <3> QED BY <1>1, <3>1, <3>3, <3>5, <3>6, ElementOfSequence DEF LinkedIn
  <2>3. f[prev_dev] # NULL /\ f[prev_dev] = heap[prev_dev]
    BY <1>5, <2>2
  <2>4. NULL \in Address \cup {NULL}
    OBVIOUS
  <2>5. /\ heap'[prev_dev] # NULL
        /\ heap'[prev_dev].slot = f[prev_dev].slot /\ heap'[prev_dev].device = f[prev_dev].device
        /\ \A y \in Address : y # prev_dev => heap'[y] = f[y]
    BY <1>5, <2>1, <2>2, <2>3, <2>4, PointsKeeps
  <2>6. heap'[cur_dev] = NULL
    BY <1>3, <1>5, <2>2, <2>5
  <2>7. \A y \in Address : y # prev_dev /\ y # cur_dev => heap'[y] = heap[y]
    BY <1>5, <2>5
  <2> QED BY <1>3, <2>2, <2>3, <2>5, <2>6, <2>7 DEF live, Keeps
<1> QED BY <1>6, <1>7

LEMMA ReadUeventNodes ==
  ASSUME Inv, ReadUevent, Selected(kind[entry])
  PROVE  \E a \in Address \ live :
           /\ live' = live \cup {a} /\ Keeps(heap, heap', live)
           /\ heap'[a].slot = entry /\ heap'[a].device = kind[entry]
           /\ order' = Append(order, a) /\ cur_dev' = a
<1>1. heap \in Heap
  BY DEF Inv, TypeOK, Heap
<1>2. PICK node : node = [next |-> NULL, slot |-> entry, device |-> kind[entry],
                          filled |-> kind[entry].bus = BUS_BLUETOOTH]
  OBVIOUS
<1>3. PICK a \in Address \ live : Link(a, node) /\ cur_dev' = a /\ order' = Append(order, a)
  BY <1>2 DEF ReadUevent
<1>4. node \in Node /\ node # NULL
  <2>1. entry \in Slot /\ kind[entry] \in Kind
    BY DEF Inv, TypeOK, Fresh, ReadUevent, HasUevent
  <2>2. (kind[entry].bus = BUS_BLUETOOTH) \in BOOLEAN
    OBVIOUS
  <2>3. node \in Node
    BY <1>2, <2>1, <2>2 DEF Node
  <2> QED BY <2>3, HidAssumption
<1>5. heap'[a] = node /\ Keeps(heap, heap', live) /\ \A x \in Address \ live : x # a => heap'[x] = NULL
  <2>1. CASE cur_dev = NULL
    <3>1. heap' = [heap EXCEPT ![a] = node]
      BY <1>3, <2>1 DEF Link
    <3>2. heap'[a] = node /\ \A x \in Address : x # a => heap'[x] = heap[x]
      BY <1>1, <1>3, <3>1 DEF Heap
    <3> QED BY <1>3, <3>2 DEF live, Keeps
  <2>2. CASE cur_dev # NULL
    <3>1. PICK f : f = [heap EXCEPT ![cur_dev].next = a]
      OBVIOUS
    <3>2. cur_dev \in Address /\ heap[cur_dev] # NULL
      <4>1. cur_dev = Last(order)
        BY DEF Inv, Placed, ReadUevent
      <4>2. order # <<>>
        BY <2>2, <4>1 DEF Last
      <4> QED BY <4>1, <4>2, LastIsLive
    <3>3. a \in Address \cup {NULL}
      BY <1>3
    <3>4. /\ f \in Heap /\ f[cur_dev] # NULL
          /\ f[cur_dev].slot = heap[cur_dev].slot /\ f[cur_dev].device = heap[cur_dev].device
          /\ \A y \in Address : y # cur_dev => f[y] = heap[y]
      <4>1. Points(heap, f, cur_dev, a)
        BY <3>1 DEF Points
      <4> QED BY <1>1, <3>2, <3>3, <4>1, PointsKeeps
    <3>5. heap' = [f EXCEPT ![a] = node]
      BY <1>3, <2>2, <3>1 DEF Link
    <3>6. heap'[a] = node /\ \A x \in Address : x # a => heap'[x] = f[x]
      BY <1>3, <3>4, <3>5 DEF Heap
    <3>7. \A x \in Address : x # a /\ x # cur_dev => heap'[x] = heap[x]
      BY <3>4, <3>6
    <3>8. a # cur_dev /\ heap'[cur_dev] = f[cur_dev]
      BY <1>3, <3>2, <3>6 DEF live
    <3> QED BY <1>3, <3>2, <3>4, <3>6, <3>7, <3>8 DEF live, Keeps
  <2> QED BY <2>1, <2>2
<1>6. live' = live \cup {a}
  BY <1>3, <1>4, <1>5 DEF live, Keeps
<1>7. heap'[a].slot = entry /\ heap'[a].device = kind[entry]
  BY <1>2, <1>5
<1> QED BY <1>3, <1>5, <1>6, <1>7

-----------------------------------------------------------------------------
(* The facts of the list, step by step.                                    *)

LEMMA StartFacts ==
  ASSUME Inv, StartEnumeration
  PROVE  ListFacts'
<1>1. live' = {} /\ order' = <<>>
  <2>1. order = <<>> /\ LinkedIn(heap, order)
    BY DEF Inv, Placed, Chain, StartEnumeration
  <2> QED BY <2>1 DEF LinkedIn, live, StartEnumeration
<1>2. Increasing' /\ Described' /\ AllWanted' /\ Passed'
  BY <1>1 DEF Increasing, Described, AllWanted, Passed
<1>3. Ahead' /\ AllListed'
  <2>1. CASE todo' = present /\ stale' = {} /\ Goto("entry")
    BY <1>1, <2>1 DEF Ahead, AllListed, present, Goto, StartEnumeration
  <2>2. CASE todo' = {} /\ stale' = Slot /\ Goto("search")
    BY <1>1, <2>2 DEF Ahead, AllListed, present, Goto
  <2> QED BY <2>1, <2>2 DEF StartEnumeration
<1> QED BY <1>2, <1>3 DEF ListFacts

LEMMA NextEntryFacts ==
  ASSUME Inv, ListFacts, NEW n \in Slot, NextEntry(n)
  PROVE  ListFacts'
<1>1. /\ pc = "entry" /\ n \in todo /\ \A o \in todo : n <= o
      /\ todo' = todo \ {n} /\ entry' = n /\ call' = call
      /\ UNCHANGED <<heap, order, kind, stale>>
      /\ IF HasHidParent(n) THEN pc' = "uevent" ELSE pc' = "entry"
  BY DEF NextEntry, Goto, list, world
<1>2. live' = live /\ present' = present
  BY <1>1 DEF live, present
<1>3. \A o \in todo' : o \in todo /\ n < o
  <2>1. todo \subseteq Nat
    BY HidAssumption DEF Inv, TypeOK
  <2> QED BY <1>1, <2>1
<1>4. Increasing' /\ Described'
  BY <1>1, <1>2 DEF ListFacts, Increasing, Described
<1>5. pc' \in {"entry", "uevent"}
  BY <1>1
<1>6. AllWanted' /\ Passed'
  <2>1. \A device : Wants(device)' <=> Wants(device)
    BY <1>1 DEF Wants
  <2> QED BY <1>1, <1>2, <1>5, <2>1 DEF ListFacts, AllWanted, Passed, Wants
<1>7. Ahead'
  <2>1. \A a \in live : \A o \in todo : heap[a].slot < o
    BY <1>1 DEF ListFacts, Ahead
  <2> QED BY <1>1, <1>2, <1>3, <1>5, <2>1 DEF Ahead
<1>8. AllListed'
  <2>1. SUFFICES ASSUME NEW m \in present \ stale
                 PROVE  \/ m \in todo'
                        \/ m = entry' /\ pc' = "uevent"
                        \/ ~Wants(kind[m])
                        \/ \E a \in live : heap[a].slot = m
    BY <1>1, <1>2 DEF AllListed, Wants
  <2>2. m \in todo \/ ~Wants(kind[m]) \/ \E a \in live : heap[a].slot = m
    BY <1>1, <2>1 DEF ListFacts, AllListed
  <2>3. CASE m = n /\ ~HasHidParent(n)
    BY <2>1, <2>3 DEF HasHidParent, Wants, Complete
  <2> QED BY <1>1, <2>2, <2>3
<1> QED BY <1>4, <1>6, <1>7, <1>8 DEF ListFacts

(* What the caller wants is selected, and a Bluetooth device is wanted if  *)
(* it is selected; a USB device needs its USB parent, too.                 *)
LEMMA SelectedIsWanted ==
  ASSUME Inv, NEW device \in Kind, device.hid
  PROVE  /\ Wants(device) => Selected(device)
         /\ Selected(device) => device.bus \in {BUS_USB, BUS_BLUETOOTH}
         /\ Selected(device) /\ (device.bus = BUS_USB => device.usb) => Wants(device)
<1>1. call \in {"open", "list"} /\ device.vid \in Nat /\ device.pid \in Nat
  BY HidAssumption DEF Inv, TypeOK, KindOf
<1>2. CASE call = "open"
  BY <1>1, <1>2 DEF Wants, Complete, Selected, IdMatches, Wanted, Meter
<1>3. CASE call = "list"
  BY <1>1, <1>3 DEF Wants, Complete, Selected, IdMatches, Wanted
<1> QED BY <1>1, <1>2, <1>3

LEMMA NotSelectedFacts ==
  ASSUME Inv, ListFacts, ReadUevent, ~Selected(kind[entry])
  PROVE  ListFacts'
<1>1. /\ pc = "uevent" /\ pc' = "entry" /\ call' = call
      /\ UNCHANGED <<heap, order, todo, entry, kind, stale>>
      /\ HasUevent(entry)
  BY DEF ReadUevent, Goto, list, walk, world
<1>2. live' = live /\ present' = present
  BY <1>1 DEF live, present
<1>3. Increasing' /\ Described'
  BY <1>1, <1>2 DEF ListFacts, Increasing, Described
<1>4. AllWanted' /\ Passed'
  BY <1>1, <1>2 DEF ListFacts, AllWanted, Passed, Wants
<1>5. Ahead'
  BY <1>1, <1>2 DEF ListFacts, Ahead
<1>6. ~Wants(kind[entry])
  <2>1. kind[entry] \in Kind /\ kind[entry].hid
    BY <1>1 DEF Inv, TypeOK, Fresh, HasUevent
  <2> QED BY <2>1, SelectedIsWanted
<1>7. AllListed'
  BY <1>1, <1>2, <1>6 DEF ListFacts, AllListed, Wants
<1> QED BY <1>3, <1>4, <1>5, <1>7 DEF ListFacts

LEMMA SelectedFacts ==
  ASSUME Inv, Inv', ListFacts, ReadUevent, Selected(kind[entry])
  PROVE  ListFacts'
<1>1. PICK a \in Address \ live :
        /\ live' = live \cup {a} /\ Keeps(heap, heap', live)
        /\ heap'[a].slot = entry /\ heap'[a].device = kind[entry]
        /\ order' = Append(order, a) /\ cur_dev' = a
  BY ReadUeventNodes
<1>2. /\ pc = "uevent" /\ call' = call
      /\ UNCHANGED <<todo, entry, kind, stale>>
      /\ HasUevent(entry)
      /\ IF kind[entry].bus = BUS_USB THEN pc' = "usb_device" ELSE pc' = "entry"
  BY DEF ReadUevent, Goto, walk, world
<1>3. /\ entry \in Slot /\ entry \notin stale /\ kind[entry] \in Kind /\ kind[entry].hid
      /\ pc' \in {"entry", "usb_device"}
  BY <1>2 DEF Inv, TypeOK, Fresh, HasUevent
<1>4. /\ \A b \in live : heap[b].slot < entry /\ \A n \in todo : heap[b].slot < n
      /\ \A n \in todo : entry < n
  BY <1>2 DEF ListFacts, Ahead
<1>5. \A b \in live : heap'[b].slot = heap[b].slot /\ heap'[b].device = heap[b].device
  BY <1>1 DEF Keeps
<1>6. Increasing'
  <2>0. Len(order) \in Nat
    BY ListNodes DEF NodesOfList
  <2>1. PICK k \in Nat : k = Len(order)
    BY <2>0
  <2>2. /\ DOMAIN order = 1..k /\ DOMAIN order' = 1..k + 1 /\ order'[k + 1] = a
        /\ \A i \in 1..k : order'[i] = order[i] /\ order[i] \in live
    BY <1>1, <2>1, ListNodes, Appended DEF NodesOfList
  <2>3. SUFFICES ASSUME NEW i \in 1..k + 1, NEW j \in 1..k + 1, i < j
                 PROVE  heap'[order'[i]].slot < heap'[order'[j]].slot
    BY <2>2 DEF Increasing
  <2>4. i \in 1..k
    BY <2>3
  <2>5. CASE j = k + 1
    BY <1>1, <1>4, <1>5, <2>2, <2>4, <2>5
  <2>6. CASE j # k + 1
    <3>1. j \in 1..k
      BY <2>6
    <3> QED BY <1>5, <2>2, <2>3, <2>4, <3>1 DEF ListFacts, Increasing
  <2> QED BY <2>5, <2>6
<1>7. Ahead'
  BY <1>1, <1>2, <1>3, <1>4, <1>5 DEF Ahead
<1>8. Described'
  BY <1>1, <1>2, <1>5 DEF ListFacts, Described
<1>9. AllWanted'
  <2>1. \A b \in live : Wants(heap[b].device)
    BY <1>2 DEF ListFacts, AllWanted
  <2>2. Wants(kind[entry]) \/ (pc' = "usb_device" /\ Candidate(kind[entry]))
    <3>1. CASE kind[entry].bus = BUS_USB
      BY <1>2, <1>3, <3>1 DEF Candidate
    <3>2. CASE kind[entry].bus # BUS_USB
      BY <1>3, <3>2, SelectedIsWanted
    <3> QED BY <3>1, <3>2
  <2>3. Candidate(kind[entry])' <=> Candidate(kind[entry])
    BY <1>2 DEF Candidate, Selected, Wanted
  <2> QED BY <1>1, <1>2, <1>5, <2>1, <2>2 DEF AllWanted, Wants, Candidate, Selected, Wanted
<1>10. AllListed'
  <2>1. present' = present
    BY <1>2 DEF present
  <2>2. SUFFICES ASSUME NEW m \in present \ stale
                 PROVE  m \in todo \/ ~Wants(kind[m]) \/ \E b \in live' : heap'[b].slot = m
    BY <1>2, <2>1 DEF AllListed, Wants
  <2>3. m \in todo \/ m = entry \/ ~Wants(kind[m]) \/ \E b \in live : heap[b].slot = m
    BY <2>2 DEF ListFacts, AllListed
  <2> QED BY <1>1, <1>5, <2>3
<1>11. Passed'
  BY <1>3 DEF Passed
<1> QED BY <1>6, <1>7, <1>8, <1>9, <1>10, <1>11 DEF ListFacts

LEMMA FillNodeFacts ==
  ASSUME Inv, ListFacts, FillNode
  PROVE  ListFacts'
<1>1. live' = live /\ cur_dev \in live
  BY FillNodeNodes
<1>2. \A b \in live : heap'[b].slot = heap[b].slot /\ heap'[b].device = heap[b].device
  BY FillNodeNodes DEF Keeps
<1>3. /\ pc = "usb_device" /\ pc' = "entry" /\ call' = call
      /\ UNCHANGED <<order, todo, entry, kind, stale>>
      /\ HasUsbParent
  BY DEF FillNode, Goto, walk, world
<1>4. Increasing'
  BY <1>2, <1>3, ListNodes DEF NodesOfList, ListFacts, Increasing
<1>5. Ahead' /\ Described' /\ Passed'
  BY <1>1, <1>2, <1>3 DEF ListFacts, Ahead, Described, Passed
<1>6. Wants(heap[cur_dev].device)
  <2>1. heap[cur_dev].device = kind[entry] /\ kind[entry].usb
    BY <1>1, <1>3 DEF ListFacts, Ahead, Described, HasUsbParent
  <2>2. CASE Candidate(heap[cur_dev].device)
    <3>1. heap[cur_dev].device \in Kind
      BY <1>1, NodeTypes
    <3> QED BY <2>1, <2>2, <3>1, SelectedIsWanted DEF Candidate
  <2> QED BY <1>1, <2>2 DEF ListFacts, AllWanted
<1>7. AllWanted'
  BY <1>1, <1>2, <1>3, <1>6 DEF ListFacts, AllWanted, Wants
<1>8. AllListed'
  BY <1>1, <1>2, <1>3 DEF ListFacts, AllListed, Wants, present
<1> QED BY <1>4, <1>5, <1>7, <1>8 DEF ListFacts

LEMMA TakeBackFacts ==
  ASSUME Inv, Inv', ListFacts, TakeBack
  PROVE  ListFacts'
<1>1. live' = live \ {cur_dev} /\ cur_dev \in live
  BY TakeBackNodes
<1>2. \A b \in live' : b \in live /\ heap'[b].slot = heap[b].slot /\ heap'[b].device = heap[b].device
  BY TakeBackNodes DEF Keeps
<1>3. /\ pc = "usb_device" /\ pc' = "entry" /\ call' = call
      /\ UNCHANGED <<todo, entry, kind, stale>>
      /\ ~HasUsbParent
  BY DEF TakeBack, Goto, walk, world
<1>4. Increasing'
  <2>0. Len(order) \in Nat
    BY ListNodes DEF NodesOfList
  <2>1. PICK k \in Nat : k = Len(order)
    BY <2>0
  <2>2. order # <<>> /\ order' = SubSeq(order, 1, Len(order) - 1)
    BY DEF Inv, Placed, TakeBack
  <2>3. /\ DOMAIN order' = 1..k - 1 /\ DOMAIN order = 1..k
        /\ \A i \in 1..k - 1 : order'[i] = order[i]
    BY <2>1, <2>2, ListNodes, WithoutLast DEF NodesOfList
  <2>4. \A i \in 1..k - 1 : i \in 1..k
    OBVIOUS
  <2>5. NodesOfList'
    BY ListNodes, PTL
  <2> QED BY <1>2, <2>3, <2>4, <2>5 DEF NodesOfList, ListFacts, Increasing
<1>5. Ahead' /\ Described' /\ Passed'
  BY <1>1, <1>2, <1>3 DEF ListFacts, Ahead, Described, Passed
<1>6. AllWanted'
  BY <1>1, <1>2, <1>3 DEF ListFacts, AllWanted, Wants
<1>7. entry \notin stale => ~Wants(kind[entry])
  <2>1. SUFFICES ASSUME entry \notin stale PROVE ~Wants(kind[entry])
    OBVIOUS
  <2>2. kind[entry].bus = BUS_USB /\ ~kind[entry].usb
    BY <1>1, <1>3, <2>1 DEF ListFacts, Ahead, Described, HasUsbParent
  <2> QED BY <2>2 DEF Wants, Complete, BUS_USB, BUS_BLUETOOTH
<1>8. AllListed'
  <2>1. present' = present /\ heap[cur_dev].slot = entry
    BY <1>3 DEF present, ListFacts, Ahead
  <2>2. SUFFICES ASSUME NEW m \in present \ stale
                 PROVE  m \in todo \/ ~Wants(kind[m]) \/ \E b \in live' : heap'[b].slot = m
    BY <1>3, <2>1 DEF AllListed, Wants
  <2>3. m \in todo \/ ~Wants(kind[m]) \/ \E b \in live : heap[b].slot = m
    BY <1>3, <2>2 DEF ListFacts, AllListed
  <2>4. CASE m = entry
    BY <1>7, <2>2, <2>4
  <2> QED BY <1>1, <1>2, <2>1, <2>3, <2>4
<1> QED BY <1>4, <1>5, <1>6, <1>8 DEF ListFacts

(* The first node's slot is the lowest. *)
LEMMA EndFacts ==
  ASSUME Inv, ListFacts, EndEnumeration
  PROVE  ListFacts'
<1>1. /\ pc = "entry" /\ todo = {} /\ pc' = "search" /\ call' = call
      /\ UNCHANGED <<heap, order, todo, entry, kind, stale>>
      /\ cur_dev' = First(order)
  BY DEF Inv, Placed, EndEnumeration, Goto, walk, world
<1>2. live' = live /\ present' = present
  BY <1>1 DEF live, present
<1>3. Increasing' /\ Ahead' /\ Described' /\ AllWanted' /\ AllListed'
  <2>1. Increasing' /\ Described'
    BY <1>1, <1>2 DEF ListFacts, Increasing, Described
  <2>2. AllWanted' /\ AllListed'
    BY <1>1, <1>2 DEF ListFacts, AllWanted, AllListed, Wants
  <2> QED BY <1>1, <2>1, <2>2 DEF Ahead
<1>4. ASSUME NEW a \in live
      PROVE  cur_dev' # NULL /\ heap[cur_dev'].slot <= heap[a].slot
  <2>1. PICK i \in DOMAIN order : order[i] = a
    BY ListNodes DEF NodesOfList
  <2>2. i \in Nat /\ 1 <= i /\ 1 \in DOMAIN order /\ order # <<>>
    BY <2>1, ListNodes, LengthOfSequence DEF NodesOfList
  <2>3. cur_dev' = order[1] /\ order[1] \in live
    BY <1>1, <2>2, ListNodes DEF NodesOfList, First
  <2>4. heap[order[1]].slot \in Nat /\ heap[a].slot \in Nat /\ order[1] # NULL
    BY <2>3, NodeTypes
  <2>5. CASE i = 1
    BY <2>1, <2>3, <2>4, <2>5
  <2>6. CASE i # 1
    <3>1. 1 < i
      BY <2>2, <2>6
    <3>2. heap[order[1]].slot < heap[order[i]].slot
      BY <2>1, <2>2, <3>1 DEF ListFacts, Increasing
    <3> QED BY <2>1, <2>3, <2>4, <3>2
  <2> QED BY <2>5, <2>6
<1>5. Passed'
  BY <1>1, <1>2, <1>4 DEF Passed
<1> QED BY <1>3, <1>5 DEF ListFacts

(* The one passed was not the device to open, and the next one's slot is   *)
(* the lowest of those behind it.                                          *)
LEMMA SearchOnFacts ==
  ASSUME Inv, ListFacts, SearchOn
  PROVE  ListFacts'
<1>1. /\ pc = "search" /\ pc' = pc /\ call' = call /\ cur_dev # NULL
      /\ UNCHANGED <<heap, order, todo, entry, kind, stale, serial>>
      /\ cur_dev' = heap[cur_dev].next
      /\ call = "open" => ~IsTheOne(heap[cur_dev].device)
  BY DEF SearchOn, walk, world
<1>2. live' = live /\ present' = present
  BY <1>1 DEF live, present
<1>3. Increasing' /\ Ahead' /\ Described' /\ AllWanted' /\ AllListed'
  <2>1. Increasing' /\ Described'
    BY <1>1, <1>2 DEF ListFacts, Increasing, Described
  <2>2. AllWanted' /\ AllListed'
    BY <1>1, <1>2 DEF ListFacts, AllWanted, AllListed, Wants
  <2> QED BY <1>1, <2>1, <2>2 DEF ListFacts, Ahead
<1>4. ASSUME call = "open", NEW a \in live, IsTheOne(heap[a].device)
      PROVE  cur_dev' # NULL /\ heap[cur_dev'].slot <= heap[a].slot
  <2>0. Len(order) \in Nat
    BY ListNodes DEF NodesOfList
  <2>1. PICK n \in Nat : n = Len(order)
    BY <2>0
  <2>2. /\ DOMAIN order = 1..n
        /\ \A i \in 1..n : order[i] \in live
        /\ \A b \in live : \E i \in 1..n : order[i] = b
    BY <2>1, ListNodes DEF NodesOfList
  <2>3. cur_dev \in live
    BY <1>1 DEF Inv, Placed
  <2>4. PICK k \in 1..n : order[k] = cur_dev
    BY <2>2, <2>3
  <2>5. PICK j \in 1..n : order[j] = a
    BY <2>2
  <2>6. heap[cur_dev].slot <= heap[a].slot
    BY <1>1, <1>4 DEF ListFacts, Passed
  <2>7. j # k
    BY <1>1, <1>4, <2>4, <2>5
  <2>8. ~(j < k)
    <3>1. SUFFICES ASSUME j < k PROVE FALSE
      OBVIOUS
    <3>2. heap[a].slot < heap[cur_dev].slot
      BY <2>2, <2>4, <2>5, <3>1 DEF ListFacts, Increasing
    <3>3. heap[a].slot \in Nat /\ heap[cur_dev].slot \in Nat
      BY <2>3, NodeTypes
    <3> QED BY <2>6, <3>2, <3>3
  <2>9. k # n /\ k + 1 \in 1..n
    BY <2>7, <2>8
  <2>10. cur_dev' = order[k + 1]
    BY <1>1, <2>1, <2>2, <2>4, <2>9 DEF Inv, Chain, LinkedIn
  <2>11. order[k + 1] \in live
    BY <2>2, <2>9
  <2>12. cur_dev' # NULL /\ heap[order[k + 1]].slot \in Nat /\ heap[a].slot \in Nat
    BY <2>10, <2>11, NodeTypes
  <2>13. CASE j = k + 1
    BY <2>5, <2>10, <2>12, <2>13
  <2>14. CASE j # k + 1
    <3>1. k + 1 < j
      BY <2>7, <2>8, <2>14
    <3>2. heap[order[k + 1]].slot < heap[order[j]].slot
      BY <2>2, <2>9, <3>1 DEF ListFacts, Increasing
    <3> QED BY <2>5, <2>10, <2>12, <3>2
  <2> QED BY <2>13, <2>14
<1>5. Passed'
  <2>1. \A device : IsTheOne(device)' <=> IsTheOne(device)
    BY <1>1 DEF IsTheOne
  <2> QED BY <1>1, <1>2, <1>4 DEF Passed, IsTheOne
<1> QED BY <1>3, <1>5 DEF ListFacts

(* A device that comes or goes is one that was touched. *)
LEMMA WorldTouches ==
  ASSUME Inv, World
  PROVE  \E n \in Slot : /\ stale' = stale \cup {n}
                         /\ \A m \in Slot : m # n => kind'[m] = kind[m]
<1>1. PICK n \in Slot : /\ Unplug(n) \/ \E k \in Kind : Plug(n, k)
                        /\ stale' = stale \cup {n}
  BY DEF World
<1>2. \A m \in Slot : m # n => kind'[m] = kind[m]
  BY <1>1 DEF Inv, TypeOK, Unplug, Plug
<1> QED BY <1>1, <1>2

LEMMA WorldFacts ==
  ASSUME Inv, Listing, ListFacts, World
  PROVE  ListFacts'
<1>1. PICK n \in Slot : /\ stale' = stale \cup {n}
                        /\ \A m \in Slot : m # n => kind'[m] = kind[m]
  BY WorldTouches
<1>2. UNCHANGED <<pc, call, serial, heap, cur_dev, order, todo, entry>>
  BY DEF World, control, walk, list
<1>3. live' = live
  BY <1>2 DEF live
<1>4. Increasing' /\ Ahead'
  BY <1>2, <1>3 DEF ListFacts, Increasing, Ahead
<1>5. AllWanted' /\ Passed'
  <2>1. AllWanted'
    BY <1>2, <1>3 DEF ListFacts, AllWanted, Wants, Candidate, Selected, Wanted
  <2>2. Passed'
    BY <1>2, <1>3 DEF ListFacts, Passed, IsTheOne
  <2> QED BY <2>1, <2>2
<1>6. \A a \in live : heap[a].slot \in Slot
  BY NodeTypes
<1>7. Described'
  BY <1>1, <1>2, <1>3, <1>6 DEF ListFacts, Described
<1>8. \A m \in present' \ stale' : m \in present \ stale /\ kind'[m] = kind[m]
  BY <1>1 DEF present
<1>9. AllListed'
  BY <1>2, <1>3, <1>8 DEF ListFacts, AllListed, Wants
<1> QED BY <1>4, <1>5, <1>7, <1>9 DEF ListFacts

LEMMA ListFactsStep == Inv /\ Inv' /\ (Listing => ListFacts) /\ [Next]_vars => (Listing => ListFacts)'
<1> SUFFICES ASSUME Inv, Inv', Listing => ListFacts, [Next]_vars, Listing' PROVE ListFacts'
  OBVIOUS
<1>1. CASE StartEnumeration
  BY <1>1, StartFacts
<1>2. CASE \E n \in Slot : NextEntry(n)
  BY <1>2, NextEntryFacts DEF Listing, NextEntry
<1>3. CASE ReadUevent
  BY <1>3, SelectedFacts, NotSelectedFacts DEF Listing, ReadUevent
<1>4. CASE FillNode
  BY <1>4, FillNodeFacts DEF Listing, FillNode
<1>5. CASE TakeBack
  BY <1>5, TakeBackFacts DEF Listing, TakeBack
<1>6. CASE EndEnumeration
  BY <1>6, EndFacts DEF Listing, EndEnumeration
<1>7. CASE SearchOn
  BY <1>7, SearchOnFacts DEF Listing, SearchOn
<1>8. CASE World
  BY <1>8, WorldFacts DEF Listing, World, control
<1>9. CASE UeventGone \/ Found \/ NotFound \/ OpenPath \/ OpenNothing \/ FreeNode
  BY <1>9 DEF Listing, UeventGone, Found, NotFound, OpenPath, OpenNothing, FreeNode, Goto
<1>10. CASE EndFree \/ GiveUp \/ Close
  BY <1>10 DEF Listing, EndFree, GiveUp, Close, Goto
<1>11. CASE UNCHANGED vars
  <2>1. ListFacts /\ live' = live /\ present' = present
    BY <1>11 DEF Listing, vars, control, list, world, live, present
  <2>2. UNCHANGED <<pc, call, serial, heap, cur_dev, order, todo, entry, kind, stale>>
    BY <1>11 DEF vars, control, list, walk, world
  <2>3. Increasing' /\ Ahead' /\ Described'
    BY <2>1, <2>2 DEF ListFacts, Increasing, Ahead, Described
  <2>4. AllWanted' /\ AllListed'
    BY <2>1, <2>2 DEF ListFacts, AllWanted, AllListed, Wants, Candidate, Selected, Wanted
  <2>5. Passed'
    BY <2>1, <2>2 DEF ListFacts, Passed, IsTheOne
  <2> QED BY <2>3, <2>4, <2>5 DEF ListFacts
<1> QED BY <1>1, <1>2, <1>3, <1>4, <1>5, <1>6, <1>7, <1>8, <1>9, <1>10, <1>11 DEF Next, Program

-----------------------------------------------------------------------------
(* From the list to the device that is opened.                             *)

(* The search ends at the first device asked for. *)
LEMMA FoundIsRight ==
  ASSUME Inv, ListFacts, Found, path' # NULL
  PROVE  Right(heap[cur_dev].slot) /\ path' = heap[cur_dev].slot
<1>1. /\ pc = "search" /\ call = "open" /\ cur_dev \in live
      /\ IsTheOne(heap[cur_dev].device)
      /\ path' = heap[cur_dev].slot
  BY DEF Inv, Placed, Found
<1>2. PICK p : p = heap[cur_dev].slot
  OBVIOUS
<1>3. p \in Slot /\ heap[cur_dev].device \in Kind /\ heap[cur_dev].device # NULL
  BY <1>1, <1>2, NodeTypes
<1>4. ASSUME p \notin stale
      PROVE  p \in present /\ Asked(kind[p])
  <2>1. kind[p] = heap[cur_dev].device
    BY <1>1, <1>2, <1>4 DEF ListFacts, Described
  <2>2. Wants(heap[cur_dev].device)
    BY <1>1 DEF ListFacts, AllWanted
  <2>3. serial \in {NULL, heap[cur_dev].device.serial}
    BY <1>1 DEF IsTheOne
  <2>4. Complete(kind[p]) /\ kind[p].vid = 1 /\ kind[p].pid = 1
    BY <1>1, <2>1, <2>2 DEF Wants
  <2> QED BY <1>3, <2>1, <2>3, <2>4 DEF Asked, present
<1>5. ASSUME NEW n \in present \ stale, n < p, Asked(kind[n])
      PROVE  FALSE
  <2>1. Wants(kind[n])
    BY <1>5 DEF Asked, Wants
  <2>2. PICK a \in live : heap[a].slot = n
    BY <1>1, <2>1 DEF ListFacts, Ahead, AllListed
  <2>3. heap[a].device = kind[n]
    BY <2>2 DEF ListFacts, Described
  <2>4. IsTheOne(heap[a].device)
    BY <1>5, <2>3 DEF Asked, IsTheOne, Meter
  <2>5. p <= n
    BY <1>1, <1>2, <2>2, <2>4 DEF ListFacts, Passed
  <2>6. p \in Nat /\ n \in Nat
    BY <1>3, HidAssumption DEF present
  <2> QED BY <1>5, <2>5, <2>6
<1> QED BY <1>1, <1>2, <1>4, <1>5 DEF Right

(* What is right stays right while nothing is plugged in or out. *)
LEMMA SameWorldRight ==
  ASSUME NEW p, UNCHANGED <<kind, stale, serial>>, Right(p)
  PROVE  Right(p)'
BY DEF Right, present, Asked

(* What is plugged in or out was touched. *)
LEMMA WorldRight ==
  ASSUME Inv, World, NEW p \in Slot, Right(p)
  PROVE  Right(p)'
<1>1. PICK n \in Slot : /\ stale' = stale \cup {n}
                        /\ \A m \in Slot : m # n => kind'[m] = kind[m]
  BY WorldTouches
<1>2. serial' = serial
  BY DEF World, control
<1>3. \A m \in present' \ stale' : m \in present \ stale /\ kind'[m] = kind[m]
  BY <1>1 DEF present
<1>4. p \notin stale' => p \notin stale /\ kind'[p] = kind[p]
  BY <1>1
<1> QED BY <1>2, <1>3, <1>4 DEF Right, Asked, present

LEMMA OpenedStep ==
  Inv /\ (Listing => ListFacts) /\ OneOpen /\ Opened /\ [Next]_vars => Opened'
<1> SUFFICES ASSUME Inv, Listing => ListFacts, OneOpen, Opened, [Next]_vars PROVE Opened'
  OBVIOUS
<1>1. CASE Found
  <2>1. ListFacts /\ pc' = "hid_open_path" /\ UNCHANGED <<kind, stale, serial>>
    BY <1>1 DEF Found, Listing, Goto, world
  <2>2. path' # NULL => Right(heap[cur_dev].slot) /\ path' = heap[cur_dev].slot
    BY <1>1, <2>1, FoundIsRight
  <2>3. path' # NULL => Right(path)'
    <3>1. SUFFICES ASSUME path' # NULL PROVE Right(path)'
      OBVIOUS
    <3>2. PICK p : p = path'
      OBVIOUS
    <3>3. Right(p)
      BY <2>2, <3>1, <3>2
    <3>4. Right(p)'
      BY <2>1, <3>3, SameWorldRight
    <3> QED BY <3>2, <3>4 DEF Right
  <2> QED BY <2>1, <2>3 DEF Opened
<1>2. CASE OpenPath
  <2>1. PICK fd \in 0..3 : handle' = IF GoodHandle(fd) THEN [fd |-> fd, slot |-> path] ELSE NULL
    BY <1>2 DEF OpenPath
  <2>2. /\ pc = "hid_open_path" /\ path # NULL /\ pc' = "hid_free_enumeration"
        /\ UNCHANGED <<kind, stale, serial>>
    BY <1>2 DEF Inv, OpenPath, Goto, world
  <2>3. PICK p : p = path
    OBVIOUS
  <2>4. Right(p)
    BY <2>2, <2>3 DEF Opened
  <2>5. Right(p)'
    BY <2>2, <2>4, SameWorldRight
  <2>6. handle' # NULL => handle'.slot = p
    BY <2>1, <2>3
  <2> QED BY <2>2, <2>5, <2>6 DEF Opened, Right
<1>3. CASE NotFound \/ OpenNothing
  <2>1. pc' = "hid_free_enumeration" /\ handle' = NULL
    BY <1>3 DEF NotFound, OpenNothing, Goto, OneOpen, BeforeOpen, file
  <2> QED BY <2>1 DEF Opened
<1>4. CASE FreeNode \/ EndFree
  <2>1. /\ pc = "hid_free_enumeration" /\ pc' \in {"hid_free_enumeration", "run", "ended"}
        /\ UNCHANGED <<path, handle, kind, stale, serial>>
    BY <1>4 DEF FreeNode, EndFree, Goto, file, world
  <2> QED BY <2>1 DEF Opened, Right, present, Asked
<1>5. CASE World
  <2>1. UNCHANGED <<pc, path, handle>>
    BY <1>5 DEF World, control, file
  <2>2. path # NULL => path \in Slot
    BY DEF Inv, TypeOK
  <2>3. handle # NULL => handle.slot \in Slot
    BY DEF Inv, TypeOK
  <2>4. \A p \in Slot : Right(p) => Right(p)'
    BY <1>5, WorldRight
  <2>5. path # NULL /\ Right(path) => Right(path)'
    <3>1. SUFFICES ASSUME path # NULL, Right(path) PROVE Right(path)'
      OBVIOUS
    <3>2. PICK p \in Slot : p = path
      BY <2>2, <3>1
    <3>3. Right(p)'
      BY <2>4, <3>1, <3>2
    <3> QED BY <2>1, <3>2, <3>3 DEF Right
  <2>6. handle # NULL /\ Right(handle.slot) => Right(handle.slot)'
    <3>1. SUFFICES ASSUME handle # NULL, Right(handle.slot) PROVE Right(handle.slot)'
      OBVIOUS
    <3>2. PICK p \in Slot : p = handle.slot
      BY <2>3, <3>1
    <3>3. Right(p)'
      BY <2>4, <3>1, <3>2
    <3> QED BY <2>1, <3>2, <3>3 DEF Right
  <2> QED BY <2>1, <2>5, <2>6 DEF Opened
<1>6. CASE StartEnumeration \/ (\E n \in Slot : NextEntry(n)) \/ ReadUevent \/ UeventGone
  <2>1. pc' \in {"entry", "uevent", "usb_device", "search", "crashed"}
    BY <1>6 DEF StartEnumeration, NextEntry, ReadUevent, UeventGone, Goto
  <2> QED BY <2>1 DEF Opened
<1>7. CASE FillNode \/ TakeBack \/ EndEnumeration \/ SearchOn
  <2>1. pc' \in {"entry", "search"}
    BY <1>7 DEF FillNode, TakeBack, EndEnumeration, SearchOn, Goto
  <2> QED BY <2>1 DEF Opened
<1>8. CASE GiveUp \/ Close
  <2>1. pc' \in {"ended", "hid_enumerate"}
    BY <1>8 DEF GiveUp, Close, Goto
  <2> QED BY <2>1 DEF Opened
<1>9. CASE UNCHANGED vars
  <2>1. UNCHANGED <<pc, path, handle, kind, stale, serial>>
    BY <1>9 DEF vars, control, file, world
  <2> QED BY <2>1 DEF Opened, Right, present, Asked
<1> QED BY <1>1, <1>2, <1>3, <1>4, <1>5, <1>6, <1>7, <1>8, <1>9 DEF Next, Program

(* What has been established of the list and of the device, on top of the  *)
(* chain of nodes: inductive together with it.                             *)
THEOREM OpenInvariant == Spec => []OpenInv
<1>1. Init => OpenInv
  <2>1. Init => (Listing => ListFacts) /\ Opened
    BY DEF Init, Listing, Opened
  <2>2. Init => OneOpen /\ ParentWasThere
    BY DEF Init, OneOpen, BeforeOpen, ParentWasThere, CrashesOnlyOnUnplug
  <2> QED BY <2>1, <2>2, InvInit DEF OpenInv
<1>2. OpenInv /\ [Next]_vars => OpenInv'
  BY InvStep, ListFactsStep, OpenedStep, OneOpenStep, ParentStep DEF OpenInv
<1> QED BY <1>1, <1>2, PTL DEF Spec

(* However devices are plugged in and out while udev's list is walked: the *)
(* list hid_enumerate returns has every wanted device that nobody touched, *)
(* once, in udev's order, and no unwanted one of those.                    *)
THEOREM ListedExactly == Spec => []ListIsExact
<1>1. OpenInv => ListIsExact
  <2> SUFFICES ASSUME OpenInv, pc = "search" PROVE ListIsExact
    BY DEF ListIsExact
  <2>1. ListFacts /\ Inv
    BY DEF OpenInv, Listing
  <2>2. DOMAIN Listed = DOMAIN order /\ \A i \in DOMAIN order : Listed[i] = heap[order[i]].slot
    BY DEF Listed
  <2>3. \A i, j \in DOMAIN Listed : i < j => Listed[i] < Listed[j]
    BY <2>1, <2>2 DEF ListFacts, Increasing
  <2>4. /\ \A i \in DOMAIN order : order[i] \in live
        /\ \A a \in live : \E i \in DOMAIN order : order[i] = a
    BY <2>1, ListNodes DEF NodesOfList
  <2>5. ASSUME NEW n \in Slot \ stale, NEW i \in DOMAIN Listed, Listed[i] = n
        PROVE  n \in present /\ Wants(kind[n])
    <3>1. PICK a \in live : a = order[i] /\ heap[a].slot = n
      BY <2>2, <2>4, <2>5
    <3>2. kind[n] = heap[a].device /\ heap[a].device # NULL
      BY <2>1, <3>1, NodeTypes DEF ListFacts, Described
    <3>3. Wants(heap[a].device)
      BY <2>1 DEF ListFacts, AllWanted
    <3> QED BY <3>2, <3>3 DEF present
  <2>6. ASSUME NEW n \in Slot \ stale, n \in present, Wants(kind[n])
        PROVE  \E i \in DOMAIN Listed : Listed[i] = n
    <3>1. PICK a \in live : heap[a].slot = n
      BY <2>1, <2>6 DEF ListFacts, Ahead, AllListed
    <3>2. PICK i \in DOMAIN order : order[i] = a
      BY <2>4
    <3> QED BY <2>2, <3>1, <3>2
  <2> QED BY <2>3, <2>5, <2>6 DEF ListIsExact
<1> QED BY <1>1, OpenInvariant, PTL

(* The device hid_open has opened is the first one in udev's order that    *)
(* was asked for, unless somebody plugged or unplugged one on the way: the *)
(* path of a list entry is enough to find the device again.                *)
THEOREM OpensTheListed == Spec => []OpensWhatWasListed
<1>1. OpenInv => OpensWhatWasListed
  BY DEF OpenInv, Opened, Right, OpensWhatWasListed
<1> QED BY <1>1, OpenInvariant, PTL
=============================================================================
