------------------------- MODULE CommandLineProofs -------------------------
(***************************************************************************)
(* Theorems of CommandLine, which is ByteSource behind main: for any       *)
(* command line, any number of bytes in reports of any size, any queue,    *)
(* and signals, unplugging and failed transfers at any step.               *)
(***************************************************************************)
EXTENDS CommandLine, FiniteSetTheorems, TLAPS

-----------------------------------------------------------------------------
(* The inductive invariant.                                                *)

Early == {"main", "processFile", "processUSB", "setupSIGINTHandler", "hid_open"}
AfterOpen == {"setupUart", "enableUart", "loop", "poll", "notify", "disableUart",
              "cleanup"}
Switched == {"loop", "poll", "notify", "disableUart", "cleanup", "ended"}

(* What is true at each place of the program. *)
Control ==
  /\ pc = "ended" <=> status # "none"
  /\ pc \in {"main", "processFile", "processUSB"} => order = <<>>
  /\ pc \in {"setupSIGINTHandler", "hid_open"} \cup AfterOpen => order \in Orders
  /\ pc \in {"hid_open"} \cup AfterOpen => handler
  /\ pc \in {"disableUart", "cleanup"} => killed
  /\ pc = "notify" => i < count
  /\ pc \notin {"notify", "ended"} => sink = 1
  /\ order = <<>> => sink = 1

(* Until the meter is open nothing has been read, given or printed. *)
Untouched ==
  /\ pc \in Early => ~uart /\ complaints = {} /\ taken = <<>>
                     /\ given = [s \in {"parser", "dump"} |-> <<>>]
  /\ order = <<>> => given = [s \in {"parser", "dump"} |-> <<>>]

(* The sinks behind the one notifyAllByteSinks is at have been given what  *)
(* the last one has, those before it one byte more.                        *)
InStep ==
  \A n \in DOMAIN order :
    given[order[n]] = IF n < sink
                      THEN Append(given[order[Len(order)]], ByteAt(i + 1))
                      ELSE given[order[Len(order)]]

(* A sink has the first bytes of those that were read, and at each place   *)
(* of the program how many of them.                                        *)
Follows(s) ==
  /\ Len(given[s]) <= Len(taken)
  /\ \A k \in 1..Len(given[s]) : given[s][k] = taken[k]

InHand ==
  /\ count = Len(data) /\ Len(data) <= Len(taken)
  /\ \A k \in 1..Len(data) : taken[Len(taken) - Len(data) + k] = data[k]
  /\ \A n \in DOMAIN order :
       Len(given[order[n]]) =
         Len(taken) - Len(data) + i + (IF n < sink THEN 1 ELSE 0)

Forwarding ==
  "numUartRxBytes" \notin complaints =>
    /\ \A s \in Sinks : Follows(s)
    /\ pc \notin {"notify", "ended"} => \A s \in Sinks : Len(given[s]) = Len(taken)
    /\ pc = "notify" => InHand

(* The bytes read, those in the queue and those the meter has sent follow  *)
(* each other in this order.                                               *)
TakenIncrease == \A k, l \in 1..Len(taken) : k < l => taken[k] < taken[l]

QueueIncreases ==
  /\ \A q \in 1..Len(queue) : \A k, l \in 1..Len(queue[q]) :
       k < l => queue[q][k] < queue[q][l]
  /\ \A q, r \in 1..Len(queue) :
       q < r => \A k \in 1..Len(queue[q]) : \A l \in 1..Len(queue[r]) :
                  queue[q][k] < queue[r][l]

TakenBeforeQueue ==
  \A k \in 1..Len(taken) : \A q \in 1..Len(queue) : \A l \in 1..Len(queue[q]) :
    taken[k] < queue[q][l]

SentBefore ==
  /\ \A k \in 1..Len(taken) : taken[k] <= produced
  /\ \A q \in 1..Len(queue) : \A k \in 1..Len(queue[q]) :
       queue[q][k] <= produced

Accounted(b) ==
  \/ b \in dropped
  \/ \E k \in 1..Len(taken) : taken[k] = b
  \/ \E q \in 1..Len(queue) : \E l \in 1..Len(queue[q]) : queue[q][l] = b

Numbered ==
  /\ TakenIncrease /\ QueueIncreases /\ TakenBeforeQueue /\ SentBefore
  /\ \A b \in 1..produced : Accounted(b)

(* The UART is on only where run is going to switch it off, and how the    *)
(* program ended tells what was switched on.                               *)
Switch ==
  /\ uart => pc \in Switched /\ order # <<>>
  /\ pc = "cleanup" /\ uart => "disable" \in complaints
  /\ UartIsOffAtTheEnd
  /\ ReturnsAfterCtrlC

(* The dump: main does not want one itself, and once closed it is complete. *)
Closed ==
  /\ pc \in {"main", "processFile"} => ~binaryDumpFile
  /\ DumpIsComplete

(* What has been read of the command line. *)
Obeyed ==
  /\ argv \in Seq(Words) /\ args \subseteq Words /\ asked \subseteq Words
  /\ pc = "main" => /\ args \subseteq {"dumpbinary", "parsebinary", "help", "operand"}
                    /\ asked = args \cup ({argv[n] : n \in DOMAIN argv} \ {"verbose"})
  /\ pc = "processFile" =>
       "parsebinary" \in asked /\ asked \cap {"?", "l", "operand", "help"} = {}
  /\ pc \in {"processUSB", "setupSIGINTHandler", "hid_open"} \cup AfterOpen =>
       asked \subseteq {"dumpbinary"} /\ (binaryDumpFile <=> "dumpbinary" \in asked)
  /\ CommandLineIsObeyed

(* All of it. *)
Inv ==
  /\ TypeOK /\ Control /\ Untouched /\ InStep /\ Switch /\ Closed /\ Obeyed
  /\ Numbered /\ Forwarding

-----------------------------------------------------------------------------
(* Sequences.                                                              *)

LEMMA ElementOfSequence ==
  ASSUME NEW S, NEW s \in Seq(S), NEW n \in 1..Len(s)
  PROVE  s[n] \in S
OBVIOUS

LEMMA LengthOfSequence ==
  ASSUME NEW S, NEW s \in Seq(S)
  PROVE  Len(s) \in Nat /\ DOMAIN s = 1..Len(s) /\ (s = <<>> <=> Len(s) = 0)
OBVIOUS

LEMMA Appended ==
  ASSUME NEW S, NEW s \in Seq(S), NEW a \in S
  PROVE  /\ Append(s, a) \in Seq(S)
         /\ Len(Append(s, a)) = Len(s) + 1
         /\ Append(s, a)[Len(s) + 1] = a
         /\ \A n \in 1..Len(s) : Append(s, a)[n] = s[n]
OBVIOUS

LEMMA WithoutFirst ==
  ASSUME NEW S, NEW s \in Seq(S), s # <<>>
  PROVE  /\ Head(s) \in S /\ Head(s) = s[1]
         /\ Tail(s) \in Seq(S)
         /\ Len(Tail(s)) = Len(s) - 1
         /\ \A n \in 1..Len(s) - 1 : Tail(s)[n] = s[n + 1]
OBVIOUS

LEMMA Concatenated ==
  ASSUME NEW S, NEW s \in Seq(S), NEW t \in Seq(S)
  PROVE  /\ s \o t \in Seq(S)
         /\ Len(s \o t) = Len(s) + Len(t)
         /\ \A n \in 1..Len(s) : (s \o t)[n] = s[n]
         /\ \A n \in 1..Len(t) : (s \o t)[Len(s) + n] = t[n]
OBVIOUS

(* The words of a line are its first one and those of the rest.            *)
LEMMA HeadAndTail ==
  ASSUME NEW s \in Seq(Words), s # <<>>
  PROVE  {s[n] : n \in DOMAIN s} = {Head(s)} \cup {Tail(s)[n] : n \in DOMAIN Tail(s)}
<1>0. PICK h, t : h = Head(s) /\ t = Tail(s)
  OBVIOUS
<1>1. PICK k \in Nat \ {0} : k = Len(s)
  OBVIOUS
<1>2. DOMAIN t = 1..k - 1 /\ \A n \in 1..k - 1 : t[n] = s[n + 1]
  BY <1>0, <1>1
<1>3. h = s[1] /\ DOMAIN s = 1..k
  BY <1>0, <1>1
<1>4. \A n \in 1..k : n = 1 \/ (n - 1 \in 1..k - 1 /\ t[n - 1] = s[n])
  BY <1>2
<1>5. \A n \in 1..k : s[n] = h \/ \E m \in 1..k - 1 : t[m] = s[n]
  BY <1>3, <1>4
<1>6. 1 \in 1..k /\ \A n \in 1..k - 1 : n + 1 \in 1..k
  OBVIOUS
<1>7. {s[n] : n \in 1..k} \subseteq {h} \cup {t[n] : n \in 1..k - 1}
  BY <1>5
<1>8. {h} \cup {t[n] : n \in 1..k - 1} \subseteq {s[n] : n \in 1..k}
  BY <1>2, <1>3, <1>6
<1>9. {s[n] : n \in DOMAIN s} = {h} \cup {t[n] : n \in DOMAIN t}
  BY <1>2, <1>3, <1>7, <1>8
<1> QED BY <1>0, <1>9

-----------------------------------------------------------------------------
(* The sinks.                                                              *)

LEMMA SinkCount ==
  ASSUME binaryDumpFile \in BOOLEAN
  PROVE  Cardinality(Sinks) = IF binaryDumpFile THEN 2 ELSE 1
<1>1. Cardinality({"parser"}) = 1 /\ IsFiniteSet({"parser"})
  BY FS_Singleton
<1>2. Cardinality({"parser"} \cup {"dump"}) = 2
  BY <1>1, FS_AddElement, "dump" \notin {"parser"}
<1>3. {"parser"} \cup {"dump"} = {"parser", "dump"}
  OBVIOUS
<1> QED BY <1>1, <1>2, <1>3 DEF Sinks

LEMMA SameSinks ==
  UNCHANGED binaryDumpFile => Sinks' = Sinks /\ Orders' = Orders
BY DEF Sinks, Orders

(* An order has each sink once.                                            *)
LEMMA OrderOfSinks ==
  ASSUME binaryDumpFile \in BOOLEAN, NEW o \in Orders
  PROVE  /\ Len(o) = Cardinality(Sinks) /\ DOMAIN o = 1..Len(o) /\ Len(o) \in {1, 2}
         /\ o # <<>>
         /\ \A n \in 1..Len(o) : o[n] \in Sinks
         /\ \A m, n \in 1..Len(o) : o[m] = o[n] => m = n
         /\ \A s \in Sinks : \E n \in 1..Len(o) : o[n] = s
<1>1. CASE binaryDumpFile
  <2>1. Cardinality(Sinks) = 2 /\ Sinks = {"parser", "dump"}
    BY <1>1, SinkCount DEF Sinks
  <2>2. o \in [1..2 -> {"parser", "dump"}] /\ \A s \in {"parser", "dump"} : \E n \in 1..2 : o[n] = s
    BY <2>1 DEF Orders
  <2>3. Len(o) = 2 /\ DOMAIN o = 1..2 /\ o # <<>>
    BY <2>2
  <2>4. o[1] # o[2]
    BY <2>2
  <2>5. \A m, n \in 1..2 : o[m] = o[n] => m = n
    BY <2>4
  <2> QED BY <2>1, <2>2, <2>3, <2>5
<1>2. CASE ~binaryDumpFile
  <2>1. Cardinality(Sinks) = 1 /\ Sinks = {"parser"}
    BY <1>2, SinkCount DEF Sinks
  <2>2. o \in [1..1 -> {"parser"}]
    BY <2>1 DEF Orders
  <2>3. Len(o) = 1 /\ DOMAIN o = 1..1 /\ o # <<>>
    BY <2>2
  <2> QED BY <2>1, <2>2, <2>3
<1> QED BY <1>1, <1>2

-----------------------------------------------------------------------------
(* Types, and the places of the program.                                   *)

LEMMA ByteHasType ==
  ASSUME TypeOK, NEW k \in Nat \ {0}
  PROVE  ByteAt(k) \in Bytes
<1>1. 0 \in Bytes
  BY ConstantsAssumption DEF Bytes
<1>2. k <= Len(data) => data[k] \in Bytes
  BY ElementOfSequence DEF TypeOK
<1> QED BY <1>1, <1>2 DEF ByteAt, Garbage

LEMMA TypeInit == MainInit => TypeOK /\ Control
<1> SUFFICES ASSUME MainInit PROVE TypeOK /\ Control
  OBVIOUS
<1>1. Cardinality(Sinks) = 1
  BY SinkCount DEF MainInit
<1>2. 0 \in Bytes
  BY ConstantsAssumption DEF Bytes
<1>3. given \in [{"parser", "dump"} -> Seq(Bytes)]
  BY DEF MainInit, Init
<1>4. Len(queue) <= QueueSize
  BY ConstantsAssumption DEF MainInit, Init
<1>5. count \in 0..MaxLength
  BY ConstantsAssumption DEF MainInit, Init
<1>6. /\ data \in Seq(Bytes) /\ taken \in Seq(Bytes)
      /\ queue \in Seq(Seq(Bytes))
  BY DEF MainInit, Init
<1>7. pc \in Labels /\ binaryDumpFile \in BOOLEAN /\ order \in Orders \cup {<<>>}
  BY DEF MainInit, Init, Labels
<1>8. i \in 0..count /\ sink \in 1..Cardinality(Sinks) /\ flushed \in Nat /\ produced \in Bytes
  BY <1>1, <1>2 DEF MainInit, Init
<1>9. TypeOK
  BY <1>3, <1>4, <1>5, <1>6, <1>7, <1>8 DEF MainInit, Init, TypeOK
<1> QED BY <1>9 DEF MainInit, Init, Control, AfterOpen

LEMMA TypeMain ==
  TypeOK /\ Control /\ main => TypeOK' /\ Control'
<1> SUFFICES ASSUME TypeOK, Control, main PROVE TypeOK' /\ Control'
  OBVIOUS
<1>1. CASE getopt_long
  <2>1. /\ pc = "main"
        /\ \/ pc' = "main" /\ status' = status
           \/ pc' = "ended" /\ status' = "1"
    BY <1>1 DEF getopt_long, option, badOption, operand, Read, End
  <2>2. UNCHANGED binaryDumpFile
    BY <1>1 DEF getopt_long
  <2>3. TypeOK'
    BY <2>1, <2>2, SameSinks DEF TypeOK, main, signals, inHand, meter, disk, Labels
  <2>4. Control'
    BY <2>1, <2>2, SameSinks DEF TypeOK, Control, main, signals, inHand, meter, disk, AfterOpen
  <2> QED BY <2>3, <2>4
<1>2. CASE dispatch
  <2>1. /\ pc = "main"
        /\ \/ pc' \in {"processFile", "processUSB"} /\ status' = status
           \/ pc' = "ended" /\ status' \in {"0", "1"}
    BY <1>2 DEF dispatch, Goto, End
  <2>2. order = <<>> /\ sink = 1 /\ UNCHANGED <<order, sink>>
    BY <2>1 DEF Control, main, inHand
  <2>3. binaryDumpFile' \in BOOLEAN
    BY <1>2 DEF dispatch
  <2>4. Cardinality(Sinks') \in {1, 2}
    <3>1. CASE binaryDumpFile' = TRUE
      <4>1. Sinks' = {"parser", "dump"}
        BY <3>1 DEF Sinks
      <4>2. Cardinality({"parser", "dump"}) = 2
        <5>1. Cardinality({"parser"}) = 1 /\ IsFiniteSet({"parser"})
          BY FS_Singleton
        <5>2. Cardinality({"parser"} \cup {"dump"}) = 2
          BY <5>1, FS_AddElement, "dump" \notin {"parser"}
        <5>3. {"parser"} \cup {"dump"} = {"parser", "dump"}
          OBVIOUS
        <5> QED BY <5>2, <5>3
      <4> QED BY <4>1, <4>2
    <3>2. CASE binaryDumpFile' = FALSE
      BY <3>2, FS_Singleton DEF Sinks
    <3> QED BY <2>3, <3>1, <3>2
  <2>5. TypeOK'
    BY <2>1, <2>2, <2>3, <2>4 DEF TypeOK, main, signals, inHand, meter, disk, Labels
  <2>6. Control'
    BY <2>1, <2>2, <2>3 DEF TypeOK, Control, main, signals, inHand, meter, disk, AfterOpen
  <2> QED BY <2>5, <2>6
<1>3. CASE processFile
  <2>1. pc = "processFile" /\ pc' = "ended" /\ status' \in {"0", "SIGSEGV"}
    BY <1>3 DEF processFile, End
  <2>2. UNCHANGED binaryDumpFile
    BY <1>3 DEF processFile
  <2>3. TypeOK'
    BY <2>1, <2>2, SameSinks DEF TypeOK, main, signals, inHand, meter, disk, Labels
  <2>4. Control'
    BY <2>1, <2>2, SameSinks DEF TypeOK, Control, main, signals, inHand, meter, disk, AfterOpen
  <2> QED BY <2>3, <2>4
<1> QED BY <1>1, <1>2, <1>3 DEF main

LEMMA TypeStart ==
  TypeOK /\ Control /\ (processUSB \/ setupSIGINTHandler \/ hid_open \/ setupUart \/ enableUart)
    => TypeOK' /\ Control'
<1> SUFFICES ASSUME TypeOK, Control,
                    processUSB \/ setupSIGINTHandler \/ hid_open \/ setupUart \/ enableUart
             PROVE  TypeOK' /\ Control'
  OBVIOUS
<1>1. ASSUME processUSB PROVE TypeOK' /\ Control'
  <2>1. /\ pc = "processUSB"
        /\ \/ order' \in Orders /\ pc' = "setupSIGINTHandler" /\ status' = status
           \/ order' = order /\ pc' = "ended" /\ status' = "exception"
    BY <1>1 DEF processUSB, Goto, End
  <2>2. UNCHANGED <<binaryDumpFile, signals, inHand, meter, disk, given, complaints>>
    BY <1>1 DEF processUSB
  <2>3. TypeOK'
    BY <2>1, <2>2, SameSinks DEF TypeOK, signals, inHand, meter, disk, Labels
  <2>4. Control'
    BY <2>1, <2>2, SameSinks DEF TypeOK, Control, signals, inHand, meter, disk, AfterOpen
  <2> QED BY <2>3, <2>4
<1>2. ASSUME setupSIGINTHandler PROVE TypeOK' /\ Control'
  <2>1. pc = "setupSIGINTHandler" /\ pc' = "hid_open" /\ status' = status /\ handler' = TRUE
    BY <1>2 DEF setupSIGINTHandler, Goto
  <2>2. UNCHANGED <<inHand, meter, disk, killed, sourceVars, given, complaints>>
    BY <1>2 DEF setupSIGINTHandler
  <2>3. TypeOK'
    BY <2>1, <2>2, SameSinks DEF TypeOK, sourceVars, inHand, meter, disk, Labels
  <2>4. Control'
    BY <2>1, <2>2, SameSinks DEF TypeOK, Control, sourceVars, inHand, meter, disk, AfterOpen
  <2> QED BY <2>3, <2>4
<1>3. ASSUME hid_open PROVE TypeOK' /\ Control'
  <2>1. /\ pc = "hid_open"
        /\ \/ pc' = "setupUart" /\ status' = status
           \/ pc' = "ended" /\ status' \in {"1", "SIGSEGV"}
    BY <1>3 DEF hid_open, Goto, End
  <2>2. UNCHANGED <<signals, inHand, meter, disk, sourceVars, given, complaints>>
    BY <1>3 DEF hid_open
  <2>3. TypeOK'
    BY <2>1, <2>2, SameSinks DEF TypeOK, sourceVars, signals, inHand, meter, disk, Labels
  <2>4. Control'
    BY <2>1, <2>2, SameSinks
       DEF TypeOK, Control, sourceVars, signals, inHand, meter, disk, AfterOpen
  <2> QED BY <2>3, <2>4
<1>4. ASSUME setupUart PROVE TypeOK' /\ Control'
  <2>1. /\ pc = "setupUart" /\ pc' = "enableUart" /\ status' = status
        /\ configured' \in BOOLEAN
        /\ complaints' \subseteq complaints \cup {"setup"}
    BY <1>4 DEF setupUart, Goto, TypeOK
  <2>2. UNCHANGED <<signals, inHand, disk, sourceVars, given, plugged, uart, queue,
                    produced, dropped>>
    BY <1>4 DEF setupUart
  <2>3. TypeOK'
    BY <2>1, <2>2, SameSinks DEF TypeOK, sourceVars, signals, inHand, disk, Labels
  <2>4. Control'
    BY <2>1, <2>2, SameSinks DEF TypeOK, Control, sourceVars, signals, inHand, AfterOpen
  <2> QED BY <2>3, <2>4
<1>5. ASSUME enableUart PROVE TypeOK' /\ Control'
  <2>1. /\ pc = "enableUart" /\ pc' = "loop" /\ status' = status
        /\ uart' \in BOOLEAN
        /\ complaints' \subseteq complaints \cup {"enable"}
    BY <1>5 DEF enableUart, SetUart, Goto, TypeOK
  <2>2. UNCHANGED <<signals, inHand, disk, sourceVars, given, plugged, configured, queue,
                    produced, dropped>>
    BY <1>5 DEF enableUart, SetUart
  <2>3. TypeOK'
    BY <2>1, <2>2, SameSinks DEF TypeOK, sourceVars, signals, inHand, disk, Labels
  <2>4. Control'
    BY <2>1, <2>2, SameSinks DEF TypeOK, Control, sourceVars, signals, inHand, AfterOpen
  <2> QED BY <2>3, <2>4
<1> QED BY <1>1, <1>2, <1>3, <1>4, <1>5

LEMMA TypeRead ==
  TypeOK /\ Control /\ (loop \/ readReport \/ readTimedOut \/ readFailed)
    => TypeOK' /\ Control'
<1> SUFFICES ASSUME TypeOK, Control, loop \/ readReport \/ readTimedOut \/ readFailed
             PROVE  TypeOK' /\ Control'
  OBVIOUS
<1>1. ASSUME loop PROVE TypeOK' /\ Control'
  <2>1. /\ pc = "loop" /\ status' = status
        /\ \/ killed /\ pc' = "disableUart"
           \/ pc' = "poll"
        /\ data' = <<>> /\ count' = 0 /\ i' = 0 /\ sink' = 1
    BY <1>1 DEF loop, Goto
  <2>2. UNCHANGED <<signals, taken, meter, disk, sourceVars, given, complaints>>
    BY <1>1 DEF loop
  <2>3. data' \in Seq(Bytes) /\ count' \in 0..MaxLength /\ i' \in 0..count'
    BY <2>1, ConstantsAssumption
  <2>4. sink' \in 1..Cardinality(Sinks)
    BY <2>1, SinkCount DEF TypeOK
  <2>5. TypeOK'
    BY <2>1, <2>2, <2>3, <2>4, SameSinks DEF TypeOK, sourceVars, signals, disk, meter, Labels
  <2>6. Control'
    BY <2>1, <2>2, SameSinks DEF TypeOK, Control, sourceVars, signals, AfterOpen
  <2> QED BY <2>5, <2>6
<1>2. ASSUME readReport PROVE TypeOK' /\ Control'
  <2>1. PICK r : r = Head(queue)
    OBVIOUS
  <2>2. /\ pc = "poll" /\ queue # <<>> /\ status' = status
        /\ data' = r /\ count' \in 0..MaxLength /\ taken' = taken \o r
        /\ pc' = "loop" \/ (pc' = "notify" /\ count' > 0)
        /\ complaints' \subseteq complaints \cup {"numUartRxBytes"}
        /\ queue' = Tail(queue) /\ i' = 0 /\ sink' = 1
    BY <1>2, <2>1, ConstantsAssumption DEF readReport, Goto
  <2>3. UNCHANGED <<signals, disk, sourceVars, given, plugged, configured, uart,
                    produced, dropped>>
    BY <1>2 DEF readReport
  <2>4. r \in Seq(Bytes)
    BY <2>1, <2>2, WithoutFirst DEF TypeOK
  <2>5. data' \in Seq(Bytes) /\ count' \in 0..MaxLength /\ i' \in 0..count'
    BY <2>2, <2>4
  <2>6. taken' \in Seq(Bytes)
    BY <2>2, <2>4, Concatenated DEF TypeOK
  <2>7. /\ queue' \in Seq(Seq(Bytes))
        /\ Len(queue') <= QueueSize
    <3>1. queue' \in Seq(Seq(Bytes))
          /\ Len(queue') = Len(queue) - 1
      BY <2>2, WithoutFirst DEF TypeOK
    <3>2. Len(queue) \in Nat /\ Len(queue) <= QueueSize
      BY LengthOfSequence DEF TypeOK
    <3> QED BY <3>1, <3>2, ConstantsAssumption
  <2>8. sink' \in 1..Cardinality(Sinks)
    BY <2>2, SinkCount DEF TypeOK
  <2>9. pc' = "notify" => i' < count'
    BY <2>2, <2>4
  <2>10. TypeOK'
    BY <2>2, <2>3, <2>5, <2>6, <2>7, <2>8, SameSinks
       DEF TypeOK, sourceVars, signals, disk, Labels
  <2>11. Control'
    BY <2>2, <2>3, <2>9, SameSinks DEF TypeOK, Control, sourceVars, signals, AfterOpen
  <2> QED BY <2>10, <2>11
<1>3. ASSUME readTimedOut \/ readFailed PROVE TypeOK' /\ Control'
  <2>1. /\ pc = "poll" /\ pc' = "loop" /\ status' = status
        /\ complaints' \subseteq complaints \cup {"hid_read_timeout"}
    BY <1>3 DEF readTimedOut, readFailed, Goto
  <2>2. UNCHANGED <<signals, inHand, meter, disk, sourceVars, given>>
    BY <1>3 DEF readTimedOut, readFailed
  <2>3. TypeOK'
    BY <2>1, <2>2, SameSinks DEF TypeOK, sourceVars, signals, inHand, meter, disk, Labels
  <2>4. Control'
    BY <2>1, <2>2, SameSinks DEF TypeOK, Control, sourceVars, signals, inHand, AfterOpen
  <2> QED BY <2>3, <2>4
<1> QED BY <1>1, <1>2, <1>3

(* What notifyAllByteSinks does in one step.                               *)
LEMMA NotifyStep ==
  ASSUME TypeOK, Control, notify
  PROVE  /\ pc = "notify" /\ status' = status
         /\ order \in Orders /\ sink \in 1..Len(order) /\ order[sink] \in Sinks
         /\ order[sink] \in {"parser", "dump"}
         /\ ByteAt(i + 1) \in Bytes
         /\ i \in Nat /\ i < count /\ count \in Nat
         /\ given' = [given EXCEPT ![order[sink]] = Append(given[order[sink]], ByteAt(i + 1))]
         /\ \/ sink < Len(order) /\ sink' = sink + 1 /\ i' = i /\ pc' = "notify"
            \/ /\ sink = Len(order) /\ sink' = 1 /\ i' = i + 1
               /\ \/ pc' = "notify" /\ i + 1 < count
                  \/ pc' = "loop" /\ i + 1 = count
         /\ UNCHANGED <<signals, meter, sourceVars, data, count, complaints, taken, diskFull>>
<1>1. /\ pc = "notify"
      /\ given' = [given EXCEPT ![order[sink]] = Append(given[order[sink]], ByteAt(i + 1))]
      /\ UNCHANGED <<signals, meter, sourceVars, data, count, complaints, taken, diskFull>>
  BY DEF notify
<1>2. order \in Orders /\ i < count
  BY <1>1 DEF Control, AfterOpen
<1>3. i \in Nat /\ count \in Nat
  BY ConstantsAssumption DEF TypeOK
<1>4. Len(order) = Cardinality(Sinks) /\ sink \in 1..Len(order)
  BY <1>2, OrderOfSinks DEF TypeOK
<1>5. order[sink] \in Sinks
  BY <1>2, <1>4, OrderOfSinks DEF TypeOK
<1>6. Sinks \subseteq {"parser", "dump"}
  BY DEF Sinks
<1>7. ByteAt(i + 1) \in Bytes
  BY <1>3, ByteHasType
<1>8. status' = status
  BY DEF notify, Goto
<1>9. Len(order) \in Nat
  BY <1>2, OrderOfSinks DEF TypeOK
<1>10. \/ sink < Len(order) /\ sink' = sink + 1 /\ i' = i /\ pc' = "notify"
       \/ /\ sink = Len(order) /\ sink' = 1 /\ i' = i + 1
          /\ \/ pc' = "notify" /\ i + 1 < count
             \/ pc' = "loop" /\ i + 1 = count
  <2>1. CASE MoreSinks
    BY <2>1 DEF notify, MoreSinks, Goto
  <2>2. CASE ~MoreSinks
    <3>1. sink = Len(order)
      BY <2>2, <1>4, <1>9 DEF MoreSinks
    <3>2. ~MoreBytes => i + 1 = count
      BY <1>2, <1>3 DEF MoreBytes
    <3>3. MoreBytes => i + 1 < count
      BY DEF MoreBytes
    <3> QED BY <2>2, <3>1, <3>2, <3>3 DEF notify, Goto
  <2> QED BY <2>1, <2>2
<1> QED BY <1>1, <1>2, <1>3, <1>4, <1>5, <1>6, <1>7, <1>8, <1>10

LEMMA TypeNotify ==
  TypeOK /\ Control /\ notify => TypeOK' /\ Control'
<1> SUFFICES ASSUME TypeOK, Control, notify PROVE TypeOK' /\ Control'
  OBVIOUS
<1>1. Append(given[order[sink]], ByteAt(i + 1)) \in Seq(Bytes)
  BY NotifyStep, Appended DEF TypeOK
<1>2. given' \in [{"parser", "dump"} -> Seq(Bytes)]
  BY <1>1, NotifyStep DEF TypeOK
<1>3. flushed' \in Nat
  <2>1. flushed' = flushed \/ flushed' = Len(given'["dump"])
    BY DEF notify
  <2>2. given'["dump"] \in Seq(Bytes)
    BY <1>2
  <2>3. Len(given'["dump"]) \in Nat
    BY <2>2
  <2> QED BY <2>1, <2>3 DEF TypeOK
<1>4. Sinks' = Sinks /\ Orders' = Orders /\ binaryDumpFile' = binaryDumpFile /\ order' = order
  BY NotifyStep, SameSinks DEF sourceVars
<1>5. sink' \in 1..Cardinality(Sinks)
  <2>1. /\ Len(order) = Cardinality(Sinks) /\ Len(order) \in Nat
        /\ sink \in Nat /\ sink \in 1..Len(order)
    BY NotifyStep, OrderOfSinks DEF TypeOK
  <2> QED BY <2>1, NotifyStep
<1>6. i' \in 0..count /\ (pc' = "notify" => i' < count)
  BY NotifyStep
<1>7. pc' \in {"notify", "loop"}
  BY NotifyStep
<1>8. UNCHANGED <<signals, meter, data, count, complaints, taken, diskFull, status>>
  BY NotifyStep
<1>9. TypeOK'
  BY <1>2, <1>3, <1>4, <1>5, <1>6, <1>7, <1>8 DEF TypeOK, signals, meter, Labels
<1>10. Control'
  <2>1. pc = "notify" /\ order \in Orders /\ order # <<>> /\ (pc' = "loop" => sink' = 1)
    BY NotifyStep, OrderOfSinks DEF TypeOK
  <2> QED BY <1>4, <1>6, <1>7, <1>8, <2>1 DEF Control, signals, AfterOpen
<1> QED BY <1>9, <1>10

LEMMA TypeEnd ==
  TypeOK /\ Control /\ (disableUart \/ cleanup) => TypeOK' /\ Control'
<1> SUFFICES ASSUME TypeOK, Control, disableUart \/ cleanup PROVE TypeOK' /\ Control'
  OBVIOUS
<1>1. ASSUME disableUart PROVE TypeOK' /\ Control'
  <2>1. /\ pc = "disableUart" /\ pc' = "cleanup" /\ status' = status
        /\ uart' \in BOOLEAN
        /\ complaints' \subseteq complaints \cup {"disable"}
    BY <1>1 DEF disableUart, SetUart, Goto, TypeOK
  <2>2. UNCHANGED <<signals, inHand, disk, sourceVars, given, plugged, configured, queue,
                    produced, dropped>>
    BY <1>1 DEF disableUart, SetUart
  <2>3. TypeOK'
    BY <2>1, <2>2, SameSinks DEF TypeOK, sourceVars, signals, inHand, disk, Labels
  <2>4. Control'
    BY <2>1, <2>2, SameSinks DEF TypeOK, Control, sourceVars, signals, inHand, AfterOpen
  <2> QED BY <2>3, <2>4
<1>2. ASSUME cleanup PROVE TypeOK' /\ Control'
  <2>1. pc = "cleanup" /\ pc' = "ended" /\ status' = "0"
    BY <1>2 DEF cleanup, End
  <2>2. UNCHANGED <<signals, inHand, meter, sourceVars, given, complaints, diskFull>>
    BY <1>2 DEF cleanup
  <2>3. flushed' \in Nat
    <3>1. Len(given["dump"]) \in Nat
      BY LengthOfSequence DEF TypeOK
    <3> QED BY <1>2, <3>1 DEF cleanup, TypeOK
  <2>4. TypeOK'
    BY <2>1, <2>2, <2>3, SameSinks DEF TypeOK, sourceVars, signals, inHand, meter, Labels
  <2>5. Control'
    BY <2>1, <2>2, SameSinks DEF TypeOK, Control, sourceVars, signals, inHand, AfterOpen
  <2> QED BY <2>4, <2>5
<1> QED BY <1>1, <1>2

(* A report of the meter: its bytes are the next ones, and it waits in the *)
(* queue or is dropped.                                                    *)
LEMMA ReportStep ==
  ASSUME TypeOK, NEW size \in 0..ReportSize, Report(size)
  PROVE  \E payload \in Seq(Bytes) :
           /\ Len(payload) = size
           /\ \A k \in 1..size : payload[k] = produced + k
           /\ \/ /\ Len(queue) < QueueSize
                 /\ queue' = Append(queue, payload)
                 /\ dropped' = dropped
              \/ /\ dropped' = dropped \cup {payload[k] : k \in 1..size}
                 /\ queue' = queue
           /\ produced' = produced + size /\ produced' \in Bytes
<1>1. PICK payload : payload = [k \in 1..size |-> produced + k]
  OBVIOUS
<1>2. size \in Nat /\ produced \in Nat /\ ReportSize \in Nat /\ MaxBytes \in Nat
  BY ConstantsAssumption DEF TypeOK, Bytes
<1>3. produced + size <= MaxBytes /\ produced' = produced + size
  BY DEF Report
<1>4. \A k \in 1..size : produced + k \in Bytes
  BY <1>2, <1>3 DEF Bytes
<1>5. payload \in Seq(Bytes) /\ Len(payload) = size
  BY <1>1, <1>2, <1>4
<1>6. produced' \in Bytes
  BY <1>2, <1>3 DEF Bytes
<1>7. \A k \in 1..size : payload[k] = produced + k
  BY <1>1
<1>8. \/ /\ Len(queue) < QueueSize
         /\ queue' = Append(queue, payload)
         /\ dropped' = dropped
      \/ /\ dropped' = dropped \cup {payload[k] : k \in 1..size}
         /\ queue' = queue
  BY <1>1, Zenon DEF Report
<1> QED BY <1>3, <1>5, <1>6, <1>7, <1>8

LEMMA TypeWorld ==
  TypeOK /\ Control /\ World => TypeOK' /\ Control'
<1> SUFFICES ASSUME TypeOK, Control, World PROVE TypeOK' /\ Control'
  OBVIOUS
<1>1. ASSUME sigint PROVE TypeOK' /\ Control'
  <2>1. /\ pc # "ended"
        /\ \/ pc' = "ended" /\ status' = "SIGINT" /\ killed' = killed
           \/ /\ pc' = pc \/ (pc = "poll" /\ pc' = "loop")
              /\ killed' = TRUE /\ status' = status
        /\ complaints' \subseteq complaints \cup {"hid_read_timeout"}
    BY <1>1 DEF sigint, Running, End
  <2>2. UNCHANGED <<inHand, meter, disk, handler, sourceVars, given>>
    BY <1>1 DEF sigint
  <2>3. TypeOK'
    BY <2>1, <2>2, SameSinks DEF TypeOK, sourceVars, inHand, meter, disk, Labels
  <2>4. Control'
    BY <2>1, <2>2, SameSinks DEF TypeOK, Control, sourceVars, inHand, AfterOpen
  <2> QED BY <2>3, <2>4
<1>2. ASSUME sigterm PROVE TypeOK' /\ Control'
  <2>1. pc' = "ended" /\ status' = "SIGTERM"
    BY <1>2 DEF sigterm, End
  <2>2. UNCHANGED <<signals, inHand, meter, disk, sourceVars, given, complaints>>
    BY <1>2 DEF sigterm
  <2>3. TypeOK'
    BY <2>1, <2>2, SameSinks DEF TypeOK, signals, sourceVars, inHand, meter, disk, Labels
  <2>4. Control'
    BY <2>1, <2>2, SameSinks DEF TypeOK, Control, signals, sourceVars, inHand, AfterOpen
  <2> QED BY <2>3, <2>4
<1>3. ASSUME report PROVE TypeOK' /\ Control'
  <2>1. PICK size \in 0..ReportSize : Report(size)
    BY <1>3 DEF report
  <2>2. UNCHANGED <<signals, inHand, disk, pc, status, sourceVars, given, complaints,
                    plugged, configured, uart>>
    BY <2>1 DEF Report
  <2>3. PICK payload \in Seq(Bytes) :
          /\ \/ /\ Len(queue) < QueueSize
                /\ queue' = Append(queue, payload)
                /\ dropped' = dropped
             \/ /\ dropped' = dropped \cup {payload[k] : k \in 1..size}
                /\ queue' = queue
          /\ Len(payload) = size /\ produced' \in Bytes
    BY <2>1, ReportStep
  <2>4. dropped' \subseteq Bytes
    <3>1. \A k \in 1..size : payload[k] \in Bytes
      BY <2>3, ElementOfSequence
    <3> QED BY <2>3, <3>1 DEF TypeOK
  <2>5. /\ queue' \in Seq(Seq(Bytes))
        /\ Len(queue') <= QueueSize
    <3>1. CASE queue' = queue
      BY <3>1 DEF TypeOK
    <3>2. CASE /\ Len(queue) < QueueSize
               /\ queue' = Append(queue, payload)
      <4>1. /\ queue' \in Seq(Seq(Bytes))
            /\ Len(queue') = Len(queue) + 1
        BY <2>3, <3>2, Appended DEF TypeOK
      <4>2. Len(queue) \in Nat /\ QueueSize \in Nat
        BY LengthOfSequence, ConstantsAssumption DEF TypeOK
      <4> QED BY <3>2, <4>1, <4>2
    <3> QED BY <2>3, <3>1, <3>2
  <2>6. TypeOK'
    BY <2>2, <2>3, <2>4, <2>5, SameSinks DEF TypeOK, signals, sourceVars, inHand, disk
  <2>7. Control'
    BY <2>2, SameSinks DEF Control, signals, sourceVars, inHand, AfterOpen
  <2> QED BY <2>6, <2>7
<1>4. ASSUME unplug PROVE TypeOK' /\ Control'
  <2>1. plugged' = FALSE /\ uart' = FALSE /\ configured' = FALSE
    BY <1>4 DEF unplug
  <2>2. UNCHANGED <<signals, inHand, disk, pc, status, sourceVars, given, complaints,
                    queue, produced, dropped>>
    BY <1>4 DEF unplug
  <2>3. TypeOK'
    BY <2>1, <2>2, SameSinks DEF TypeOK, signals, sourceVars, inHand, disk
  <2>4. Control'
    BY <2>2, SameSinks DEF Control, signals, sourceVars, inHand, AfterOpen
  <2> QED BY <2>3, <2>4
<1> QED BY <1>1, <1>2, <1>3, <1>4 DEF World

LEMMA TypeStutter ==
  TypeOK /\ Control /\ UNCHANGED vars => TypeOK' /\ Control'
BY SameSinks DEF TypeOK, Control, vars, signals, sourceVars, inHand, meter, disk, AfterOpen

LEMMA TypeStep ==
  TypeOK /\ Control /\ [ProgramNext]_programVars => TypeOK' /\ Control'
<1> SUFFICES ASSUME TypeOK, Control, [ProgramNext]_programVars PROVE TypeOK' /\ Control'
  OBVIOUS
<1> QED BY TypeMain, TypeStart, TypeRead, TypeNotify, TypeEnd, TypeWorld, TypeStutter
        DEF ProgramNext, Program, Process, programVars

-----------------------------------------------------------------------------
(* Before the meter is open.                                               *)

(* What a step does to the variables that stay as they are until then.     *)
EarlyChange ==
  /\ order' = <<>> => order = <<>>
  /\ notify \/ given' = given
  /\ pc' \in Early => /\ pc \in Early /\ (uart' => uart)
                      /\ complaints' = complaints /\ taken' = taken /\ given' = given

LEMMA EarlyStep ==
  ASSUME TypeOK, Control, [ProgramNext]_programVars
  PROVE  EarlyChange
<1>1. ASSUME main PROVE EarlyChange
  <2>1. pc \in Early /\ UNCHANGED <<order, given, uart, complaints, taken>>
    BY <1>1 DEF main, getopt_long, option, badOption, operand, Read, dispatch, processFile,
                Early, meter, inHand
  <2> QED BY <1>1, <2>1 DEF EarlyChange
<1>2. ASSUME processUSB PROVE EarlyChange
  <2>1. /\ pc \in Early /\ (order' = <<>> => order = <<>>)
        /\ UNCHANGED <<given, uart, complaints, taken>>
    BY <1>2 DEF processUSB, Control, Early, meter, inHand
  <2> QED BY <1>2, <2>1 DEF EarlyChange
<1>3. ASSUME setupSIGINTHandler \/ hid_open PROVE EarlyChange
  <2>1. pc \in Early /\ UNCHANGED <<order, given, uart, complaints, taken>>
    BY <1>3 DEF setupSIGINTHandler, hid_open, Early, meter, inHand, sourceVars
  <2> QED BY <1>3, <2>1 DEF EarlyChange
<1>4. ASSUME setupUart \/ enableUart \/ disableUart PROVE EarlyChange
  <2>1. pc' \notin Early /\ UNCHANGED <<order, given>>
    BY <1>4 DEF setupUart, enableUart, disableUart, SetUart, Goto, sourceVars, Early
  <2> QED BY <1>4, <2>1 DEF EarlyChange
<1>5. ASSUME loop PROVE EarlyChange
  <2>1. pc' \notin Early /\ UNCHANGED <<order, given>>
    BY <1>5 DEF loop, Goto, Early, sourceVars
  <2> QED BY <1>5, <2>1 DEF EarlyChange
<1>6. ASSUME readReport PROVE EarlyChange
  <2>1. pc' \in {"notify", "loop"} /\ UNCHANGED <<order, given>>
    BY <1>6 DEF readReport, Goto, sourceVars
  <2>2. pc' \notin Early
    BY <2>1 DEF Early
  <2> QED BY <2>1, <2>2 DEF EarlyChange
<1>7. ASSUME readTimedOut \/ readFailed PROVE EarlyChange
  <2>1. pc' \notin Early /\ UNCHANGED <<order, given>>
    BY <1>7 DEF readTimedOut, readFailed, Goto, Early, sourceVars
  <2> QED BY <1>7, <2>1 DEF EarlyChange
<1>8. ASSUME notify PROVE EarlyChange
  <2>1. pc' \notin Early /\ UNCHANGED order
    BY <1>8, NotifyStep DEF Early, sourceVars
  <2> QED BY <1>8, <2>1 DEF EarlyChange
<1>9. ASSUME cleanup PROVE EarlyChange
  <2>1. pc' \notin Early /\ UNCHANGED <<order, given>>
    BY <1>9 DEF cleanup, End, Early, sourceVars
  <2> QED BY <1>9, <2>1 DEF EarlyChange
<1>10. ASSUME sigint PROVE EarlyChange
  <2>1. /\ UNCHANGED <<order, given, uart, taken>>
        /\ pc' \in Early => pc \in Early /\ complaints' = complaints
    BY <1>10 DEF sigint, End, Early, sourceVars, meter, inHand
  <2> QED BY <1>10, <2>1 DEF EarlyChange
<1>11. ASSUME sigterm PROVE EarlyChange
  <2>1. pc' \notin Early /\ UNCHANGED <<order, given>>
    BY <1>11 DEF sigterm, End, Early, sourceVars
  <2> QED BY <1>11, <2>1 DEF EarlyChange
<1>12. ASSUME report PROVE EarlyChange
  <2>1. UNCHANGED <<pc, order, given, uart, complaints, taken>>
    BY <1>12 DEF report, Report, sourceVars, inHand
  <2> QED BY <1>12, <2>1 DEF EarlyChange
<1>13. ASSUME unplug PROVE EarlyChange
  <2>1. uart' = FALSE /\ UNCHANGED <<pc, order, given, complaints, taken>>
    BY <1>13 DEF unplug, sourceVars, inHand
  <2> QED BY <1>13, <2>1 DEF EarlyChange
<1>14. ASSUME UNCHANGED programVars PROVE EarlyChange
  <2>1. UNCHANGED <<pc, order, given, uart, complaints, taken>>
    BY <1>14 DEF programVars, vars, sourceVars, inHand, meter
  <2> QED BY <1>14, <2>1 DEF EarlyChange
<1> QED BY <1>1, <1>2, <1>3, <1>4, <1>5, <1>6, <1>7, <1>8, <1>9, <1>10, <1>11, <1>12,
           <1>13, <1>14 DEF ProgramNext, Program, Process, World

LEMMA UntouchedStep ==
  TypeOK /\ Control /\ Untouched /\ [ProgramNext]_programVars => Untouched'
<1> SUFFICES ASSUME TypeOK, Control, Untouched, [ProgramNext]_programVars PROVE Untouched'
  OBVIOUS
<1>1. order = <<>> => ~notify
  BY NotifyStep, OrderOfSinks DEF TypeOK
<1> QED BY <1>1, EarlyStep DEF EarlyChange, Untouched

-----------------------------------------------------------------------------
(* The sinks keep step.                                                    *)

LEMMA InStepInit == MainInit => InStep
BY DEF MainInit, Init, InStep

(* What a step does to what the sinks have been given.                     *)
LEMMA StepOfSinks ==
  ASSUME TypeOK, Control, Untouched, [ProgramNext]_programVars
  PROVE  \/ notify
         \/ UNCHANGED <<given, order, sink, i, data>>
         \/ sink = 1 /\ sink' = 1 /\ UNCHANGED <<given, order>>
         \/ /\ order' \in Orders /\ UNCHANGED <<given, sink, binaryDumpFile>> /\ sink = 1
            /\ given = [s \in {"parser", "dump"} |-> <<>>]
<1>1. ASSUME main PROVE UNCHANGED <<given, order, sink, i, data>>
  BY <1>1 DEF main, inHand
<1>2. ASSUME processUSB
      PROVE  \/ UNCHANGED <<given, order, sink, i, data>>
             \/ /\ order' \in Orders /\ UNCHANGED <<given, sink, binaryDumpFile>> /\ sink = 1
                /\ given = [s \in {"parser", "dump"} |-> <<>>]
  BY <1>2 DEF processUSB, Control, Untouched, Early, inHand
<1>3. ASSUME setupSIGINTHandler \/ hid_open \/ setupUart \/ enableUart \/ readTimedOut
                \/ readFailed \/ disableUart \/ cleanup
      PROVE  UNCHANGED <<given, order, sink, i, data>>
  BY <1>3 DEF setupSIGINTHandler, hid_open, setupUart, enableUart, readTimedOut, readFailed,
              disableUart, SetUart, cleanup, inHand, sourceVars
<1>4. ASSUME loop \/ readReport
      PROVE  sink = 1 /\ sink' = 1 /\ UNCHANGED <<given, order>>
  BY <1>4 DEF loop, readReport, Control, sourceVars
<1>5. ASSUME World PROVE UNCHANGED <<given, order, sink, i, data>>
  BY <1>5 DEF World, sigint, sigterm, report, Report, unplug, inHand, sourceVars
<1>6. ASSUME UNCHANGED programVars PROVE UNCHANGED <<given, order, sink, i, data>>
  BY <1>6 DEF programVars, vars, inHand, sourceVars
<1> QED BY <1>1, <1>2, <1>3, <1>4, <1>5, <1>6 DEF ProgramNext, Program, Process

LEMMA InStepStep ==
  TypeOK /\ Control /\ Untouched /\ InStep /\ [ProgramNext]_programVars => InStep'
<1> SUFFICES ASSUME TypeOK, Control, Untouched, InStep, [ProgramNext]_programVars
             PROVE  InStep'
  OBVIOUS
<1>1. CASE UNCHANGED <<given, order, sink, i, data>>
  BY <1>1 DEF InStep, ByteAt
<1>2. CASE sink = 1 /\ sink' = 1 /\ UNCHANGED <<given, order>>
  <2>1. ASSUME NEW n \in DOMAIN order PROVE given[order[n]] = given[order[Len(order)]]
    <3>1. DOMAIN order \subseteq Nat \ {0}
      BY OrderOfSinks DEF TypeOK
    <3> QED BY <1>2, <3>1 DEF InStep
  <2>2. \A n \in DOMAIN order : ~(n < 1)
    BY OrderOfSinks DEF TypeOK
  <2> QED BY <1>2, <2>1, <2>2 DEF InStep
<1>3. CASE /\ order' \in Orders /\ UNCHANGED <<given, sink, binaryDumpFile>> /\ sink = 1
           /\ given = [s \in {"parser", "dump"} |-> <<>>]
  <2>1. PICK o \in Orders : o = order'
    BY <1>3
  <2>2. /\ DOMAIN o = 1..Len(o) /\ Len(o) \in {1, 2}
        /\ \A n \in 1..Len(o) : o[n] \in Sinks
    BY OrderOfSinks DEF TypeOK
  <2>3. \A n \in 1..Len(o) : given[o[n]] = <<>> /\ ~(n < 1)
    BY <1>3, <2>2 DEF Sinks
  <2>4. Len(o) \in 1..Len(o)
    BY <2>2
  <2> QED BY <1>3, <2>1, <2>2, <2>3, <2>4 DEF InStep
<1>4. CASE notify
  <2>0. PICK G, x : G = given[order[Len(order)]] /\ x = ByteAt(i + 1)
    OBVIOUS
  <2>1. PICK m \in 1..2 : G = given[order[m]] /\ x = ByteAt(i + 1) /\ m = Len(order)
    <3>1. order \in Orders /\ binaryDumpFile \in BOOLEAN
      BY <1>4, NotifyStep DEF TypeOK
    <3>2. Len(order) \in 1..2
      BY <3>1, OrderOfSinks
    <3> QED BY <2>0, <3>2
  <2>2. /\ DOMAIN order = 1..m /\ sink \in 1..m
        /\ \A n \in 1..m : order[n] \in {"parser", "dump"}
        /\ \A n \in 1..m : order[n] = order[sink] => n = sink
        /\ order[m] = order[sink] => m = sink
    <3>1. Sinks \subseteq {"parser", "dump"}
      BY DEF Sinks
    <3>2. order \in Orders /\ binaryDumpFile \in BOOLEAN /\ sink \in 1..Len(order)
      BY <1>4, NotifyStep DEF TypeOK
    <3>3. /\ DOMAIN order = 1..Len(order)
          /\ \A n \in 1..Len(order) : order[n] \in Sinks
          /\ \A l, n \in 1..Len(order) : order[l] = order[n] => l = n
      BY <3>2, OrderOfSinks
    <3>4. m \in 1..m
      OBVIOUS
    <3> QED BY <2>1, <3>1, <3>2, <3>3, <3>4
  <2>3. \A n \in 1..m : given[order[n]] = IF n < sink THEN Append(G, x) ELSE G
    BY <2>1, <2>2 DEF InStep
  <2>4. given' = [given EXCEPT ![order[sink]] = Append(given[order[sink]], x)]
    BY <1>4, <2>1, NotifyStep
  <2>5. given[order[sink]] = G
    BY <2>2, <2>3
  <2>6. \A n \in 1..m : given'[order[n]] = IF n = sink THEN Append(G, x) ELSE given[order[n]]
    BY <2>2, <2>4, <2>5 DEF TypeOK
  <2>7. order' = order /\ data' = data
    BY <1>4, NotifyStep DEF sourceVars
  <2>8. CASE sink < m /\ sink' = sink + 1 /\ i' = i
    <3>1. given'[order[m]] = G
      BY <2>2, <2>3, <2>6, <2>8
    <3>2. \A n \in 1..m : given'[order[n]] = IF n < sink' THEN Append(G, x) ELSE G
      BY <2>2, <2>3, <2>6, <2>8
    <3>3. x = ByteAt(i + 1)'
      BY <2>1, <2>7, <2>8 DEF ByteAt
    <3> QED BY <2>1, <2>2, <2>7, <3>1, <3>2, <3>3 DEF InStep
  <2>9. CASE sink = m /\ sink' = 1
    <3>1. ASSUME NEW n \in 1..m PROVE given'[order[n]] = Append(G, x) /\ ~(n < 1)
      <4>1. n = sink \/ (n < sink /\ n # sink)
        BY <2>9
      <4>2. ~(n < 1)
        OBVIOUS
      <4> QED BY <2>3, <2>6, <4>1, <4>2
    <3> QED BY <2>1, <2>2, <2>7, <2>9, <3>1 DEF InStep
  <2> QED BY <1>4, <2>1, <2>8, <2>9, NotifyStep
<1> QED BY <1>1, <1>2, <1>3, <1>4, StepOfSinks

LEMMA PrefixOfLonger ==
  ASSUME NEW S, NEW s \in Seq(S), NEW t \in Seq(S)
  PROVE  Len(s) <= Len(t) /\ (\A k \in 1..Len(s) : s[k] = t[k]) => Prefix(s, t)
<1> SUFFICES ASSUME Len(s) <= Len(t), \A k \in 1..Len(s) : s[k] = t[k] PROVE Prefix(s, t)
  OBVIOUS
<1>1. PICK k, l \in Nat : k = Len(s) /\ l = Len(t)
  OBVIOUS
<1>2. PICK u : u = SubSeq(t, 1, k)
  OBVIOUS
<1>3. u = [n \in 1..k |-> t[n]]
  BY <1>1, <1>2
<1>4. s = [n \in 1..k |-> s[n]]
  BY <1>1
<1>5. \A n \in 1..k : s[n] = t[n]
  BY <1>1
<1>6. u = s
  BY <1>3, <1>4, <1>5
<1> QED BY <1>1, <1>2, <1>6 DEF Prefix

LEMMA Agreement ==
  TypeOK /\ Control /\ Untouched /\ InStep => SinksAgree
<1> SUFFICES ASSUME TypeOK, Control, Untouched, InStep, NEW s \in Sinks, NEW t \in Sinks
             PROVE  /\ Len(given[s]) <= Len(given[t]) =>
                         Prefix(given[s], given[t]) /\ Len(given[t]) <= Len(given[s]) + 1
                    /\ pc \notin {"notify", "ended"} => given[s] = given[t]
  BY DEF SinksAgree
<1>1. {s, t} \subseteq {"parser", "dump"}
  BY DEF Sinks
<1>2. given[s] \in Seq(Bytes) /\ given[t] \in Seq(Bytes)
  BY <1>1 DEF TypeOK
<1>3. Len(given[s]) \in Nat /\ Len(given[t]) \in Nat
  BY <1>2
<1>4. given[s] = given[t] => Prefix(given[s], given[t]) /\ Len(given[t]) <= Len(given[s]) + 1
  <2> SUFFICES ASSUME given[s] = given[t] PROVE Prefix(given[s], given[t])
    BY <1>3
  <2>1. PICK g \in Seq(Bytes) : g = given[s] /\ g = given[t]
    BY <1>2
  <2>2. Prefix(g, g)
    BY PrefixOfLonger
  <2> QED BY <2>1, <2>2
<1>5. CASE order = <<>>
  BY <1>1, <1>4, <1>5 DEF Untouched
<1>6. CASE order \in Orders
  <2>1. /\ Len(order) \in 1..Len(order)
        /\ DOMAIN order = 1..Len(order)
        /\ \A n \in 1..Len(order) : order[n] \in Sinks
        /\ \E n \in 1..Len(order) : order[n] = s
        /\ \E n \in 1..Len(order) : order[n] = t
    <3>1. binaryDumpFile \in BOOLEAN
      BY DEF TypeOK
    <3>2. Len(order) \in {1, 2}
      BY <1>6, <3>1, OrderOfSinks
    <3>3. Len(order) \in 1..Len(order)
      BY <3>2
    <3> QED BY <1>6, <3>1, <3>3, OrderOfSinks
  <2>2. PICK last \in Seq(Bytes) : last = given[order[Len(order)]]
    <3>1. order[Len(order)] \in {"parser", "dump"}
      BY <2>1 DEF Sinks
    <3> QED BY <3>1 DEF TypeOK
  <2>3. PICK x \in Bytes : x = ByteAt(i + 1)
    <3>1. i + 1 \in Nat \ {0}
      BY ConstantsAssumption DEF TypeOK
    <3> QED BY <3>1, ByteHasType
  <2>4. PICK more \in Seq(Bytes) : more = Append(last, x)
    BY Appended
  <2>5. given[s] \in {last, more} /\ given[t] \in {last, more}
    <3>1. \A n \in 1..Len(order) : given[order[n]] \in {last, more}
      BY <2>1, <2>2, <2>3, <2>4 DEF InStep
    <3> QED BY <2>1, <3>1
  <2>6. /\ Len(more) = Len(last) + 1 /\ Len(last) \in Nat
        /\ \A k \in 1..Len(last) : last[k] = more[k]
    BY <2>4, Appended
  <2>7. Prefix(last, more) /\ Len(more) <= Len(last) + 1 /\ ~(Len(more) <= Len(last))
    <3>1. Len(last) <= Len(more) /\ Len(more) <= Len(last) + 1 /\ ~(Len(more) <= Len(last))
      BY <2>6
    <3> QED BY <2>6, <3>1, PrefixOfLonger
  <2>8. sink = 1 => given[s] = given[t]
    <3> SUFFICES ASSUME sink = 1 PROVE given[s] = given[t]
      OBVIOUS
    <3>1. \A n \in 1..Len(order) : ~(n < 1)
      BY <2>1
    <3>2. \A n \in 1..Len(order) : given[order[n]] = last
      BY <2>1, <2>2, <3>1 DEF InStep
    <3> QED BY <2>1, <3>2
  <2>9. Len(given[s]) <= Len(given[t]) =>
          given[s] = given[t] \/ (given[s] = last /\ given[t] = more)
    BY <2>5, <2>7
  <2> QED BY <1>4, <2>7, <2>8, <2>9 DEF Control
<1> QED BY <1>5, <1>6 DEF TypeOK

-----------------------------------------------------------------------------
(* The UART, and how the program ends.                                     *)

LEMMA SwitchInit == MainInit => Switch
BY DEF MainInit, Init, Switch, UartIsOffAtTheEnd, ReturnsAfterCtrlC

LEMMA SwitchMain ==
  TypeOK /\ Control /\ Untouched /\ Switch /\ main => Switch'
<1> SUFFICES ASSUME TypeOK, Control, Untouched, Switch, main PROVE Switch'
  OBVIOUS
<1>1. UNCHANGED <<killed, order, uart, complaints, taken>>
  BY DEF main, signals, meter, inHand
<1>2. pc \in {"main", "processFile"}
  BY DEF main, getopt_long, option, badOption, operand, Read, dispatch, processFile
<1>3. ~uart /\ complaints = {} /\ taken = <<>> /\ order = <<>>
  BY <1>2 DEF Untouched, Early, Control
<1>4. pc' # "cleanup"
  BY DEF main, getopt_long, option, badOption, operand, Read, dispatch, processFile, End, Goto
<1> QED BY <1>1, <1>3, <1>4 DEF Switch, UartIsOffAtTheEnd, ReturnsAfterCtrlC

LEMMA SwitchProcess ==
  TypeOK /\ Control /\ Untouched /\ Switch /\ Process => Switch'
<1> SUFFICES ASSUME TypeOK, Control, Untouched, Switch PROVE Process => Switch'
  OBVIOUS
<1>1. ASSUME processUSB PROVE Switch'
  BY <1>1 DEF processUSB, Goto, End, Control, Untouched, Early, Switch, UartIsOffAtTheEnd,
              ReturnsAfterCtrlC, meter, inHand, signals
<1>2. ASSUME setupSIGINTHandler PROVE Switch'
  BY <1>2 DEF setupSIGINTHandler, Goto, Untouched, Early, Switch, UartIsOffAtTheEnd,
              ReturnsAfterCtrlC, meter, inHand, sourceVars
<1>3. ASSUME hid_open PROVE Switch'
  BY <1>3 DEF hid_open, Goto, End, Untouched, Early, Switch, UartIsOffAtTheEnd,
              ReturnsAfterCtrlC, meter, inHand, signals, sourceVars
<1>4. ASSUME setupUart PROVE Switch'
  BY <1>4 DEF setupUart, Goto, Control, AfterOpen, Switch, Switched, UartIsOffAtTheEnd,
              ReturnsAfterCtrlC, inHand, signals, sourceVars
<1>5. ASSUME enableUart PROVE Switch'
  <2>1. order # <<>> /\ status = "none"
    <3>1. order \in Orders /\ binaryDumpFile \in BOOLEAN /\ pc = "enableUart"
      BY <1>5 DEF enableUart, Control, AfterOpen, TypeOK
    <3> QED BY <3>1, OrderOfSinks DEF Control
  <2> QED BY <1>5, <2>1 DEF enableUart, Goto, Switch, Switched, UartIsOffAtTheEnd,
              ReturnsAfterCtrlC, SetUart, sourceVars
<1>6. ASSUME loop PROVE Switch'
  BY <1>6 DEF loop, Goto, Control, Switch, Switched, UartIsOffAtTheEnd,
              ReturnsAfterCtrlC, meter, signals, sourceVars
<1>7. ASSUME readReport PROVE Switch'
  <2>1. pc = "poll" /\ status = "none" /\ status' = status /\ pc' \in {"notify", "loop"}
        /\ UNCHANGED <<uart, order>>
    BY <1>7 DEF readReport, Goto, Control, sourceVars
  <2> QED BY <2>1 DEF Switch, Switched, UartIsOffAtTheEnd, ReturnsAfterCtrlC
<1>8. ASSUME readTimedOut \/ readFailed PROVE Switch'
  BY <1>8 DEF readTimedOut, readFailed, Goto, Control, Switch, Switched, UartIsOffAtTheEnd,
              ReturnsAfterCtrlC, meter, sourceVars
<1>9. ASSUME notify PROVE Switch'
  BY <1>9, NotifyStep DEF Control, Switch, Switched, UartIsOffAtTheEnd,
              ReturnsAfterCtrlC, meter, sourceVars
<1>10. ASSUME disableUart PROVE Switch'
  BY <1>10 DEF disableUart, SetUart, Goto, Control, Switch, Switched, UartIsOffAtTheEnd,
              ReturnsAfterCtrlC, signals, sourceVars
<1>11. ASSUME cleanup PROVE Switch'
  BY <1>11 DEF cleanup, End, Control, Switch, Switched, UartIsOffAtTheEnd,
              ReturnsAfterCtrlC, signals, meter, sourceVars
<1> QED BY <1>1, <1>2, <1>3, <1>4, <1>5, <1>6, <1>7, <1>8, <1>9, <1>10, <1>11 DEF Process

LEMMA SwitchWorld ==
  TypeOK /\ Control /\ Untouched /\ Switch /\ World => Switch'
<1> SUFFICES ASSUME TypeOK, Control, Untouched, Switch PROVE World => Switch'
  OBVIOUS
<1>1. ASSUME sigint PROVE Switch'
  <2>1. CASE ~handler
    <3>1. pc' = "ended" /\ status' = "SIGINT" /\ UNCHANGED <<uart, order, complaints>>
      BY <1>1, <2>1 DEF sigint, End, meter, sourceVars
    <3>2. uart => pc = "ended"
      BY <2>1 DEF Switch, Switched, Control, AfterOpen
    <3>3. ~uart
      BY <1>1, <3>2 DEF sigint, Running
    <3> QED BY <3>1, <3>3 DEF Switch, UartIsOffAtTheEnd, ReturnsAfterCtrlC
  <2>2. CASE handler
    <3>1. /\ pc # "ended" /\ status' = status
          /\ pc' = pc \/ (pc = "poll" /\ pc' = "loop")
          /\ complaints \subseteq complaints'
          /\ UNCHANGED <<uart, order, taken>>
      BY <1>1, <2>2 DEF sigint, Running, meter, sourceVars, inHand
    <3> QED BY <3>1 DEF Control, Switch, Switched, UartIsOffAtTheEnd, ReturnsAfterCtrlC
  <2> QED BY <2>1, <2>2
<1>2. ASSUME sigterm PROVE Switch'
  BY <1>2 DEF sigterm, End, Switch, Switched, UartIsOffAtTheEnd, ReturnsAfterCtrlC, meter,
              sourceVars
<1>3. ASSUME report PROVE Switch'
  BY <1>3 DEF report, Report, Switch, UartIsOffAtTheEnd, ReturnsAfterCtrlC, sourceVars,
              signals, inHand
<1>4. ASSUME unplug PROVE Switch'
  BY <1>4 DEF unplug, Switch, UartIsOffAtTheEnd, ReturnsAfterCtrlC, sourceVars, signals, inHand
<1> QED BY <1>1, <1>2, <1>3, <1>4 DEF World

LEMMA SwitchStep ==
  TypeOK /\ Control /\ Untouched /\ Switch /\ [ProgramNext]_programVars => Switch'
<1>1. Switch /\ UNCHANGED programVars => Switch'
  BY DEF Switch, UartIsOffAtTheEnd, ReturnsAfterCtrlC, programVars, vars, signals,
         sourceVars, inHand, meter
<1> QED BY <1>1, SwitchMain, SwitchProcess, SwitchWorld DEF ProgramNext, Program

-----------------------------------------------------------------------------
(* The dump that was closed.                                               *)

LEMMA ClosedInit == MainInit => Closed
BY DEF MainInit, Init, Closed, DumpIsComplete

(* After the end nothing of the dump changes; cleanup is the only other    *)
(* way to status 0 that finds a dump.                                      *)
LEMMA ClosedStep ==
  TypeOK /\ Control /\ Untouched /\ InStep /\ Closed /\ [ProgramNext]_programVars => Closed'
<1> SUFFICES ASSUME TypeOK, Control, Untouched, InStep, Closed, [ProgramNext]_programVars
             PROVE  Closed'
  OBVIOUS
<1>1. ASSUME main PROVE Closed'
  <2>1. CASE getopt_long
    BY <2>1 DEF getopt_long, option, badOption, operand, Read, End, Control, Closed, DumpIsComplete
  <2>2. CASE dispatch
    <3>1. status = "none" /\ pc = "main"
      BY <2>2 DEF dispatch, Control
    <3>2. CASE Chosen = "processUSB"
      <4>1. pc' = "processUSB" /\ status' = "none"
        BY <2>2, <3>1, <3>2 DEF dispatch, Goto
      <4> QED BY <4>1 DEF Closed, DumpIsComplete
    <3>3. CASE Chosen # "processUSB"
      <4>1. binaryDumpFile' = FALSE
        BY <2>2, <3>3 DEF dispatch
      <4> QED BY <4>1 DEF Closed, DumpIsComplete
    <3> QED BY <3>2, <3>3
  <2>3. CASE processFile
    BY <2>3 DEF processFile, Closed, DumpIsComplete
  <2> QED BY <1>1, <2>1, <2>2, <2>3 DEF main
<1>2. ASSUME cleanup PROVE Closed'
  <2>1. pc = "cleanup" /\ pc' = "ended" /\ UNCHANGED <<given, diskFull, binaryDumpFile>>
    BY <1>2 DEF cleanup, End, sourceVars
  <2>2. binaryDumpFile /\ ~diskFull => flushed' = Len(given["dump"])
    BY <1>2 DEF cleanup
  <2>3. binaryDumpFile => given["dump"] = given["parser"]
    <3>1. binaryDumpFile => Sinks = {"parser", "dump"}
      BY DEF Sinks
    <3> QED BY <2>1, <3>1, Agreement DEF SinksAgree
  <2> QED BY <2>1, <2>2, <2>3 DEF Closed, DumpIsComplete
<1>3. ASSUME Process, ~cleanup PROVE status' # "0" /\ pc' \notin {"main", "processFile"}
  <2>1. status # "0"
    BY <1>3 DEF Process, processUSB, setupSIGINTHandler, hid_open, setupUart, enableUart, loop,
                readReport, readTimedOut, readFailed, notify, disableUart, Control
  <2>2. status' \in {status, "exception", "1", "SIGSEGV"}
    BY <1>3 DEF Process, processUSB, setupSIGINTHandler, hid_open, setupUart, enableUart, loop,
                readReport, readTimedOut, readFailed, notify, disableUart, Goto, End
  <2>3. CASE notify
    BY <2>1, <2>3, NotifyStep
  <2>4. CASE readReport
    <3>1. pc' \in {"notify", "loop"}
      BY <2>4 DEF readReport, Goto
    <3> QED BY <2>1, <2>2, <3>1
  <2>5. CASE ~notify /\ ~readReport
    <3>1. pc' \notin {"main", "processFile"}
      BY <1>3, <2>5 DEF Process, processUSB, setupSIGINTHandler, hid_open, setupUart,
                enableUart, loop, readTimedOut, readFailed, disableUart, Goto, End
    <3> QED BY <2>1, <2>2, <3>1
  <2> QED BY <2>3, <2>4, <2>5
<1>4. ASSUME World PROVE Closed'
  <2>1. /\ pc' = pc \/ pc' \notin {"main", "processFile"}
        /\ status' = status \/ status' \in {"SIGINT", "SIGTERM"}
        /\ UNCHANGED <<flushed, diskFull, given, binaryDumpFile>>
    BY <1>4 DEF World, sigint, sigterm, report, Report, unplug, End, disk, sourceVars
  <2> QED BY <2>1 DEF Closed, DumpIsComplete
<1>5. ASSUME UNCHANGED programVars PROVE Closed'
  BY <1>5 DEF programVars, vars, disk, sourceVars, Closed, DumpIsComplete
<1>6. (status' # "0" /\ pc' \notin {"main", "processFile"}) => Closed'
  BY DEF Closed, DumpIsComplete
<1> QED BY <1>1, <1>2, <1>3, <1>4, <1>5, <1>6 DEF ProgramNext, Program

-----------------------------------------------------------------------------
(* The command line.                                                       *)

LEMMA ObeyedInit == MainInit => Obeyed
<1> SUFFICES ASSUME MainInit PROVE Obeyed
  OBVIOUS
<1>1. argv \in Seq(Words)
  <2>1. PICK n \in 0..MaxWords : argv \in [1..n -> Words]
    BY DEF MainInit
  <2> QED BY <2>1
<1>2. \A n \in DOMAIN argv : argv[n] \in Words
  BY <1>1, ElementOfSequence
<1>3. /\ asked \subseteq Words /\ args = {}
      /\ asked = args \cup ({argv[n] : n \in DOMAIN argv} \ {"verbose"})
  BY <1>2 DEF MainInit
<1>4. pc = "main" /\ status = "none" /\ order = <<>> /\ ~uart
  BY DEF MainInit, Init
<1>5. CommandLineIsObeyed
  BY <1>4 DEF CommandLineIsObeyed
<1> QED BY <1>1, <1>3, <1>4, <1>5 DEF Obeyed, AfterOpen

LEMMA ObeyedMain ==
  TypeOK /\ Control /\ Untouched /\ Obeyed /\ main => Obeyed'
<1> SUFFICES ASSUME TypeOK, Control, Untouched, Obeyed, main PROVE Obeyed'
  OBVIOUS
<1>1. UNCHANGED <<order, uart>>
  BY DEF main, meter
<1>2. pc \in {"main", "processFile"}
  BY DEF main, getopt_long, option, badOption, operand, Read, dispatch, processFile
<1>3. order = <<>> /\ ~uart /\ status = "none"
  BY <1>2 DEF Control, Untouched, Early
<1>4. CASE getopt_long
  <2>1. pc = "main" /\ argv # <<>> /\ argv' = Tail(argv) /\ asked' = asked
    BY <1>4 DEF getopt_long, option, badOption, operand, Read
  <2>2. PICK w, others : w = Head(argv) /\ others = {argv'[n] : n \in DOMAIN argv'}
    OBVIOUS
  <2>3. {argv[n] : n \in DOMAIN argv} = {w} \cup others
    <3>1. argv \in Seq(Words) /\ argv # <<>> /\ argv' = Tail(argv) /\ w = Head(argv)
      BY <2>1, <2>2 DEF Obeyed
    <3>2. PICK s \in Seq(Words) : s = argv
      BY <3>1
    <3>3. PICK rest : rest = argv'
      OBVIOUS
    <3>4. s # <<>> /\ w = Head(s) /\ rest = Tail(s)
      BY <3>1, <3>2, <3>3
    <3>5. {s[n] : n \in DOMAIN s} = {Head(s)} \cup {Tail(s)[n] : n \in DOMAIN Tail(s)}
      BY <3>4, HeadAndTail
    <3>6. others = {rest[n] : n \in DOMAIN rest}
      BY <2>2, <3>3
    <3> QED BY <3>2, <3>4, <3>5, <3>6
  <2>4. w \in Words /\ argv' \in Seq(Words)
    BY <2>1, <2>2, WithoutFirst DEF Obeyed
  <2>5. asked = args \cup (({w} \cup others) \ {"verbose"})
    BY <2>1, <2>3 DEF Obeyed
  <2>6. ASSUME option PROVE Obeyed'
    <3>1. /\ w \in {"dumpbinary", "parsebinary", "help", "verbose"}
          /\ args' = args \cup ({w} \ {"verbose"})
          /\ UNCHANGED <<pc, status>>
      BY <2>2, <2>6 DEF option, Read
    <3>2. asked = args' \cup (others \ {"verbose"})
      BY <2>5, <3>1
    <3>3. args' \subseteq {"dumpbinary", "parsebinary", "help", "operand"} /\ args' \subseteq Words
      BY <2>1, <3>1 DEF Obeyed, Words
    <3>4. CommandLineIsObeyed'
      BY <1>1, <1>3, <2>1, <3>1 DEF CommandLineIsObeyed
    <3> QED BY <2>1, <2>2, <2>4, <3>1, <3>2, <3>3, <3>4 DEF Obeyed, AfterOpen
  <2>7. ASSUME badOption PROVE Obeyed'
    <3>1. w \in {"?", "l"} /\ args' = args /\ pc' = "ended" /\ status' = "1"
      BY <2>2, <2>7 DEF badOption, Read, End
    <3>2. CommandLineIsObeyed'
      BY <1>1, <1>3, <2>1, <2>5, <3>1 DEF CommandLineIsObeyed
    <3> QED BY <2>1, <2>4, <3>1, <3>2 DEF Obeyed, AfterOpen
  <2>8. ASSUME operand PROVE Obeyed'
    <3>1. /\ w = "operand" /\ args' = args \cup {"operand"}
          /\ UNCHANGED <<pc, status>>
      BY <2>2, <2>8 DEF operand, Read
    <3>2. asked = args' \cup (others \ {"verbose"})
      BY <2>5, <3>1
    <3>3. args' \subseteq {"dumpbinary", "parsebinary", "help", "operand"} /\ args' \subseteq Words
      BY <2>1, <3>1 DEF Obeyed, Words
    <3>4. CommandLineIsObeyed'
      BY <1>1, <1>3, <2>1, <3>1 DEF CommandLineIsObeyed
    <3> QED BY <2>1, <2>2, <2>4, <3>1, <3>2, <3>3, <3>4 DEF Obeyed, AfterOpen
  <2> QED BY <1>4, <2>6, <2>7, <2>8 DEF getopt_long
<1>5. CASE dispatch
  <2>1. /\ pc = "main" /\ argv = <<>> /\ UNCHANGED <<argv, args, asked>>
        /\ binaryDumpFile' = (Chosen = "processUSB" /\ "dumpbinary" \in args)
        /\ \/ Chosen = "refuse" /\ pc' = "ended" /\ status' = "1"
           \/ Chosen = "printHelp" /\ pc' = "ended" /\ status' = "0"
           \/ Chosen \in {"processFile", "processUSB"} /\ pc' = Chosen /\ status' = "none"
    BY <1>3, <1>5 DEF dispatch, End, Goto
  <2>2. asked = args /\ args \subseteq {"dumpbinary", "parsebinary", "help", "operand"}
    <3>1. DOMAIN argv = {}
      BY <2>1
    <3>2. {argv[n] : n \in DOMAIN argv} = {}
      BY <3>1
    <3> QED BY <2>1, <3>2 DEF Obeyed
  <2>3. CASE Chosen = "refuse"
    BY <1>1, <1>3, <2>1, <2>2, <2>3 DEF Obeyed, CommandLineIsObeyed, Chosen, AfterOpen
  <2>4. CASE Chosen = "printHelp"
    BY <1>1, <1>3, <2>1, <2>2, <2>4 DEF Obeyed, CommandLineIsObeyed, Chosen, AfterOpen
  <2>5. CASE Chosen = "processFile"
    BY <1>1, <1>3, <2>1, <2>2, <2>5 DEF Obeyed, CommandLineIsObeyed, Chosen, AfterOpen
  <2>6. CASE Chosen = "processUSB"
    <3>1. asked \subseteq {"dumpbinary"} /\ (binaryDumpFile' <=> "dumpbinary" \in asked)
      BY <2>1, <2>2, <2>6 DEF Chosen
    <3> QED BY <1>1, <1>3, <2>1, <2>6, <3>1 DEF Obeyed, CommandLineIsObeyed, AfterOpen
  <2> QED BY <2>1, <2>3, <2>4, <2>5, <2>6
<1>6. CASE processFile
  <2>1. /\ pc = "processFile" /\ pc' = "ended" /\ status' \in {"0", "SIGSEGV"}
        /\ UNCHANGED <<binaryDumpFile, argv, args, asked>>
    BY <1>6 DEF processFile, End
  <2> QED BY <1>1, <1>3, <2>1 DEF Obeyed, CommandLineIsObeyed, AfterOpen
<1> QED BY <1>4, <1>5, <1>6 DEF main

InSession == {"processUSB", "setupSIGINTHandler", "hid_open"} \cup AfterOpen

(* Where a step of processUSB and run leads.                               *)
LEMMA ProcessLeads ==
  ASSUME TypeOK, Control, Process
  PROVE  /\ pc \in InSession /\ UNCHANGED binaryDumpFile
         /\ \/ pc' \in InSession /\ status' = status
            \/ /\ pc' = "ended"
               /\ \/ status' = "exception" /\ binaryDumpFile
                  \/ status' \in {"1", "SIGSEGV"}
                  \/ status' = "0" /\ order # <<>> /\ order' = order
<1> DEFINE Leads == /\ pc \in InSession /\ UNCHANGED binaryDumpFile
                    /\ \/ pc' \in InSession /\ status' = status
                       \/ /\ pc' = "ended"
                          /\ \/ status' = "exception" /\ binaryDumpFile
                             \/ status' \in {"1", "SIGSEGV"}
                             \/ status' = "0" /\ order # <<>> /\ order' = order
<1>1. ASSUME processUSB PROVE Leads
  BY <1>1 DEF processUSB, Goto, End, InSession, AfterOpen
<1>2. ASSUME setupSIGINTHandler \/ hid_open PROVE Leads
  BY <1>2 DEF setupSIGINTHandler, hid_open, Goto, End, InSession, AfterOpen, sourceVars
<1>3. ASSUME setupUart \/ enableUart \/ disableUart PROVE Leads
  BY <1>3 DEF setupUart, enableUart, disableUart, SetUart, Goto, InSession, AfterOpen, sourceVars
<1>4. ASSUME loop PROVE Leads
  BY <1>4 DEF loop, Goto, InSession, AfterOpen, sourceVars
<1>5. ASSUME readReport PROVE Leads
  <2>1. pc = "poll" /\ pc' \in {"notify", "loop"} /\ UNCHANGED <<status, binaryDumpFile>>
    BY <1>5 DEF readReport, Goto, sourceVars
  <2> QED BY <2>1 DEF InSession, AfterOpen
<1>6. ASSUME readTimedOut \/ readFailed PROVE Leads
  BY <1>6 DEF readTimedOut, readFailed, Goto, InSession, AfterOpen, sourceVars
<1>7. ASSUME notify PROVE Leads
  BY <1>7, NotifyStep DEF InSession, AfterOpen, sourceVars
<1>8. ASSUME cleanup PROVE Leads
  <2>1. order # <<>>
    <3>1. order \in Orders /\ binaryDumpFile \in BOOLEAN
      BY <1>8 DEF cleanup, Control, AfterOpen, TypeOK
    <3> QED BY <3>1, OrderOfSinks
  <2> QED BY <1>8, <2>1 DEF cleanup, End, InSession, AfterOpen, sourceVars
<1> QED BY <1>1, <1>2, <1>3, <1>4, <1>5, <1>6, <1>7, <1>8 DEF Process

LEMMA ObeyedStep ==
  TypeOK /\ Control /\ Untouched /\ Obeyed /\ [ProgramNext]_programVars => Obeyed'
<1> SUFFICES ASSUME TypeOK, Control, Untouched, Obeyed
             PROVE  [ProgramNext]_programVars => Obeyed'
  OBVIOUS
<1>1. ASSUME Process, UNCHANGED <<argv, args, asked>> PROVE Obeyed'
  <2>1. pc \in InSession /\ UNCHANGED binaryDumpFile
    BY <1>1, ProcessLeads
  <2>2. asked \subseteq {"dumpbinary"} /\ (binaryDumpFile <=> "dumpbinary" \in asked)
    BY <2>1 DEF Obeyed, InSession
  <2>3. pc # "ended" /\ status = "none"
    BY <2>1 DEF InSession, AfterOpen, Control
  <2>4. CASE pc' \in InSession /\ status' = status
    <3>1. CommandLineIsObeyed'
      BY <1>1, <2>1, <2>2, <2>3, <2>4 DEF CommandLineIsObeyed, InSession, AfterOpen
    <3> QED BY <1>1, <2>1, <2>2, <2>4, <3>1 DEF Obeyed, InSession, AfterOpen
  <2>5. CASE pc' = "ended" /\ status' = "exception" /\ binaryDumpFile
    <3>1. CommandLineIsObeyed'
      BY <1>1, <2>1, <2>2, <2>5 DEF CommandLineIsObeyed
    <3> QED BY <1>1, <2>5, <3>1 DEF Obeyed, AfterOpen
  <2>6. CASE pc' = "ended" /\ status' \in {"1", "SIGSEGV"}
    <3>1. CommandLineIsObeyed'
      BY <1>1, <2>1, <2>2, <2>6 DEF CommandLineIsObeyed
    <3> QED BY <1>1, <2>6, <3>1 DEF Obeyed, AfterOpen
  <2>7. CASE pc' = "ended" /\ status' = "0" /\ order # <<>> /\ order' = order
    <3>1. CommandLineIsObeyed'
      BY <1>1, <2>1, <2>2, <2>7 DEF CommandLineIsObeyed
    <3> QED BY <1>1, <2>7, <3>1 DEF Obeyed, AfterOpen
  <2> QED BY <1>1, <2>4, <2>5, <2>6, <2>7, ProcessLeads
<1>2. ASSUME World, UNCHANGED <<argv, args, asked>> PROVE Obeyed'
  <2>1. /\ UNCHANGED <<binaryDumpFile, order>> /\ (uart' => uart)
        /\ \/ UNCHANGED <<pc, status>>
           \/ pc = "poll" /\ pc' = "loop" /\ status' = status
           \/ pc # "ended" /\ pc' = "ended" /\ status' \in {"SIGINT", "SIGTERM"}
    <3>1. CASE sigint
      BY <3>1 DEF sigint, Running, End, meter, sourceVars
    <3>2. CASE sigterm
      BY <3>2 DEF sigterm, Running, End, meter, sourceVars
    <3>3. CASE report \/ unplug
      BY <3>3 DEF report, Report, unplug, sourceVars
    <3> QED BY <1>2, <3>1, <3>2, <3>3 DEF World
  <2>2. CASE UNCHANGED <<pc, status>>
    BY <1>2, <2>1, <2>2 DEF Obeyed, CommandLineIsObeyed
  <2>3. CASE pc = "poll" /\ pc' = "loop" /\ status' = status
    <3>1. CommandLineIsObeyed'
      BY <1>2, <2>1, <2>3 DEF Obeyed, CommandLineIsObeyed
    <3> QED BY <1>2, <2>1, <2>3, <3>1 DEF Obeyed, AfterOpen
  <2>4. CASE pc # "ended" /\ pc' = "ended" /\ status' \in {"SIGINT", "SIGTERM"}
    <3>1. CommandLineIsObeyed'
      BY <1>2, <2>1, <2>4 DEF Obeyed, CommandLineIsObeyed
    <3> QED BY <1>2, <2>4, <3>1 DEF Obeyed, AfterOpen
  <2> QED BY <2>1, <2>2, <2>3, <2>4
<1>3. ASSUME UNCHANGED programVars PROVE Obeyed'
  BY <1>3 DEF programVars, vars, meter, sourceVars, Obeyed, CommandLineIsObeyed
<1> QED BY <1>1, <1>2, <1>3, ObeyedMain DEF ProgramNext, Program

-----------------------------------------------------------------------------
(* The bytes and their numbers.                                            *)

QueueType == Seq(Seq(Bytes))

LEMMA NumberedInit == MainInit => Numbered
BY DEF MainInit, Init, Numbered, TakenIncrease, QueueIncreases, TakenBeforeQueue, SentBefore

(* The first report of the queue is read.                                  *)
LEMMA NumberedRead ==
  ASSUME TypeOK, Numbered, queue # <<>>,
         taken' = taken \o Head(queue), queue' = Tail(queue),
         UNCHANGED <<produced, dropped>>
  PROVE  Numbered'
<1>1. PICK first \in Seq(Bytes) : first = Head(queue) /\ first = queue[1]
  BY WithoutFirst DEF TypeOK
<1>2. PICK m \in Nat : m = Len(taken)
  BY LengthOfSequence DEF TypeOK
<1>3. PICK n \in Nat : n = Len(queue)
  BY LengthOfSequence DEF TypeOK
<1>4. PICK f \in Nat : f = Len(first)
  BY LengthOfSequence
<1>5. taken \in Seq(Bytes) /\ queue \in QueueType
  BY DEF TypeOK, QueueType
<1>6. PICK t : t = taken' /\ t = taken \o first
  BY <1>1
<1>7. /\ Len(t) = m + f
      /\ \A k \in 1..m : t[k] = taken[k]
      /\ \A k \in 1..f : t[m + k] = first[k]
  <2>1. PICK s \in Seq(Bytes) : s = taken
    BY <1>5
  <2>2. /\ Len(s \o first) = Len(s) + Len(first)
        /\ \A k \in 1..Len(s) : (s \o first)[k] = s[k]
        /\ \A k \in 1..Len(first) : (s \o first)[Len(s) + k] = first[k]
    OBVIOUS
  <2>3. t = s \o first /\ Len(s) = m /\ Len(first) = f
    BY <1>2, <1>4, <1>6, <2>1
  <2> QED BY <2>1, <2>2, <2>3
<1>8. \A k \in 1..m + f : \/ k \in 1..m /\ t[k] = taken[k]
                          \/ k \notin 1..m /\ k - m \in 1..f /\ t[k] = first[k - m]
  <2> SUFFICES ASSUME NEW k \in 1..m + f, k \notin 1..m
               PROVE  k - m \in 1..f /\ t[k] = first[k - m]
    BY <1>7
  <2>1. k - m \in 1..f /\ m + (k - m) = k
    OBVIOUS
  <2> QED BY <1>7, <2>1
<1>9. PICK q : q = queue' /\ q = Tail(queue)
  OBVIOUS
<1>10. /\ n # 0 /\ Len(q) = n - 1
       /\ \A k \in 1..n - 1 : q[k] = queue[k + 1] /\ k + 1 \in 1..n
  <2>1. Len(q) = n - 1 /\ \A k \in 1..n - 1 : q[k] = queue[k + 1]
    BY <1>3, <1>5, <1>9, WithoutFirst DEF QueueType
  <2>2. n # 0
    BY <1>3, <1>5, LengthOfSequence DEF QueueType
  <2> QED BY <2>1, <2>2
<1>11. 1 \in 1..n /\ \A k \in 1..n - 1 : 1 < k + 1
  BY <1>10
<1>12. /\ \A k, l \in 1..m : k < l => taken[k] < taken[l]
       /\ \A k, l \in 1..f : k < l => first[k] < first[l]
       /\ \A k \in 1..m : \A l \in 1..f : taken[k] < first[l]
  BY <1>1, <1>2, <1>3, <1>4, <1>11
     DEF Numbered, TakenIncrease, QueueIncreases, TakenBeforeQueue
<1>13. TakenIncrease'
  <2> SUFFICES ASSUME NEW k \in 1..m + f, NEW l \in 1..m + f, k < l PROVE t[k] < t[l]
    BY <1>6, <1>7 DEF TakenIncrease
  <2>1. CASE l \in 1..m
    <3>1. k \in 1..m
      BY <2>1
    <3> QED BY <1>7, <1>12, <2>1, <3>1
  <2>2. CASE k \in 1..m /\ l \notin 1..m
    BY <1>8, <1>12, <2>2
  <2>3. CASE k \notin 1..m /\ l \notin 1..m
    <3>1. k - m < l - m
      OBVIOUS
    <3> QED BY <1>8, <1>12, <2>3, <3>1
  <2>4. k \in 1..m \/ l \notin 1..m
    OBVIOUS
  <2> QED BY <2>1, <2>2, <2>3, <2>4
<1>14. QueueIncreases'
  <2>1. \A k, l \in 1..n - 1 : k < l => k + 1 < l + 1
    OBVIOUS
  <2>2. ASSUME NEW h \in 1..n - 1,
               NEW k \in 1..Len(q[h]), NEW l \in 1..Len(q[h]), k < l
        PROVE  q[h][k] < q[h][l]
    <3>1. q[h] = queue[h + 1] /\ h + 1 \in 1..n
      BY <1>10
    <3> QED BY <1>3, <2>2, <3>1 DEF Numbered, QueueIncreases
  <2>3. ASSUME NEW h \in 1..n - 1, NEW j \in 1..n - 1, h < j,
               NEW k \in 1..Len(q[h]), NEW l \in 1..Len(q[j])
        PROVE  q[h][k] < q[j][l]
    <3>1. q[h] = queue[h + 1] /\ h + 1 \in 1..n /\ q[j] = queue[j + 1] /\ j + 1 \in 1..n
      BY <1>10
    <3>2. h + 1 < j + 1
      BY <2>1, <2>3
    <3> QED BY <1>3, <2>3, <3>1, <3>2 DEF Numbered, QueueIncreases
  <2> DEFINE A(x) == \A k, l \in 1..Len(x) : k < l => x[k] < x[l]
             B(x, y) == \A k \in 1..Len(x) : \A l \in 1..Len(y) : x[k] < y[l]
  <2>4. /\ \A h \in 1..n - 1 : A(q[h])
        /\ \A h, j \in 1..n - 1 : h < j => B(q[h], q[j])
    BY <2>2, <2>3
  <2>5. QueueIncreases' <=> /\ \A h \in 1..Len(queue') : A(queue'[h])
                            /\ \A h, j \in 1..Len(queue') : h < j => B(queue'[h], queue'[j])
    BY DEF QueueIncreases
  <2>6. q = queue' /\ Len(queue') = n - 1
    BY <1>9, <1>10
  <2> HIDE DEF A, B
  <2> QED BY <2>4, <2>5, <2>6
<1>15. TakenBeforeQueue'
  <2>0. t = taken' /\ q = queue' /\ Len(t) = m + f /\ Len(q) = n - 1
    BY <1>6, <1>7, <1>9, <1>10
  <2> SUFFICES ASSUME NEW k \in 1..m + f, NEW j \in 1..n - 1, NEW l \in 1..Len(q[j])
               PROVE  t[k] < q[j][l]
    BY <2>0 DEF TakenBeforeQueue
  <2>1. q[j] = queue[j + 1] /\ j + 1 \in 1..n /\ l \in 1..Len(queue[j + 1])
    BY <1>10
  <2>2. CASE k \in 1..m
    <3>1. t[k] = taken[k]
      BY <1>7, <2>2
    <3> QED BY <1>2, <1>3, <2>1, <2>2, <3>1 DEF Numbered, TakenBeforeQueue
  <2>3. CASE k \notin 1..m
    <3>1. k - m \in 1..f /\ t[k] = first[k - m]
      BY <1>8, <2>3
    <3>2. first[k - m] < queue[j + 1][l]
      BY <1>1, <1>3, <1>4, <1>11, <2>1, <3>1 DEF Numbered, QueueIncreases
    <3> QED BY <2>1, <3>1, <3>2
  <2> QED BY <2>2, <2>3
<1>16. SentBefore'
  <2>1. \A k \in 1..f : first[k] <= produced
    BY <1>1, <1>3, <1>4, <1>11 DEF Numbered, SentBefore
  <2>2. \A k \in 1..m + f : t[k] <= produced
    BY <1>2, <1>8, <2>1 DEF Numbered, SentBefore
  <2>3. \A j \in 1..n - 1 : \A k \in 1..Len(q[j]) : q[j][k] <= produced
    BY <1>3, <1>10 DEF Numbered, SentBefore
  <2> QED BY <1>6, <1>7, <1>9, <1>10, <2>2, <2>3 DEF SentBefore
<1>17. ASSUME NEW b \in 1..produced PROVE Accounted(b)'
  <2>1. Accounted(b)
    BY DEF Numbered
  <2>2. CASE b \in dropped
    BY <2>2 DEF Accounted
  <2>3. CASE \E k \in 1..Len(taken) : taken[k] = b
    <3>1. PICK k \in 1..m : taken[k] = b
      BY <1>2, <2>3
    <3>2. k \in 1..m + f /\ t[k] = b
      BY <1>7, <3>1
    <3> QED BY <1>6, <1>7, <3>2 DEF Accounted
  <2>4. CASE \E j \in 1..Len(queue) : \E l \in 1..Len(queue[j]) : queue[j][l] = b
    <3>1. PICK j \in 1..n : \E l \in 1..Len(queue[j]) : queue[j][l] = b
      BY <1>3, <2>4
    <3>2. PICK l \in 1..Len(queue[j]) : queue[j][l] = b
      BY <3>1
    <3>3. CASE j = 1
      <4>1. l \in 1..f /\ first[l] = b
        BY <1>1, <1>4, <3>2, <3>3
      <4>2. m + l \in 1..m + f /\ t[m + l] = b
        BY <1>7, <4>1
      <4> QED BY <1>6, <1>7, <4>2 DEF Accounted
    <3>4. CASE j # 1
      <4>1. j - 1 \in 1..n - 1 /\ (j - 1) + 1 = j
        BY <3>4
      <4>2. q[j - 1] = queue[j]
        BY <1>10, <4>1
      <4>3. l \in 1..Len(q[j - 1]) /\ q[j - 1][l] = b
        BY <3>2, <4>2
      <4> QED BY <1>9, <1>10, <4>1, <4>3 DEF Accounted
    <3> QED BY <3>3, <3>4
  <2> QED BY <2>1, <2>2, <2>3, <2>4 DEF Accounted
<1> QED BY <1>13, <1>14, <1>15, <1>16, <1>17 DEF Numbered

LEMMA QueueKept ==
  ASSUME QueueIncreases, UNCHANGED queue
  PROVE  QueueIncreases'
<1>1. PICK w : w = queue
  OBVIOUS
<1> DEFINE A(q) == \A k, l \in 1..Len(q) : k < l => q[k] < q[l]
           B(q, r) == \A k \in 1..Len(q) : \A l \in 1..Len(r) :
                        q[k] < r[l]
<1>2. /\ \A q \in 1..Len(w) : A(w[q])
      /\ \A q, r \in 1..Len(w) : q < r => B(w[q], w[r])
  BY <1>1 DEF QueueIncreases
<1>3. QueueIncreases' <=> /\ \A q \in 1..Len(queue') : A(queue'[q])
                          /\ \A q, r \in 1..Len(queue') : q < r => B(queue'[q], queue'[r])
  BY DEF QueueIncreases
<1>4. queue' = w
  BY <1>1
<1> HIDE DEF A, B
<1> QED BY <1>2, <1>3, <1>4

(* The meter sends a report.                                               *)
LEMMA NumberedSend ==
  ASSUME TypeOK, Numbered, report
  PROVE  Numbered'
<1>1. PICK size \in 0..ReportSize : Report(size)
  BY DEF report
<1>2. PICK new \in Seq(Bytes) :
        /\ Len(new) = size
        /\ \A k \in 1..size : new[k] = produced + k
        /\ \/ /\ Len(queue) < QueueSize
              /\ queue' = Append(queue, new)
              /\ dropped' = dropped
           \/ /\ dropped' = dropped \cup {new[k] : k \in 1..size}
              /\ queue' = queue
        /\ produced' = produced + size /\ produced' \in Bytes
  BY <1>1, ReportStep
<1>3. size \in Nat /\ produced \in Nat
  BY ConstantsAssumption DEF TypeOK, Bytes
<1>4. UNCHANGED taken
  BY <1>1 DEF Report, inHand
<1>5. PICK m \in Nat : m = Len(taken)
  BY LengthOfSequence DEF TypeOK
<1>6. PICK n \in Nat : n = Len(queue)
  BY LengthOfSequence DEF TypeOK
<1>7. \A k \in 1..m : taken[k] \in Int /\ taken[k] <= produced
  <2>1. \A k \in 1..m : taken[k] \in Bytes
    BY <1>5, ElementOfSequence DEF TypeOK
  <2> QED BY <1>5, <2>1 DEF Bytes, Numbered, SentBefore
<1>8. \A j \in 1..n : \A k \in 1..Len(queue[j]) :
        queue[j][k] \in Int /\ queue[j][k] <= produced
  <2> SUFFICES ASSUME NEW j \in 1..n, NEW k \in 1..Len(queue[j])
               PROVE  queue[j][k] \in Int /\ queue[j][k] <= produced
    OBVIOUS
  <2>1. PICK r \in Seq(Bytes) : r = queue[j]
    BY <1>6, ElementOfSequence DEF TypeOK
  <2>2. r \in Seq(Bytes) /\ k \in 1..Len(r)
    BY <2>1
  <2>3. r[k] \in Bytes
    BY <2>2, ElementOfSequence
  <2> QED BY <1>6, <2>1, <2>3 DEF Bytes, Numbered, SentBefore
<1>9. TakenIncrease'
  BY <1>4 DEF Numbered, TakenIncrease
<1>10. CASE /\ dropped' = dropped \cup {new[k] : k \in 1..size}
            /\ queue' = queue
  <2>0. QueueIncreases'
    BY <1>10, QueueKept DEF Numbered
  <2>1. TakenBeforeQueue'
    BY <1>4, <1>10 DEF Numbered, TakenBeforeQueue
  <2>2. \A x \in Int : x <= produced => x <= produced + size
    BY <1>3
  <2>3. SentBefore'
    <3>1. \A k \in 1..m : taken[k] <= produced + size
      BY <1>7, <2>2
    <3>2. \A j \in 1..n : \A k \in 1..Len(queue[j]) :
            queue[j][k] <= produced + size
      BY <1>8, <2>2
    <3> QED BY <1>2, <1>4, <1>5, <1>6, <1>10, <3>1, <3>2 DEF SentBefore
  <2>4. ASSUME NEW b \in 1..produced + size PROVE Accounted(b)'
    <3>1. CASE b \in 1..produced
      BY <1>4, <1>10, <3>1 DEF Numbered, Accounted
    <3>2. CASE b \notin 1..produced
      <4>1. b - produced \in 1..size /\ produced + (b - produced) = b
        BY <1>3, <3>2
      <4>2. new[b - produced] = b
        BY <1>2, <4>1
      <4>3. b \in dropped'
        BY <1>10, <4>1, <4>2
      <4> QED BY <4>3 DEF Accounted
    <3> QED BY <3>1, <3>2
  <2> QED BY <1>2, <1>9, <2>0, <2>1, <2>3, <2>4 DEF Numbered
<1>11. CASE /\ queue' = Append(queue, new)
            /\ dropped' = dropped
  <2>1. /\ Len(queue') = n + 1 /\ queue'[n + 1] = new
        /\ \A k \in 1..n : queue'[k] = queue[k]
    BY <1>6, <1>11, Appended DEF TypeOK
  <2>2. PICK q : q = queue'
    OBVIOUS
  <2>3. \A j \in 1..n + 1 : \/ j \in 1..n /\ q[j] = queue[j]
                            \/ j = n + 1 /\ q[j] = new
    BY <2>1, <2>2
  <2>4. \A k \in 1..Len(new) : new[k] = produced + k
    BY <1>2
  <2>5. \A x \in Int : x <= produced =>
          /\ x <= produced + size
          /\ \A k \in 1..size : x < produced + k
    BY <1>3
  <2>6. QueueIncreases'
    <3>1. ASSUME NEW j \in 1..n + 1, NEW k \in 1..Len(q[j]),
                 NEW l \in 1..Len(q[j]), k < l
          PROVE  q[j][k] < q[j][l]
      <4>1. CASE j \in 1..n /\ q[j] = queue[j]
        BY <1>6, <3>1, <4>1 DEF Numbered, QueueIncreases
      <4>2. CASE j = n + 1 /\ q[j] = new
        <5>1. new[k] = produced + k /\ new[l] = produced + l
          BY <2>4, <4>2
        <5>2. produced + k < produced + l
          BY <1>2, <1>3, <3>1, <4>2
        <5> QED BY <4>2, <5>1, <5>2
      <4> QED BY <2>3, <4>1, <4>2
    <3>2. ASSUME NEW j \in 1..n + 1, NEW h \in 1..n + 1, j < h,
                 NEW k \in 1..Len(q[j]), NEW l \in 1..Len(q[h])
          PROVE  q[j][k] < q[h][l]
      <4>1. j \in 1..n /\ q[j] = queue[j]
        BY <2>3, <3>2
      <4>2. CASE h \in 1..n /\ q[h] = queue[h]
        <5>1. \A x \in 1..Len(queue[j]) : \A y \in 1..Len(queue[h]) : queue[j][x] < queue[h][y]
          BY <1>6, <3>2, <4>1, <4>2 DEF Numbered, QueueIncreases
        <5> QED BY <3>2, <4>1, <4>2, <5>1
      <4>3. CASE h = n + 1 /\ q[h] = new
        <5>1. new[l] = produced + l /\ l \in 1..size
          BY <1>2, <2>4, <4>3
        <5>2. queue[j][k] \in Int /\ queue[j][k] <= produced
          BY <1>8, <4>1
        <5>3. queue[j][k] < produced + l
          BY <2>5, <5>1, <5>2
        <5> QED BY <4>1, <4>3, <5>1, <5>3
      <4> QED BY <2>3, <4>2, <4>3
    <3>3. Len(q) = n + 1
      BY <2>1, <2>2
    <3> QED BY <2>2, <3>1, <3>2, <3>3 DEF QueueIncreases
  <2>7. TakenBeforeQueue'
    <3>1. ASSUME NEW k \in 1..m, NEW j \in 1..n + 1, NEW l \in 1..Len(q[j])
          PROVE  taken[k] < q[j][l]
      <4>1. CASE j \in 1..n /\ q[j] = queue[j]
        BY <1>5, <1>6, <4>1 DEF Numbered, TakenBeforeQueue
      <4>2. CASE j = n + 1 /\ q[j] = new
        <5>1. new[l] = produced + l /\ l \in 1..size
          BY <1>2, <2>4, <4>2
        <5>2. taken[k] < produced + l
          BY <1>7, <2>5, <5>1
        <5> QED BY <4>2, <5>1, <5>2
      <4> QED BY <2>3, <4>1, <4>2
    <3> QED BY <1>4, <1>5, <2>1, <2>2, <3>1 DEF TakenBeforeQueue
  <2>8. SentBefore'
    <3>1. \A k \in 1..m : taken[k] <= produced + size
      BY <1>7, <2>5
    <3>2. ASSUME NEW j \in 1..n + 1, NEW k \in 1..Len(q[j])
          PROVE  q[j][k] <= produced + size
      <4>1. CASE j \in 1..n /\ q[j] = queue[j]
        BY <1>8, <2>5, <4>1
      <4>2. CASE j = n + 1 /\ q[j] = new
        <5>1. new[k] = produced + k /\ k \in 1..size
          BY <1>2, <2>4, <4>2
        <5>2. produced + k <= produced + size
          BY <1>3, <5>1
        <5> QED BY <4>2, <5>1, <5>2
      <4> QED BY <2>3, <4>1, <4>2
    <3> QED BY <1>2, <1>4, <1>5, <2>1, <2>2, <3>1, <3>2 DEF SentBefore
  <2>9. ASSUME NEW b \in 1..produced + size PROVE Accounted(b)'
    <3>1. CASE b \in 1..produced
      <4>1. Accounted(b)
        BY <3>1 DEF Numbered
      <4>2. CASE b \in dropped \/ \E k \in 1..Len(taken) : taken[k] = b
        BY <1>4, <1>11, <4>2 DEF Accounted
      <4>3. CASE \E j \in 1..Len(queue) : \E l \in 1..Len(queue[j]) : queue[j][l] = b
        <5>1. PICK j \in 1..n : \E l \in 1..Len(queue[j]) : queue[j][l] = b
          BY <1>6, <4>3
        <5>2. j \in 1..n + 1 /\ queue'[j] = queue[j] /\ Len(queue') = n + 1
          BY <2>1
        <5> QED BY <5>1, <5>2 DEF Accounted
      <4> QED BY <4>1, <4>2, <4>3 DEF Accounted
    <3>2. CASE b \notin 1..produced
      <4>1. b - produced \in 1..size /\ produced + (b - produced) = b
        BY <1>3, <3>2
      <4>2. new[b - produced] = b /\ b - produced \in 1..Len(new)
        BY <1>2, <4>1
      <4>3. n + 1 \in 1..n + 1 /\ queue'[n + 1] = new
        BY <1>6, <2>1
      <4> QED BY <2>1, <4>2, <4>3 DEF Accounted
    <3> QED BY <3>1, <3>2
  <2> QED BY <1>2, <1>9, <2>6, <2>7, <2>8, <2>9 DEF Numbered
<1> QED BY <1>2, <1>10, <1>11

(* The bytes move only when a report is sent or read.                      *)
LEMMA BytesUntouched ==
  ASSUME [ProgramNext]_programVars, ~readReport, ~report
  PROVE  UNCHANGED <<taken, queue, produced, dropped>>
<1>1. ASSUME Process PROVE UNCHANGED <<taken, queue, produced, dropped>>
  BY <1>1 DEF Process, processUSB, setupSIGINTHandler, hid_open, setupUart, enableUart, loop,
              readTimedOut, readFailed, notify, disableUart, SetUart, cleanup, inHand, meter
<1>2. ASSUME World PROVE UNCHANGED <<taken, queue, produced, dropped>>
  BY <1>2 DEF World, sigint, sigterm, unplug, inHand, meter
<1>3. ASSUME main \/ UNCHANGED programVars PROVE UNCHANGED <<taken, queue, produced, dropped>>
  BY <1>3 DEF main, programVars, vars, inHand, meter
<1> QED BY <1>1, <1>2, <1>3 DEF ProgramNext, Program

LEMMA NumberedStep ==
  TypeOK /\ Control /\ Numbered /\ [ProgramNext]_programVars => Numbered'
<1> SUFFICES ASSUME TypeOK, Control, Numbered, [ProgramNext]_programVars PROVE Numbered'
  OBVIOUS
<1>1. ASSUME UNCHANGED <<taken, queue, produced, dropped>> PROVE Numbered'
  <2>1. QueueIncreases'
    BY <1>1, QueueKept DEF Numbered
  <2>2. TakenIncrease' /\ TakenBeforeQueue' /\ SentBefore'
    BY <1>1 DEF Numbered, TakenIncrease, TakenBeforeQueue, SentBefore
  <2>3. \A b \in 1..produced' : Accounted(b)'
    BY <1>1 DEF Numbered, Accounted
  <2> QED BY <2>1, <2>2, <2>3 DEF Numbered
<1>2. ASSUME readReport PROVE Numbered'
  <2>1. queue # <<>> /\ taken' = taken \o Head(queue) /\ queue' = Tail(queue)
    BY <1>2 DEF readReport
  <2>2. UNCHANGED <<produced, dropped>>
    BY <1>2 DEF readReport
  <2> QED BY <2>1, <2>2, NumberedRead
<1>3. ASSUME report PROVE Numbered'
  BY <1>3, NumberedSend
<1> QED BY <1>1, <1>2, <1>3, BytesUntouched

-----------------------------------------------------------------------------
(* What was read is what the sinks are given.                              *)

LEMMA ForwardingInit == MainInit => Forwarding
<1> SUFFICES ASSUME MainInit PROVE Forwarding
  OBVIOUS
<1>1. taken = <<>> /\ pc = "main" /\ given = [s \in {"parser", "dump"} |-> <<>>]
  BY DEF MainInit, Init
<1>2. \A s \in Sinks : given[s] = <<>>
  BY <1>1 DEF Sinks
<1>3. Len(<<>>) = 0 /\ 0 <= 0 /\ 1..0 = {}
  OBVIOUS
<1> QED BY <1>1, <1>2, <1>3 DEF Forwarding, Follows

LEMMA ForwardingMain ==
  TypeOK /\ Control /\ Untouched /\ main => Forwarding'
<1> SUFFICES ASSUME TypeOK, Control, Untouched, main PROVE Forwarding'
  OBVIOUS
<1>1. UNCHANGED <<taken, given>> /\ pc' # "notify"
  BY DEF main, getopt_long, option, badOption, operand, Read, dispatch, processFile, End, Goto,
         inHand
<1>2. pc \in Early
  BY DEF main, getopt_long, option, badOption, operand, Read, dispatch, processFile, Early
<1>3. taken' = <<>> /\ given' = [s \in {"parser", "dump"} |-> <<>>]
  BY <1>1, <1>2 DEF Untouched
<1>4. \A s \in Sinks' : given'[s] = <<>>
  BY <1>3 DEF Sinks
<1>5. Len(<<>>) = 0 /\ 0 <= 0 /\ 1..0 = {}
  OBVIOUS
<1> QED BY <1>1, <1>3, <1>4, <1>5 DEF Forwarding, Follows

(* Steps that neither read nor give.                                       *)
LEMMA ForwardingQuiet ==
  ASSUME Forwarding, UNCHANGED <<given, taken, binaryDumpFile>>, complaints \subseteq complaints',
         \/ pc' # "notify" /\ pc \notin {"notify", "ended"}
         \/ pc' = "ended"
         \/ UNCHANGED <<pc, data, count, i, sink, order>>
  PROVE  Forwarding'
<1> SUFFICES ASSUME "numUartRxBytes" \notin complaints'
             PROVE  /\ \A s \in Sinks : Follows(s)'
                    /\ pc' \notin {"notify", "ended"} => \A s \in Sinks : Len(given[s])' = Len(taken)'
                    /\ pc' = "notify" => InHand'
  BY SameSinks DEF Forwarding
<1>1. "numUartRxBytes" \notin complaints
  OBVIOUS
<1>2. \A s \in Sinks : Follows(s)'
  BY <1>1 DEF Forwarding, Follows
<1>3. pc' \notin {"notify", "ended"} => \A s \in Sinks : Len(given[s])' = Len(taken)'
  BY <1>1 DEF Forwarding
<1>4. pc' = "notify" => InHand'
  <2> SUFFICES ASSUME pc' = "notify" PROVE InHand'
    OBVIOUS
  <2>1. UNCHANGED <<pc, data, count, i, sink, order>>
    OBVIOUS
  <2>2. InHand
    BY <1>1, <2>1 DEF Forwarding
  <2> QED BY <2>1, <2>2 DEF InHand
<1> QED BY <1>2, <1>3, <1>4

LEMMA ForwardingRead ==
  TypeOK /\ Control /\ Forwarding /\ readReport => Forwarding'
<1> SUFFICES ASSUME TypeOK, Control, Forwarding, readReport,
                    "numUartRxBytes" \notin complaints'
             PROVE  /\ \A s \in Sinks' : Follows(s)'
                    /\ pc' \notin {"notify", "ended"} => \A s \in Sinks' : Len(given[s])' = Len(taken)'
                    /\ pc' = "notify" => InHand'
  BY DEF Forwarding
<1>1. queue # <<>> /\ pc = "poll"
  BY DEF readReport
<1>2. PICK d \in Seq(Bytes) : d = Head(queue)
  BY <1>1, WithoutFirst DEF TypeOK
<1>3. PICK c \in Nat :
        /\ Len(d) + 1 > 1 \/ c = 0
        /\ data' = d /\ count' = c /\ taken' = taken \o d
        /\ complaints' = IF Len(d) + 1 > 1 /\ WrongLength(c, Len(d) + 1)
                         THEN complaints \cup {"numUartRxBytes"} ELSE complaints
        /\ pc' = IF c > 0 THEN "notify" ELSE "loop"
  BY <1>2, ConstantsAssumption DEF readReport, Goto
<1>4. i' = 0 /\ sink' = 1 /\ UNCHANGED <<given, order, binaryDumpFile>>
  BY DEF readReport, sourceVars
<1>5. Sinks' = Sinks
  BY <1>4, SameSinks
<1>6. PICK f \in Nat : f = Len(d)
  BY LengthOfSequence
<1>7. "numUartRxBytes" \notin complaints
  BY <1>3
<1>8. ~(f + 1 > 1 /\ WrongLength(c, f + 1))
  BY <1>3, <1>6
<1>9. f = 0 \/ c = f
  BY <1>8 DEF WrongLength
<1>10. PICK m \in Nat : m = Len(taken)
  BY LengthOfSequence DEF TypeOK
<1>11. PICK t : t = taken' /\ t = taken \o d
  BY <1>3
<1>12. /\ Len(t) = m + f
       /\ \A k \in 1..m : t[k] = taken[k]
       /\ \A k \in 1..f : t[m + k] = d[k]
  <2>1. PICK s \in Seq(Bytes) : s = taken
    BY DEF TypeOK
  <2>2. /\ Len(s \o d) = Len(s) + Len(d)
        /\ \A k \in 1..Len(s) : (s \o d)[k] = s[k]
        /\ \A k \in 1..Len(d) : (s \o d)[Len(s) + k] = d[k]
    OBVIOUS
  <2>3. t = s \o d /\ Len(s) = m /\ Len(d) = f
    BY <1>6, <1>10, <1>11, <2>1
  <2> QED BY <2>1, <2>2, <2>3
<1>13. \A s \in Sinks : Len(given[s]) = m /\ \A k \in 1..m : given[s][k] = taken[k]
  BY <1>1, <1>7, <1>10 DEF Forwarding, Follows
<1>14. m <= m + f
  OBVIOUS
<1>15. ASSUME NEW s \in Sinks' PROVE Follows(s)'
  <2>1. s \in Sinks /\ given' = given
    BY <1>4, <1>5
  <2> QED BY <1>11, <1>12, <1>13, <1>14, <2>1 DEF Follows
<1>16. pc' \notin {"notify", "ended"} => \A s \in Sinks' : Len(given[s])' = Len(taken)'
  <2> SUFFICES ASSUME pc' \notin {"notify", "ended"} PROVE f = 0
    <3>1. f = 0 => Len(t) = m
      BY <1>12
    <3> QED BY <1>4, <1>5, <1>11, <1>13, <3>1
  <2>1. ~(c > 0)
    BY <1>3
  <2> QED BY <1>9, <2>1
<1>17. pc' = "notify" => InHand'
  <2> SUFFICES ASSUME pc' = "notify" PROVE InHand'
    OBVIOUS
  <2>1. f + 1 > 1
    BY <1>3, <1>6
  <2>2. c = f
    BY <1>9, <2>1
  <2>3. order \in Orders /\ binaryDumpFile \in BOOLEAN
    BY <1>1 DEF Control, AfterOpen, TypeOK
  <2>4. DOMAIN order = 1..Len(order) /\ \A n \in 1..Len(order) : order[n] \in Sinks
    BY <2>3, OrderOfSinks
  <2>5. \A n \in 1..Len(order) : ~(n < 1)
    BY <2>3, OrderOfSinks
  <2>6. m + f - f = m /\ m + 0 = m /\ f <= m + f
    OBVIOUS
  <2>7. \A n \in DOMAIN order' :
          Len(given'[order'[n]]) = m + f - f + 0 + (IF n < 1 THEN 1 ELSE 0)
    BY <1>4, <1>13, <2>4, <2>5, <2>6
  <2>8. \A k \in 1..f : t[m + f - f + k] = d[k]
    BY <1>12, <2>6
  <2> QED BY <1>3, <1>4, <1>6, <1>11, <1>12, <2>2, <2>6, <2>7, <2>8 DEF InHand
<1> QED BY <1>15, <1>16, <1>17

LEMMA ForwardingNotify ==
  TypeOK /\ Control /\ Forwarding /\ notify => Forwarding'
<1> SUFFICES ASSUME TypeOK, Control, Forwarding, notify,
                    "numUartRxBytes" \notin complaints'
             PROVE  /\ \A s \in Sinks' : Follows(s)'
                    /\ pc' \notin {"notify", "ended"} => \A s \in Sinks' : Len(given[s])' = Len(taken)'
                    /\ pc' = "notify" => InHand'
  BY DEF Forwarding
<1>1. /\ pc = "notify" /\ order \in Orders /\ binaryDumpFile \in BOOLEAN
      /\ UNCHANGED <<binaryDumpFile, order, data, count, taken, complaints>>
  BY NotifyStep DEF sourceVars, TypeOK
<1>2. Sinks' = Sinks /\ InHand /\ \A s \in Sinks : Follows(s)
  BY <1>1, SameSinks DEF Forwarding
<1>3. PICK l \in 1..2 : l = Len(order)
  <2>1. Len(order) \in 1..2
    BY <1>1, OrderOfSinks
  <2> QED BY <2>1
<1>4. /\ DOMAIN order = 1..l /\ sink \in 1..l
      /\ \A n \in 1..l : order[n] \in Sinks
      /\ \A n \in 1..l : order[n] = order[sink] => n = sink
      /\ \A s \in Sinks : \E n \in 1..l : order[n] = s
  <2>1. sink \in 1..l
    BY <1>3, NotifyStep
  <2> QED BY <1>1, <1>3, <2>1, OrderOfSinks
<1>5. PICK m \in Nat : m = Len(taken)
  BY LengthOfSequence DEF TypeOK
<1>6. PICK f \in Nat : f = Len(data)
  BY LengthOfSequence DEF TypeOK
<1>7. count = f /\ i \in Nat /\ i < f /\ f <= m
  BY <1>2, <1>5, <1>6, NotifyStep DEF InHand
<1>8. PICK b \in Nat : b = m - f /\ m = b + f
  <2>1. m - f \in Nat /\ m = (m - f) + f
    BY <1>7
  <2> QED BY <2>1
<1>9. \A n \in 1..l : Len(given[order[n]]) = b + i + (IF n < sink THEN 1 ELSE 0)
  BY <1>2, <1>4, <1>5, <1>6, <1>8 DEF InHand
<1>10. PICK x \in Bytes : x = ByteAt(i + 1) /\ x = data[i + 1] /\ x = taken[b + i + 1]
  <2>1. i + 1 \in 1..f /\ i + 1 <= f
    BY <1>7
  <2>2. ByteAt(i + 1) = data[i + 1]
    BY <1>6, <2>1 DEF ByteAt
  <2>3. taken[b + (i + 1)] = data[i + 1]
    BY <1>2, <1>5, <1>6, <1>8, <2>1 DEF InHand
  <2>4. b + (i + 1) = b + i + 1
    BY <1>7
  <2> QED BY <2>2, <2>3, <2>4, NotifyStep
<1>11. PICK g \in Seq(Bytes) : g = given[order[sink]]
  <2>1. order[sink] \in {"parser", "dump"}
    BY NotifyStep
  <2> QED BY <2>1 DEF TypeOK
<1>12. Len(g) = b + i
  <2>1. ~(sink < sink)
    BY <1>4
  <2>2. b + i + 0 = b + i
    BY <1>7
  <2> QED BY <1>4, <1>9, <1>11, <2>1, <2>2
<1>13. PICK h \in Seq(Bytes) : h = Append(g, x)
  BY Appended
<1>14. Len(h) = b + i + 1 /\ h[b + i + 1] = x /\ \A k \in 1..b + i : h[k] = g[k]
  BY <1>12, <1>13, Appended
<1>15. given' = [given EXCEPT ![order[sink]] = h]
  BY <1>10, <1>11, <1>13, NotifyStep
<1>16. \A s \in Sinks : given'[s] = IF s = order[sink] THEN h ELSE given[s]
  BY <1>15 DEF Sinks, TypeOK
<1>17. b + i + 1 <= m
  BY <1>7, <1>8
<1>18. ASSUME NEW s \in Sinks PROVE Follows(s)'
  <2>1. CASE s = order[sink]
    <3>1. \A k \in 1..b + i : h[k] = taken[k]
      BY <1>2, <1>11, <1>12, <1>14, <2>1 DEF Follows
    <3>2. \A k \in 1..b + i + 1 : k \in 1..b + i \/ k = b + i + 1
      BY <1>7
    <3>3. \A k \in 1..b + i + 1 : h[k] = taken[k]
      BY <1>10, <1>14, <3>1, <3>2
    <3>4. given'[s] = h /\ taken' = taken
      BY <1>1, <1>16, <2>1
    <3> QED BY <1>5, <1>14, <1>17, <3>3, <3>4 DEF Follows
  <2>2. CASE s # order[sink]
    BY <1>1, <1>2, <1>16, <2>2 DEF Follows
  <2> QED BY <2>1, <2>2
<1>19. \A n \in 1..l : Len(given'[order[n]]) = IF n <= sink THEN b + i + 1 ELSE b + i
  <2> SUFFICES ASSUME NEW n \in 1..l
               PROVE  Len(given'[order[n]]) = IF n <= sink THEN b + i + 1 ELSE b + i
    OBVIOUS
  <2>1. CASE n = sink
    <3>1. given'[order[n]] = h /\ n <= sink
      BY <1>4, <1>16, <2>1
    <3> QED BY <1>14, <3>1
  <2>2. CASE n # sink
    <3>1. given'[order[n]] = given[order[n]]
      BY <1>4, <1>16, <2>2
    <3>2. Len(given[order[n]]) = b + i + (IF n < sink THEN 1 ELSE 0)
      BY <1>9
    <3>3. (n < sink) = (n <= sink)
      BY <1>4, <2>2
    <3>4. (IF n < sink THEN 1 ELSE 0) = IF n <= sink THEN 1 ELSE 0
      BY <3>3
    <3> QED BY <1>7, <3>1, <3>2, <3>4
  <2> QED BY <2>1, <2>2
<1>20. CASE sink < l /\ sink' = sink + 1 /\ i' = i /\ pc' = "notify"
  <2>1. \A n \in 1..l : (n <= sink) = (n < sink + 1)
    BY <1>4
  <2>2. \A n \in 1..l : Len(given'[order[n]]) = b + i + (IF n < sink + 1 THEN 1 ELSE 0)
    BY <1>7, <1>19, <2>1
  <2>3. InHand'
    BY <1>1, <1>2, <1>4, <1>5, <1>6, <1>8, <1>20, <2>2 DEF InHand
  <2> QED BY <1>2, <1>18, <1>20, <2>3
<1>21. CASE /\ sink = l /\ sink' = 1 /\ i' = i + 1
            /\ \/ pc' = "notify" /\ i + 1 < count
               \/ pc' = "loop" /\ i + 1 = count
  <2>1. \A n \in 1..l : Len(given'[order[n]]) = b + (i + 1) /\ ~(n < 1)
    <3>1. \A n \in 1..l : n <= sink /\ ~(n < 1)
      BY <1>21
    <3> QED BY <1>7, <1>19, <3>1
  <2>2. CASE pc' = "notify"
    <3>1. \A n \in 1..l : Len(given'[order[n]]) = b + (i + 1) + (IF n < 1 THEN 1 ELSE 0)
      BY <1>7, <2>1
    <3>2. InHand'
      BY <1>1, <1>2, <1>4, <1>5, <1>6, <1>8, <1>21, <3>1 DEF InHand
    <3> QED BY <1>2, <1>18, <2>2, <3>2
  <2>3. CASE pc' = "loop" /\ i + 1 = count
    <3>1. b + (i + 1) = m
      BY <1>7, <1>8, <2>3
    <3>2. \A s \in Sinks : Len(given'[s]) = m
      BY <1>4, <2>1, <3>1
    <3> QED BY <1>1, <1>2, <1>5, <1>18, <2>3, <3>2
  <2> QED BY <1>21, <2>2, <2>3
<1> QED BY <1>3, <1>20, <1>21, NotifyStep

LEMMA ForwardingStep ==
  TypeOK /\ Control /\ Untouched /\ Forwarding /\ [ProgramNext]_programVars => Forwarding'
<1> SUFFICES ASSUME TypeOK, Control, Untouched, Forwarding, [ProgramNext]_programVars
             PROVE  Forwarding'
  OBVIOUS
<1>1. ASSUME Process, ~readReport, ~notify PROVE Forwarding'
  <2>1. UNCHANGED <<given, taken, binaryDumpFile>> /\ complaints \subseteq complaints'
    BY <1>1 DEF Process, processUSB, setupSIGINTHandler, hid_open, setupUart, enableUart, loop,
                readTimedOut, readFailed, disableUart, SetUart, cleanup, inHand, sourceVars
  <2>2. pc' # "notify" /\ pc \notin {"notify", "ended"}
    BY <1>1 DEF Process, processUSB, setupSIGINTHandler, hid_open, setupUart, enableUart, loop,
                readTimedOut, readFailed, disableUart, cleanup, Goto, End
  <2> QED BY <2>1, <2>2, ForwardingQuiet
<1>2. ASSUME sigint PROVE Forwarding'
  <2>1. /\ UNCHANGED <<given, taken, binaryDumpFile, data, count, i, sink, order>>
        /\ complaints \subseteq complaints'
        /\ pc' = "ended" \/ pc' = pc \/ (pc = "poll" /\ pc' = "loop")
    BY <1>2 DEF sigint, End, inHand, sourceVars
  <2> QED BY <2>1, ForwardingQuiet
<1>3. ASSUME sigterm PROVE Forwarding'
  <2>1. /\ UNCHANGED <<given, taken, binaryDumpFile>>
        /\ complaints \subseteq complaints' /\ pc' = "ended"
    BY <1>3 DEF sigterm, End, inHand, sourceVars
  <2> QED BY <2>1, ForwardingQuiet
<1>4. ASSUME report \/ unplug \/ UNCHANGED programVars PROVE Forwarding'
  <2>1. /\ UNCHANGED <<given, taken, binaryDumpFile, pc, data, count, i, sink, order>>
        /\ complaints \subseteq complaints'
    BY <1>4 DEF report, Report, unplug, programVars, vars, inHand, sourceVars
  <2> QED BY <2>1, ForwardingQuiet
<1> QED BY <1>1, <1>2, <1>3, <1>4, ForwardingMain, ForwardingRead, ForwardingNotify
        DEF ProgramNext, Program, World

(* The property, from the two parts of the invariant it speaks of.         *)
LEMMA ForwardedFromParts ==
  TypeOK /\ Forwarding /\ Numbered => ForwardedExactly
<1> SUFFICES ASSUME TypeOK, Forwarding, Numbered, "numUartRxBytes" \notin complaints
             PROVE  /\ \A s \in Sinks : /\ Prefix(given[s], taken)
                                        /\ pc \notin {"notify", "ended"} => given[s] = taken
                    /\ \A k, l \in 1..Len(taken) : k < l => taken[k] < taken[l]
                    /\ \A b \in 1..produced : Accounted(b)
  BY DEF ForwardedExactly, Accounted
<1>1. ASSUME NEW s \in Sinks
      PROVE  /\ Prefix(given[s], taken)
             /\ pc \notin {"notify", "ended"} => given[s] = taken
  <2>1. PICK g \in Seq(Bytes) : g = given[s]
    <3>1. s \in {"parser", "dump"}
      BY DEF Sinks
    <3> QED BY <3>1 DEF TypeOK
  <2>2. PICK t \in Seq(Bytes) : t = taken
    BY DEF TypeOK
  <2>3. Len(g) <= Len(t) /\ \A k \in 1..Len(g) : g[k] = t[k]
    BY <2>1, <2>2 DEF Forwarding, Follows
  <2>4. Prefix(g, t)
    BY <2>3, PrefixOfLonger
  <2>5. pc \notin {"notify", "ended"} => g = t
    <3> SUFFICES ASSUME pc \notin {"notify", "ended"} PROVE g = t
      OBVIOUS
    <3>1. Len(g) = Len(t)
      BY <2>1, <2>2 DEF Forwarding
    <3> QED BY <2>3, <3>1
  <2> QED BY <2>1, <2>2, <2>4, <2>5
<1>2. \A k, l \in 1..Len(taken) : k < l => taken[k] < taken[l]
  BY DEF Numbered, TakenIncrease
<1>3. \A b \in 1..produced : Accounted(b)
  BY DEF Numbered
<1> QED BY <1>1, <1>2, <1>3

-----------------------------------------------------------------------------
(* After Ctrl-C.                                                           *)

BeforeHandler == {"main", "processFile", "processUSB", "setupSIGINTHandler"}

(* The flag can be set only once the handler is installed.                 *)
NotYet == pc \in BeforeHandler => ~handler /\ ~killed

LEMMA NotYetStep ==
  ASSUME TypeOK, Control, NotYet, [ProgramNext]_programVars
  PROVE  NotYet'
<1>1. ASSUME main \/ processUSB PROVE NotYet'
  <2>1. pc \in BeforeHandler /\ UNCHANGED <<handler, killed>>
    BY <1>1 DEF main, getopt_long, option, badOption, operand, Read, dispatch, processFile,
                processUSB, signals, BeforeHandler
  <2> QED BY <2>1 DEF NotYet
<1>2. ASSUME setupSIGINTHandler \/ hid_open \/ cleanup PROVE NotYet'
  BY <1>2 DEF setupSIGINTHandler, hid_open, cleanup, Goto, End, BeforeHandler, NotYet
<1>3. ASSUME setupUart \/ enableUart \/ disableUart PROVE NotYet'
  BY <1>3 DEF setupUart, enableUart, disableUart, Goto, BeforeHandler, NotYet
<1>4. ASSUME loop \/ readTimedOut \/ readFailed PROVE NotYet'
  BY <1>4 DEF loop, readTimedOut, readFailed, Goto, BeforeHandler, NotYet
<1>5. ASSUME readReport PROVE NotYet'
  <2>1. pc' \in {"notify", "loop"}
    BY <1>5 DEF readReport, Goto
  <2> QED BY <2>1 DEF BeforeHandler, NotYet
<1>6. ASSUME notify PROVE NotYet'
  BY <1>6, NotifyStep DEF BeforeHandler, NotYet
<1>7. ASSUME sigint PROVE NotYet'
  <2>1. CASE handler
    <3>1. pc' = pc \/ pc' = "loop"
      BY <1>7, <2>1 DEF sigint
    <3> QED BY <2>1, <3>1 DEF NotYet, BeforeHandler
  <2>2. CASE ~handler
    BY <1>7, <2>2 DEF sigint, End, NotYet, BeforeHandler
  <2> QED BY <2>1, <2>2
<1>8. ASSUME sigterm PROVE NotYet'
  BY <1>8 DEF sigterm, End, NotYet, BeforeHandler
<1>9. ASSUME report \/ unplug \/ UNCHANGED programVars PROVE NotYet'
  <2>1. UNCHANGED <<pc, handler, killed>>
    BY <1>9 DEF report, Report, unplug, programVars, vars, signals
  <2> QED BY <2>1 DEF NotYet
<1> QED BY <1>1, <1>2, <1>3, <1>4, <1>5, <1>6, <1>7, <1>8, <1>9
        DEF ProgramNext, Program, Process, World

(* The types the distance to the end is computed from.                     *)
LEMMA StepsLeftType ==
  ASSUME TypeOK, Control
  PROVE  /\ MaxLength \in Nat /\ count \in Nat /\ count <= MaxLength /\ i \in Nat
         /\ pc = "notify" => i < count /\ sink \in {1, 2}
         /\ StepsLeft \in Nat
<1>1. MaxLength \in Nat /\ count \in Nat /\ count <= MaxLength /\ i \in Nat
  BY ConstantsAssumption DEF TypeOK
<1>2. pc = "notify" => i < count /\ sink \in {1, 2}
  <2>1. Cardinality(Sinks) \in {1, 2}
    BY SinkCount DEF TypeOK
  <2> QED BY <2>1 DEF TypeOK, Control
<1>3. pc = "notify" => 4 + 2 * (count - i) - sink \in Nat
  BY <1>1, <1>2
<1> QED BY <1>1, <1>2, <1>3 DEF StepsLeft

(* Once the flag is set, each step of the process leaves fewer to come.    *)
LEMMA ProcessNearsTheEnd ==
  ASSUME TypeOK, Control, NotYet, killed, Program
  PROVE  killed' /\ StepsLeft' < StepsLeft
<1> DEFINE Nearer == killed' /\ StepsLeft' < StepsLeft
<1>1. pc \notin BeforeHandler
  BY DEF NotYet
<1>2. ~(main \/ processUSB \/ setupSIGINTHandler)
  BY <1>1 DEF main, getopt_long, option, badOption, operand, Read, dispatch, processFile,
              processUSB, setupSIGINTHandler, BeforeHandler
<1>3. ASSUME hid_open PROVE Nearer
  BY <1>3 DEF hid_open, Goto, End, signals, StepsLeft
<1>4. ASSUME setupUart PROVE Nearer
  BY <1>4 DEF setupUart, Goto, signals, StepsLeft
<1>5. ASSUME enableUart PROVE Nearer
  BY <1>5 DEF enableUart, SetUart, Goto, signals, StepsLeft
<1>6. ASSUME loop PROVE Nearer
  BY <1>6 DEF loop, Goto, signals, StepsLeft
<1>7. ASSUME readReport PROVE Nearer
  <2>1. MaxLength \in Nat
    BY ConstantsAssumption
  <2>2. /\ pc = "poll" /\ killed' /\ i' = 0 /\ sink' = 1
        /\ pc' \in {"notify", "loop"}
    BY <1>7 DEF readReport, Goto, signals
  <2>3. count' \in 0..MaxLength
    BY <1>7, <2>1 DEF readReport
  <2>4. count' \in Nat /\ count' <= MaxLength
    BY <2>1, <2>3
  <2>5. StepsLeft = 4 + 2 * MaxLength
    BY <2>2 DEF StepsLeft
  <2>6. CASE pc' = "notify"
    <3>1. StepsLeft' = 4 + 2 * (count' - 0) - 1
      BY <2>2, <2>6 DEF StepsLeft
    <3>2. \A c, m \in Nat : c <= m => 4 + 2 * (c - 0) - 1 < 4 + 2 * m
      OBVIOUS
    <3> QED BY <2>1, <2>2, <2>4, <2>5, <3>1, <3>2, Zenon
  <2>7. CASE pc' = "loop"
    <3>1. StepsLeft' = 3
      BY <2>7 DEF StepsLeft
    <3> QED BY <2>1, <2>2, <2>5, <3>1
  <2> QED BY <2>2, <2>6, <2>7
<1>8. ASSUME readTimedOut \/ readFailed PROVE Nearer
  <2>1. pc = "poll" /\ pc' = "loop" /\ killed'
    BY <1>8 DEF readTimedOut, readFailed, Goto, signals
  <2>2. StepsLeft = 4 + 2 * MaxLength /\ StepsLeft' = 3
    BY <2>1 DEF StepsLeft
  <2> QED BY <2>1, <2>2, StepsLeftType
<1>9. ASSUME notify PROVE Nearer
  <2>1. pc = "notify" /\ killed' /\ count' = count
    BY <1>9, NotifyStep DEF signals
  <2>2. StepsLeft = 4 + 2 * (count - i) - sink
    BY <2>1 DEF StepsLeft
  <2>3. pc' = "notify" => StepsLeft' = 4 + 2 * (count - i') - sink'
    BY <2>1 DEF StepsLeft
  <2>4. pc' = "loop" => StepsLeft' = 3
    BY DEF StepsLeft
  <2>5. i < count /\ sink \in {1, 2} /\ i \in Nat /\ count \in Nat
    BY <2>1, StepsLeftType
  <2>6. CASE sink' = sink + 1 /\ i' = i /\ pc' = "notify"
    BY <2>1, <2>2, <2>3, <2>5, <2>6
  <2>7. CASE sink' = 1 /\ i' = i + 1 /\ pc' = "notify"
    BY <2>1, <2>2, <2>3, <2>5, <2>7
  <2>8. CASE pc' = "loop"
    BY <2>1, <2>2, <2>4, <2>5, <2>8
  <2> QED BY <1>9, <2>6, <2>7, <2>8, NotifyStep
<1>10. ASSUME disableUart PROVE Nearer
  BY <1>10 DEF disableUart, SetUart, Goto, signals, StepsLeft
<1>11. ASSUME cleanup PROVE Nearer
  BY <1>11 DEF cleanup, End, signals, StepsLeft
<1> QED BY <1>2, <1>3, <1>4, <1>5, <1>6, <1>7, <1>8, <1>9, <1>10, <1>11
        DEF Program, Process

(* Nothing that happens around the process takes it away from its end.     *)
LEMMA WorldDelaysNothing ==
  ASSUME TypeOK, Control, killed, World \/ UNCHANGED programVars
  PROVE  killed' /\ StepsLeft' <= StepsLeft
<1>1. ~sigint
  BY DEF sigint
<1>2. ASSUME sigterm PROVE killed' /\ StepsLeft' <= StepsLeft
  <2>1. StepsLeft' = 0 /\ killed'
    BY <1>2 DEF sigterm, End, signals, StepsLeft
  <2> QED BY <2>1, StepsLeftType
<1>3. ASSUME report \/ unplug \/ UNCHANGED programVars PROVE killed' /\ StepsLeft' <= StepsLeft
  <2>1. UNCHANGED <<pc, killed, count, i, sink>>
    BY <1>3 DEF report, Report, unplug, programVars, vars, signals, inHand
  <2>2. StepsLeft' = StepsLeft
    BY <2>1 DEF StepsLeft
  <2> QED BY <2>1, <2>2, StepsLeftType
<1> QED BY <1>1, <1>2, <1>3 DEF World

-----------------------------------------------------------------------------
(* ByteSource implements ByteChannel.                                      *)

(* What was dropped is neither read nor waiting; and no byte is 0.         *)
Gone == dropped \cup {0}

Apart ==
  /\ \A b \in dropped : b <= produced
  /\ \A k \in 1..Len(taken) : taken[k] \notin Gone
  /\ \A q \in 1..Len(queue) : \A k \in 1..Len(queue[q]) :
       queue[q][k] \notin Gone

LEMMA ApartRead ==
  ASSUME TypeOK, Apart, queue # <<>>,
         taken' = taken \o Head(queue), queue' = Tail(queue),
         UNCHANGED <<produced, dropped>>
  PROVE  Apart'
<1>1. PICK first \in Seq(Bytes) : first = Head(queue) /\ first = queue[1]
  BY WithoutFirst DEF TypeOK
<1>2. PICK s \in Seq(Bytes) : s = taken
  BY DEF TypeOK
<1>3. PICK m, f, n \in Nat : m = Len(s) /\ f = Len(first) /\ n = Len(queue)
  BY LengthOfSequence DEF TypeOK
<1>4. n # 0
  BY <1>3, LengthOfSequence DEF TypeOK
<1>5. PICK t : t = s \o first
  OBVIOUS
<1>6. /\ Len(t) = m + f
      /\ \A k \in 1..m : t[k] = s[k]
      /\ \A k \in 1..f : t[m + k] = first[k]
  BY <1>3, <1>5
<1>7. \A k \in 1..f : first[k] \notin Gone
  <2>1. 1 \in 1..Len(queue)
    BY <1>3, <1>4
  <2>2. \A k \in 1..Len(queue[1]) : queue[1][k] \notin Gone
    BY <2>1 DEF Apart
  <2> QED BY <1>1, <1>3, <2>2
<1>8. ASSUME NEW k \in 1..m + f PROVE t[k] \notin Gone
  <2>1. CASE k \in 1..m
    BY <1>2, <1>3, <1>6, <2>1 DEF Apart
  <2>2. CASE k \notin 1..m
    <3>1. k - m \in 1..f /\ m + (k - m) = k
      BY <2>2
    <3>2. t[k] = first[k - m]
      BY <1>6, <3>1
    <3> QED BY <1>7, <3>1, <3>2
  <2> QED BY <2>1, <2>2
<1>9. /\ Len(queue') = n - 1
       /\ \A q \in 1..n - 1 : queue'[q] = queue[q + 1] /\ q + 1 \in 1..n
  BY <1>3, WithoutFirst DEF TypeOK
<1>10. \A q \in 1..n - 1 : \A k \in 1..Len(queue'[q]) :
         queue'[q][k] \notin Gone
  BY <1>3, <1>9 DEF Apart
<1>11. taken' = t
  BY <1>1, <1>2, <1>5
<1> QED BY <1>6, <1>8, <1>9, <1>10, <1>11 DEF Apart, Gone

LEMMA ApartSend ==
  ASSUME TypeOK, Numbered, Apart, report
  PROVE  Apart'
<1>1. PICK size \in 0..ReportSize : Report(size)
  BY DEF report
<1>2. PICK new \in Seq(Bytes) :
        /\ Len(new) = size
        /\ \A k \in 1..size : new[k] = produced + k
        /\ \/ /\ Len(queue) < QueueSize
              /\ queue' = Append(queue, new)
              /\ dropped' = dropped
           \/ /\ dropped' = dropped \cup {new[k] : k \in 1..size}
              /\ queue' = queue
        /\ produced' = produced + size
  BY <1>1, ReportStep
<1>3. size \in Nat /\ produced \in Nat
  BY ConstantsAssumption DEF TypeOK, Bytes
<1>4. UNCHANGED taken
  BY <1>1 DEF Report, inHand
<1>5. \A b \in dropped : b \in Nat /\ b <= produced
  <2>1. dropped \subseteq Bytes
    BY DEF TypeOK
  <2>2. \A b \in dropped : b \in Nat
    BY <2>1 DEF Bytes
  <2> QED BY <2>2 DEF Apart
<1>6. PICK n \in Nat : n = Len(queue)
  BY LengthOfSequence DEF TypeOK
<1>7. CASE /\ dropped' = dropped \cup {new[k] : k \in 1..size}
           /\ queue' = queue
  <2>1. \A b \in dropped' : b \in dropped \/ \E k \in 1..size : b = produced + k
    BY <1>2, <1>7
  <2>2. \A k \in 1..size : produced < produced + k /\ produced + k <= produced + size
    BY <1>3
  <2>3. \A b \in dropped' : b <= produced + size
    BY <1>3, <1>5, <2>1, <2>2
  <2>4. ASSUME NEW x \in Nat, x <= produced, x \notin Gone PROVE x \notin Gone'
    BY <1>3, <2>1, <2>2, <2>4 DEF Gone
  <2>5. ASSUME NEW k \in 1..Len(taken) PROVE taken[k] \notin Gone'
    <3>1. taken[k] \in Nat
      <4>1. taken[k] \in Bytes
        BY ElementOfSequence DEF TypeOK
      <4> QED BY <4>1 DEF Bytes
    <3> QED BY <2>4, <3>1 DEF Apart, Numbered, SentBefore
  <2>6. ASSUME NEW q \in 1..n, NEW k \in 1..Len(queue[q])
        PROVE  queue[q][k] \notin Gone'
    <3>1. queue[q] \in Seq(Bytes)
      BY <1>6, ElementOfSequence DEF TypeOK
    <3>2. PICK p \in Seq(Bytes) : p = queue[q]
      BY <3>1
    <3>3. p[k] \in Nat
      <4>1. p[k] \in Bytes
        BY <3>2, ElementOfSequence
      <4> QED BY <4>1 DEF Bytes
    <3> QED BY <1>6, <2>4, <3>2, <3>3 DEF Apart, Numbered, SentBefore
  <2> QED BY <1>2, <1>4, <1>6, <1>7, <2>3, <2>5, <2>6 DEF Apart
<1>8. CASE /\ queue' = Append(queue, new)
           /\ dropped' = dropped
  <2>1. /\ Len(queue') = n + 1 /\ queue'[n + 1] = new
        /\ \A q \in 1..n : queue'[q] = queue[q]
    BY <1>6, <1>8, Appended DEF TypeOK
  <2>2. \A b \in dropped : b <= produced + size
    BY <1>3, <1>5
  <2>3. ASSUME NEW k \in 1..Len(new) PROVE new[k] \notin Gone
    <3>1. k \in 1..size /\ new[k] = produced + k
      BY <1>2
    <3>2. ~(produced + k <= produced) /\ produced + k # 0
      BY <1>3, <3>1
    <3> QED BY <1>5, <3>1, <3>2 DEF Gone
  <2>4. ASSUME NEW q \in 1..n + 1, NEW k \in 1..Len(queue'[q])
        PROVE  queue'[q][k] \notin Gone
    <3>1. CASE q \in 1..n
      BY <1>6, <2>1, <3>1 DEF Apart
    <3>2. CASE q = n + 1
      BY <2>1, <2>3, <3>2
    <3> QED BY <3>1, <3>2
  <2>5. Gone' = Gone
    BY <1>8 DEF Gone
  <2> QED BY <1>2, <1>4, <1>8, <2>1, <2>2, <2>4, <2>5 DEF Apart
<1> QED BY <1>2, <1>7, <1>8

LEMMA ApartStep ==
  ASSUME TypeOK, Numbered, Apart, [ProgramNext]_programVars
  PROVE  Apart'
<1>1. ASSUME UNCHANGED <<taken, queue, produced, dropped>> PROVE Apart'
  BY <1>1 DEF Apart, Gone
<1>2. ASSUME readReport PROVE Apart'
  <2>1. /\ queue # <<>> /\ taken' = taken \o Head(queue) /\ queue' = Tail(queue)
        /\ UNCHANGED <<produced, dropped>>
    BY <1>2 DEF readReport
  <2> QED BY <2>1, ApartRead
<1>3. ASSUME report PROVE Apart'
  BY <1>3, ApartSend
<1> QED BY <1>1, <1>2, <1>3, BytesUntouched

(* A report sent is a Send of the channel; an empty one is no step of it.  *)
LEMMA SendIsSend ==
  ASSUME TypeOK, report
  PROVE  Channel!Send \/ UNCHANGED Channel!channelVars
<1>1. PICK size \in 0..ReportSize : Report(size)
  BY DEF report
<1>2. PICK new \in Seq(Bytes) :
        /\ \A k \in 1..size : new[k] = produced + k
        /\ dropped' = dropped \/ dropped' = dropped \cup {new[k] : k \in 1..size}
        /\ produced' = produced + size
  BY <1>1, ReportStep
<1>3. size \in Nat /\ produced \in Nat
  BY ConstantsAssumption DEF TypeOK, Bytes
<1>4. UNCHANGED <<given, complaints>>
  BY <1>1 DEF Report
<1>5. CASE size = 0
  <2>1. produced' = produced /\ 1..size = {}
    BY <1>2, <1>3, <1>5
  <2>2. dropped' = dropped
    BY <1>2, <2>1
  <2> QED BY <1>4, <2>1, <2>2 DEF Channel!channelVars
<1>6. CASE size # 0
  <2>1. {new[k] : k \in 1..size} = produced + 1 .. produced + size
    <3>1. \A k \in 1..size : new[k] \in produced + 1 .. produced + size
      BY <1>2, <1>3
    <3>2. ASSUME NEW b \in produced + 1 .. produced + size
          PROVE  \E k \in 1..size : new[k] = b
      <4>1. b - produced \in 1..size /\ produced + (b - produced) = b
        BY <1>3
      <4> QED BY <1>2, <4>1
    <3> QED BY <3>1, <3>2
  <2>2. produced' > produced
    BY <1>2, <1>3, <1>6
  <2>3. dropped' = dropped \/ dropped' = dropped \cup (produced + 1 .. produced')
    BY <1>2, <2>1
  <2> QED BY <1>4, <2>2, <2>3 DEF Channel!Send
<1> QED BY <1>5, <1>6

(* As long as no length was complained about, the byte that a sink is      *)
(* called with is the next one of those that were not dropped.             *)
LEMMA NotifyDelivers ==
  ASSUME Inv, Apart, notify, "numUartRxBytes" \notin complaints
  PROVE  \E s \in {"parser", "dump"} : Channel!Deliver(s)
<1>1. /\ pc = "notify" /\ order \in Orders /\ binaryDumpFile \in BOOLEAN
      /\ sink \in 1..Len(order) /\ order[sink] \in Sinks
      /\ UNCHANGED <<meter, complaints>>
  BY NotifyStep DEF Inv, TypeOK
<1>2. PICK s \in {"parser", "dump"} : s = order[sink]
  BY NotifyStep DEF Inv
<1>3. InHand /\ Follows(s)
  BY <1>1, <1>2 DEF Inv, Forwarding
<1>4. PICK t \in Seq(Bytes) : t = taken
  BY DEF Inv, TypeOK
<1>5. PICK m \in Nat : m = Len(t)
  BY <1>4
<1>6. PICK f \in Nat : f = Len(data)
  BY LengthOfSequence DEF Inv, TypeOK
<1>7. count = f /\ i \in Nat /\ i < f /\ f <= m
  BY <1>3, <1>4, <1>5, <1>6, NotifyStep DEF InHand, Inv
<1>8. PICK n \in Nat : n = m - f + i
  BY <1>7
<1>9. PICK g \in Seq(Bytes) : g = given[s]
  BY DEF Inv, TypeOK
<1>10. Len(g) = n /\ n + 1 \in 1..m
  <2>1. sink \in DOMAIN order /\ ~(sink < sink)
    BY <1>1, OrderOfSinks DEF Inv
  <2>2. Len(given[order[sink]]) = m - f + i + 0
    BY <1>3, <1>4, <1>5, <1>6, <2>1 DEF InHand
  <2> QED BY <1>2, <1>7, <1>8, <1>9, <2>2
<1>11. PICK b \in Bytes : b = ByteAt(i + 1)
  BY NotifyStep DEF Inv
<1>12. b = t[n + 1]
  <2>1. i + 1 \in 1..f
    BY <1>7
  <2>2. ByteAt(i + 1) = data[i + 1]
    BY <1>6, <2>1 DEF ByteAt
  <2>3. taken[m - f + (i + 1)] = data[i + 1]
    BY <1>3, <1>4, <1>5, <1>6, <2>1 DEF InHand
  <2>4. m - f + (i + 1) = n + 1
    BY <1>7, <1>8
  <2> QED BY <1>4, <1>11, <2>2, <2>3, <2>4
<1>13. \A k \in 1..m : t[k] \in Bytes
  BY <1>5, ElementOfSequence
<1>14. \A k \in 1..m : t[k] \in Nat
  BY <1>13 DEF Bytes
<1>15. PICK last \in Nat : last = (IF g = <<>> THEN 0 ELSE g[Len(g)])
  <2>1. g # <<>> => g[Len(g)] \in Bytes
    BY <1>9
  <2> QED BY <2>1 DEF Bytes
<1>16. n # 0 => n \in 1..m /\ last = t[n]
  <2>1. ASSUME n # 0 PROVE last = t[n]
    <3>1. g # <<>> /\ n \in 1..Len(g)
      BY <1>10, <2>1
    <3>2. g[n] = t[n]
      BY <1>3, <1>4, <1>9, <3>1 DEF Follows
    <3> QED BY <1>10, <1>15, <3>1, <3>2
  <2> QED BY <1>10, <2>1
<1>17. \A k, l \in 1..m : k < l => t[k] < t[l]
  BY <1>4, <1>5 DEF Inv, Numbered, TakenIncrease
<1>18. b \in last + 1 .. produced
  <2>1. b <= produced
    BY <1>4, <1>5, <1>10, <1>12 DEF Inv, Numbered, SentBefore
  <2>2. n # 0 => last < b
    <3>1. n < n + 1
      OBVIOUS
    <3> QED BY <1>10, <1>12, <1>16, <1>17, <3>1
  <2>3. n = 0 => last = 0
    BY <1>9, <1>10, <1>15
  <2>4. b \in Nat /\ produced \in Nat
    BY DEF Bytes, Inv, TypeOK
  <2>5. b # 0
    BY <1>4, <1>5, <1>10, <1>12 DEF Apart, Gone
  <2> QED BY <2>1, <2>2, <2>3, <2>4, <2>5
<1>19. b \notin dropped
  BY <1>4, <1>5, <1>10, <1>12 DEF Apart, Gone
<1>20. ASSUME NEW c \in last + 1 .. b - 1 PROVE c \in dropped
  <2>1. c \in 1..produced /\ c \in Nat /\ last < c /\ c < b
    BY <1>18 DEF Bytes, Inv, TypeOK
  <2>2. Accounted(c)
    BY <2>1 DEF Inv, Numbered
  <2>3. ASSUME NEW k \in 1..m, t[k] = c PROVE FALSE
    <3>1. k < n + 1
      <4>1. CASE k = n + 1
        BY <1>12, <2>1, <2>3, <4>1
      <4>2. CASE n + 1 < k
        <5>1. t[n + 1] < t[k]
          BY <1>10, <1>17, <4>2
        <5> QED BY <1>12, <2>1, <2>3, <5>1 DEF Bytes
      <4> QED BY <4>1, <4>2
    <3>2. n # 0 /\ (k = n \/ k < n)
      BY <3>1
    <3>3. t[k] = t[n] \/ t[k] < t[n]
      BY <1>16, <1>17, <3>2
    <3> QED BY <1>16, <2>1, <2>3, <3>2, <3>3
  <2>4. ASSUME NEW q \in 1..Len(queue), NEW l \in 1..Len(queue[q]),
               queue[q][l] = c
        PROVE  FALSE
    <3>1. t[n + 1] < queue[q][l]
      BY <1>4, <1>5, <1>10 DEF Inv, Numbered, TakenBeforeQueue
    <3> QED BY <1>12, <2>1, <2>4, <3>1 DEF Bytes
  <2> QED BY <1>4, <1>5, <2>2, <2>3, <2>4 DEF Accounted
<1>21. Channel!Last(s) = last
  BY <1>9, <1>15 DEF Channel!Last
<1>22. Channel!Give(s, b)
  <2>1. given' = [given EXCEPT ![s] = Append(given[s], b)]
    BY <1>2, <1>11, NotifyStep DEF Inv
  <2> QED BY <1>1, <2>1 DEF Channel!Give, meter
<1>23. Channel!Deliver(s)
  BY <1>18, <1>19, <1>20, <1>21, <1>22 DEF Channel!Deliver
<1> QED BY <1>23

(* Everything but a report sent and a sink called leaves the channel as it *)
(* is, or ends its promise.                                                *)
LEMMA ChannelKept ==
  ASSUME [ProgramNext]_programVars, ~notify, ~report
  PROVE  Channel!Distrust \/ UNCHANGED Channel!channelVars
<1>1. UNCHANGED <<produced, dropped>>
  <2>1. ASSUME readReport PROVE UNCHANGED <<produced, dropped>>
    BY <2>1 DEF readReport
  <2> QED BY <2>1, BytesUntouched
<1>2. UNCHANGED given
  <2>1. ASSUME Process PROVE UNCHANGED given
    BY <2>1 DEF Process, processUSB, setupSIGINTHandler, hid_open, setupUart, enableUart, loop,
                readReport, readTimedOut, readFailed, disableUart, SetUart, cleanup
  <2>2. ASSUME World \/ main \/ UNCHANGED programVars PROVE UNCHANGED given
    BY <2>2 DEF World, sigint, sigterm, unplug, main, programVars, vars
  <2> QED BY <2>1, <2>2 DEF ProgramNext, Program
<1>3. "numUartRxBytes" \in complaints => "numUartRxBytes" \in complaints'
  <2>1. complaints \subseteq complaints'
    <3>1. ASSUME Process PROVE complaints \subseteq complaints'
      BY <3>1 DEF Process, processUSB, setupSIGINTHandler, hid_open, setupUart, enableUart,
                  loop, readReport, readTimedOut, readFailed, notify, disableUart, SetUart,
                  cleanup
    <3>2. ASSUME World \/ main \/ UNCHANGED programVars PROVE complaints \subseteq complaints'
      BY <3>2 DEF World, sigint, sigterm, report, Report, unplug, main, programVars, vars
    <3> QED BY <3>1, <3>2 DEF ProgramNext, Program
  <2> QED BY <2>1
<1>4. CASE "numUartRxBytes" \in complaints <=> "numUartRxBytes" \in complaints'
  <2>1. ("numUartRxBytes" \notin complaints)' = ("numUartRxBytes" \notin complaints)
    BY <1>4
  <2> QED BY <1>1, <1>2, <2>1 DEF Channel!channelVars
<1>5. CASE "numUartRxBytes" \notin complaints /\ "numUartRxBytes" \in complaints'
  BY <1>1, <1>2, <1>5 DEF Channel!Distrust
<1> QED BY <1>3, <1>4, <1>5

LEMMA ChannelStep ==
  ASSUME Inv, Apart, [ProgramNext]_programVars
  PROVE  [Channel!ChannelNext]_(Channel!channelVars)
<1>1. ASSUME notify PROVE Channel!ChannelNext
  <2>1. CASE "numUartRxBytes" \notin complaints
    BY <1>1, <2>1, NotifyDelivers DEF Channel!ChannelNext
  <2>2. CASE "numUartRxBytes" \in complaints
    <3>1. PICK s \in {"parser", "dump"}, b \in Bytes :
            /\ given' = [given EXCEPT ![s] = Append(given[s], b)]
            /\ UNCHANGED <<meter, complaints>>
      BY <1>1, NotifyStep DEF Inv
    <3>2. Channel!Give(s, b)
      BY <3>1 DEF Channel!Give, meter
    <3>3. Channel!Garble(s)
      BY <2>2, <3>2 DEF Channel!Garble
    <3> QED BY <3>3 DEF Channel!ChannelNext
  <2> QED BY <2>1, <2>2
<1>2. ASSUME report PROVE [Channel!ChannelNext]_(Channel!channelVars)
  BY <1>2, SendIsSend DEF Inv, Channel!ChannelNext
<1>3. ASSUME ~notify, ~report PROVE [Channel!ChannelNext]_(Channel!channelVars)
  BY <1>3, ChannelKept DEF Channel!ChannelNext
<1> QED BY <1>1, <1>2, <1>3

-----------------------------------------------------------------------------
(* The theorems.                                                           *)

(* Types, what is true at each place of the program, and what relates the  *)
(* bytes of the meter, the queue, the report in hand and the sinks, and    *)
(* the command line with what was done: together they are inductive.       *)
THEOREM ProgramInvariant == Spec => []Inv
<1>1. MainInit => Inv
  <2>1. MainInit => Untouched
    BY DEF MainInit, Init, Untouched
  <2> QED BY <2>1, TypeInit, InStepInit, SwitchInit, ClosedInit, ObeyedInit, NumberedInit,
             ForwardingInit DEF Inv
<1>2. Inv /\ [ProgramNext]_programVars => Inv'
  BY TypeStep, UntouchedStep, InStepStep, SwitchStep, ClosedStep, ObeyedStep, NumberedStep,
     ForwardingStep DEF Inv
<1> QED BY <1>1, <1>2, PTL DEF Spec

(* Every variable of the program keeps its type: no sink is called that is *)
(* not registered, no byte is taken from beyond the report but the one     *)
(* that stands for whatever is there.                                      *)
THEOREM TypeCorrect == Spec => []TypeOK
<1>1. Inv => TypeOK
  BY DEF Inv
<1> QED BY <1>1, ProgramInvariant, PTL

(* The screen and the dump see the same bytes in the same order, and are   *)
(* never more than one byte apart.                                         *)
THEOREM SinksCorrect == Spec => []SinksAgree
<1>1. Inv => SinksAgree
  BY Agreement DEF Inv
<1> QED BY <1>1, ProgramInvariant, PTL

(* Unless the length of a report was complained about, the sinks get every *)
(* byte read, once and in order, and what is missing the kernel dropped.   *)
THEOREM ForwardingCorrect == Spec => []ForwardedExactly
<1>1. Inv => ForwardedExactly
  BY ForwardedFromParts DEF Inv
<1> QED BY <1>1, ProgramInvariant, PTL

(* Whatever ends the program, SIGTERM excepted, the UART of the meter is   *)
(* off or the failure to switch it off was printed.                        *)
THEOREM UartCorrect == Spec => []UartIsOffAtTheEnd
<1>1. Inv => UartIsOffAtTheEnd
  BY DEF Inv, Switch
<1> QED BY <1>1, ProgramInvariant, PTL

(* run returns 0 only after Ctrl-C, and 1 before anything was switched on. *)
THEOREM ReturnCorrect == Spec => []ReturnsAfterCtrlC
<1>1. Inv => ReturnsAfterCtrlC
  BY DEF Inv, Switch
<1> QED BY <1>1, ProgramInvariant, PTL

(* After Ctrl-C the dump on disk holds every byte the screen was shown.    *)
THEOREM DumpCorrect == Spec => []DumpIsComplete
<1>1. Inv => DumpIsComplete
  BY DEF Inv, Closed
<1> QED BY <1>1, ProgramInvariant, PTL

(* For command lines of any length: what is done is what was asked for,    *)
(* and the status says how it went.                                        *)
THEOREM CommandLineCorrect == Spec => []CommandLineIsObeyed
<1>1. Inv => CommandLineIsObeyed
  BY DEF Inv, Obeyed
<1> QED BY <1>1, ProgramInvariant, PTL

(* Once killed is set, each step of the process brings it nearer to its    *)
(* end, by a count that reports of any size bound, and no report, no       *)
(* unplugging and no signal takes it away from there.                      *)
THEOREM CtrlCHeeded == Spec => CtrlCIsHeeded
<1>1. MainInit => NotYet
  BY DEF MainInit, Init, NotYet
<1>2. Inv /\ NotYet /\ [ProgramNext]_programVars => NotYet'
  BY NotYetStep DEF Inv
<1>3. Spec => []NotYet
  BY <1>1, <1>2, ProgramInvariant, PTL DEF Spec
<1>4. Inv /\ NotYet /\ [ProgramNext]_programVars =>
        [killed => /\ killed' /\ StepsLeft' <= StepsLeft
                   /\ Program => StepsLeft' < StepsLeft]_programVars
  <2> SUFFICES ASSUME Inv, NotYet, [ProgramNext]_programVars, killed
               PROVE  /\ killed' /\ StepsLeft' <= StepsLeft
                      /\ Program => StepsLeft' < StepsLeft
    OBVIOUS
  <2>1. ASSUME Program PROVE killed' /\ StepsLeft' < StepsLeft /\ StepsLeft' <= StepsLeft
    <3>1. killed' /\ StepsLeft' < StepsLeft
      BY <2>1, ProcessNearsTheEnd DEF Inv
    <3>2. TypeOK' /\ Control'
      BY TypeStep DEF Inv
    <3>3. (TypeOK /\ Control => StepsLeft \in Nat)'
      BY StepsLeftType, PTL
    <3>4. StepsLeft \in Nat /\ StepsLeft' \in Nat
      BY <3>2, <3>3, StepsLeftType DEF Inv
    <3> QED BY <3>1, <3>4
  <2>2. ASSUME ~Program PROVE killed' /\ StepsLeft' <= StepsLeft
    BY <2>2, WorldDelaysNothing DEF Inv, ProgramNext
  <2> QED BY <2>1, <2>2
<1> QED BY <1>3, <1>4, ProgramInvariant, PTL DEF Spec, CtrlCIsHeeded

(* The program implements the channel that ByteChannel promises: whatever  *)
(* the sizes of the reports, the order of the sinks, the losses in the     *)
(* kernel and the signals, each sink is given, byte by byte, what the      *)
(* meter sent and the kernel did not drop.                                 *)
THEOREM ChannelImplemented == Spec => SinksAreServed
<1>1. MainInit => Apart /\ Channel!ChannelInit
  BY DEF MainInit, Init, Apart, Channel!ChannelInit
<1>2. Inv /\ Apart /\ [ProgramNext]_programVars => Apart'
  BY ApartStep DEF Inv
<1>3. Inv /\ Apart /\ [ProgramNext]_programVars => [Channel!ChannelNext]_(Channel!channelVars)
  BY ChannelStep
<1> QED BY <1>1, <1>2, <1>3, ProgramInvariant, PTL
        DEF Spec, SinksAreServed, Channel!ChannelSpec
=============================================================================
