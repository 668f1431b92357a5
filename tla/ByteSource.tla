----------------------------- MODULE ByteSource -----------------------------
(***************************************************************************)
(* processUSB and UT612ByteSource::run: the one thread that opens the      *)
(* meter, switches its UART on, polls for HID reports, hands each byte to  *)
(* every registered sink and, after Ctrl-C, switches the UART off again.   *)
(* Around it: the signals, the meter and the report queue of the kernel,   *)
(* and the file behind the dump.                                           *)
(*                                                                         *)
(* The bytes the meter sends are numbered 1, 2, 3, ..., so that a byte     *)
(* lost, doubled or out of place shows.                                    *)
(***************************************************************************)
EXTENDS Integers, Sequences, FiniteSets

CONSTANTS
  MaxBytes,     \* bound: bytes the meter sends
  ReportSize,   \* bound: payload bytes of one report
  MaxLength,    \* the largest length byte of a report (255 for a byte)
  QueueSize     \* reports the kernel keeps for a reader

ASSUME ConstantsAssumption ==
  /\ {MaxBytes, ReportSize, QueueSize} \subseteq Nat \ {0}
  /\ MaxLength \in Nat

VARIABLES
  (* the process *)
  pc,          \* where it is
  binaryDumpFile,  \* processUSB was given the name of a dump
  status,      \* how it ended: run's return value or what killed it
  handler,     \* the SIGINT handler is installed
  killed,      \* the flag the handler sets
  order,       \* the set _byteSinks in its iteration order (by address)
  data,        \* the payload of the report in hand
  count,       \* its first byte, numUartRxBytes
  i, sink,     \* the byte and the sink notifyAllByteSinks is at
  given,       \* the bytes each sink was called with
  complaints,  \* the errors printed
  (* the meter, the kernel and the disk *)
  plugged, configured, uart,   \* the meter, its baud rate set, its UART on
  queue,                       \* reports waiting: their payloads
  produced,                    \* the last byte the meter sent
  taken,                       \* history: the bytes of the reports read
  dropped,                     \* history: the bytes of reports that found no room
  flushed,                     \* how much of the dump has reached the disk
  diskFull

signals == <<handler, killed>>
inHand == <<data, count, i, sink, taken>>
meter == <<plugged, configured, uart, queue, produced, dropped>>
disk == <<flushed, diskFull>>
sourceVars == <<binaryDumpFile, order>>
vars == <<pc, status, signals, sourceVars, inHand, given, complaints, meter, disk>>

(* The parser, and the dump if there is one: what processUSB registers.    *)
Sinks == IF binaryDumpFile THEN {"parser", "dump"} ELSE {"parser"}

(* What data[i + 1] is where no report has set it: uninitialised up to the *)
(* end of data[64], and whatever lies behind the array after that.         *)
Garbage == 0

Running == pc # "ended"

-----------------------------------------------------------------------------

(* Before processUSB is called: main is the module CommandLine's.          *)
Init ==
  /\ status = "none"
  /\ handler = FALSE /\ killed = FALSE
  /\ order = <<>>
  /\ data = <<>> /\ count = 0 /\ i = 0 /\ sink = 1
  /\ given = [s \in {"parser", "dump"} |-> <<>>]
  /\ complaints = {}
  /\ plugged \in BOOLEAN
  /\ configured = FALSE /\ uart = FALSE
  /\ queue = <<>> /\ produced = 0 /\ taken = <<>> /\ dropped = {}
  /\ flushed = 0 /\ diskFull \in BOOLEAN

Goto(label) == pc' = label /\ UNCHANGED status

End(how) == pc' = "ended" /\ status' = how

Orders ==
  {o \in [1..Cardinality(Sinks) -> Sinks] : \A s \in Sinks : \E n \in DOMAIN o : o[n] = s}

(* The parser and the dump are constructed and registered.  If the dump    *)
(* cannot be opened its constructor throws, and nobody catches that.       *)
processUSB ==
  /\ pc = "processUSB"
  /\ \/ order' \in Orders /\ Goto("setupSIGINTHandler")
     \/ binaryDumpFile /\ End("exception") /\ UNCHANGED order
  /\ UNCHANGED <<binaryDumpFile, signals, inHand, meter, disk, given, complaints>>

setupSIGINTHandler ==
  /\ pc = "setupSIGINTHandler"
  /\ handler' = TRUE
  /\ Goto("hid_open")
  /\ UNCHANGED <<inHand, meter, disk, killed, sourceVars, given, complaints>>

(* No meter, or the cp210x module holds it: run returns 1.  A device that  *)
(* is unplugged while hid_enumerate looks at it crashes the program: see   *)
(* HidEnumerate.                                                           *)
hid_open ==
  /\ pc = "hid_open"
  /\ \/ plugged /\ Goto("setupUart")
     \/ End("1")
     \/ End("SIGSEGV")
  /\ UNCHANGED <<signals, inHand, meter, disk, sourceVars, given, complaints>>

(* setupUartForUT612: a transfer that fails is printed and forgotten. *)
setupUart ==
  /\ pc = "setupUart"
  /\ \/ plugged /\ configured' = TRUE /\ UNCHANGED complaints
     \/ complaints' = complaints \cup {"setup"} /\ UNCHANGED configured
  /\ Goto("enableUart")
  /\ UNCHANGED <<signals, inHand, disk, sourceVars, given, plugged, uart, queue,
                 produced, dropped>>

(* enableUartForUT612(handle, enabled) *)
SetUart(enabled, complaint) ==
  /\ \/ plugged /\ uart' = enabled /\ UNCHANGED complaints
     \/ complaints' = complaints \cup {complaint} /\ UNCHANGED uart
  /\ UNCHANGED <<signals, inHand, sourceVars, given, plugged, configured, queue,
                 produced, dropped>>

enableUart ==
  /\ pc = "enableUart"
  /\ SetUart(TRUE, "enable")
  /\ Goto("loop")
  /\ UNCHANGED disk

(* Mutant of loop: the flag is not volatile, its test is hoisted.          *)
loopHoisted ==
  /\ pc = "loop"
  /\ Goto("poll")
  /\ data' = <<>> /\ count' = 0 /\ i' = 0 /\ sink' = 1
  /\ UNCHANGED <<signals, taken, meter, disk, sourceVars, given, complaints>>

(* while (!killed), and the new data[] of the body *)
loop ==
  /\ pc = "loop"
  /\ IF killed THEN Goto("disableUart") ELSE Goto("poll")
  /\ data' = <<>> /\ count' = 0 /\ i' = 0 /\ sink' = 1
  /\ UNCHANGED <<signals, taken, meter, disk, sourceVars, given, complaints>>

(* Mutant of WrongLength: only a report shorter than it says is noticed. *)
WrongLengthShort(numUartRxBytes, read) == numUartRxBytes > read - 1

WrongLength(numUartRxBytes, read) == numUartRxBytes # read - 1

(* hid_read_timeout gives a report.  It may still do so after the meter    *)
(* was unplugged, depending on what the kernel tells poll first.  A report *)
(* with nothing behind its length byte is ignored; a length byte that does *)
(* not match is printed, and believed.  It may be any byte; nobody has     *)
(* looked at it before, so it is chosen here.                              *)
readReport ==
  /\ pc = "poll" /\ queue # <<>>
  /\ LET payload == Head(queue)
         read    == Len(payload) + 1
     IN  \E numUartRxBytes \in IF read > 1 THEN 0..MaxLength ELSE {0} :
           /\ data' = payload
           /\ count' = numUartRxBytes
           /\ taken' = taken \o payload
           /\ complaints' = IF read > 1 /\ WrongLength(numUartRxBytes, read)
                            THEN complaints \cup {"numUartRxBytes"} ELSE complaints
           /\ IF numUartRxBytes > 0 THEN Goto("notify") ELSE Goto("loop")
  /\ queue' = Tail(queue)
  /\ i' = 0 /\ sink' = 1
  /\ UNCHANGED <<signals, disk, sourceVars, given, plugged, configured, uart,
                 produced, dropped>>

(* Mutant of readTimedOut: the read blocks, as with milliseconds = -1. *)
readBlocks == FALSE /\ UNCHANGED vars

(* No report within 1000 milliseconds. *)
readTimedOut ==
  /\ pc = "poll" /\ queue = <<>> /\ plugged
  /\ Goto("loop")
  /\ UNCHANGED <<signals, inHand, meter, disk, sourceVars, given, complaints>>

(* Mutant of readFailed: the first failed read ends the loop. *)
readFailedEnds ==
  /\ pc = "poll" /\ ~plugged
  /\ complaints' = complaints \cup {"hid_read_timeout"}
  /\ Goto("disableUart")
  /\ UNCHANGED <<signals, inHand, meter, disk, sourceVars, given>>

(* The meter is gone: -1, every time. *)
readFailed ==
  /\ pc = "poll" /\ ~plugged
  /\ complaints' = complaints \cup {"hid_read_timeout"}
  /\ Goto("loop")
  /\ UNCHANGED <<signals, inHand, meter, disk, sourceVars, given>>

(* Mutant of ByteAt: data[i], so that the length byte is handed on and the *)
(* last byte is not.                                                       *)
ByteAtLength(k) ==
  IF k = 1 THEN count ELSE IF k - 1 <= Len(data) THEN data[k - 1] ELSE Garbage

(* data[i + 1]: behind the end of the report there is what happens to be   *)
(* in the local array.                                                     *)
ByteAt(k) == IF k <= Len(data) THEN data[k] ELSE Garbage

(* Mutant of MoreSinks: only the first sink is called. *)
MoreSinksNone == FALSE

MoreSinks == sink < Len(order)

(* Mutant of MoreBytes: the loop runs to numUartRxBytes inclusive. *)
MoreBytesInclusive == i + 1 <= count

MoreBytes == i + 1 < count

(* One call of one sink by notifyAllByteSinks, then on to the next sink,   *)
(* the next byte, or back to the loop.  The dump's stream buffer is        *)
(* flushed now and then.                                                   *)
notify ==
  /\ pc = "notify"
  /\ given' = [given EXCEPT ![order[sink]] = Append(@, ByteAt(i + 1))]
  /\ IF MoreSinks
     THEN sink' = sink + 1 /\ i' = i /\ Goto("notify")
     ELSE /\ sink' = 1 /\ i' = i + 1
          /\ IF MoreBytes THEN Goto("notify") ELSE Goto("loop")
  /\ \/ UNCHANGED flushed
     \/ order[sink] = "dump" /\ ~diskFull /\ flushed' = Len(given'["dump"])
  /\ UNCHANGED <<signals, meter, sourceVars, data, count, complaints, taken,
                 diskFull>>

(* Mutant of disableUart: the UART is left on. *)
disableUartSkipped ==
  /\ pc = "disableUart"
  /\ Goto("cleanup")
  /\ UNCHANGED <<signals, inHand, meter, disk, sourceVars, given, complaints>>

disableUart ==
  /\ pc = "disableUart"
  /\ SetUart(FALSE, "disable")
  /\ Goto("cleanup")
  /\ UNCHANGED disk

(* Mutant of cleanup: the dump is not closed. *)
cleanupUnclosed ==
  /\ pc = "cleanup"
  /\ End("0")
  /\ UNCHANGED <<signals, inHand, meter, disk, sourceVars, given, complaints>>

(* hid_close, hid_exit, return 0; the destructor of the dump closes it. *)
cleanup ==
  /\ pc = "cleanup"
  /\ End("0")
  /\ flushed' = IF binaryDumpFile /\ ~diskFull THEN Len(given["dump"]) ELSE flushed
  /\ UNCHANGED <<signals, inHand, meter, sourceVars, given, complaints, diskFull>>

Process ==
  \/ processUSB \/ setupSIGINTHandler \/ hid_open \/ setupUart \/ enableUart
  \/ loop \/ readReport \/ readTimedOut \/ readFailed \/ notify
  \/ disableUart \/ cleanup

-----------------------------------------------------------------------------
(* The outside world.                                                      *)

(* Ctrl-C.  Without the handler it ends the process.  With it, a poll that *)
(* has begun returns -1 (the handler is installed without SA_RESTART); if  *)
(* the signal comes between the test of killed and poll, poll runs on.     *)
sigint ==
  /\ Running /\ ~killed
  /\ IF ~handler
     THEN End("SIGINT") /\ UNCHANGED <<killed, complaints>>
     ELSE /\ killed' = TRUE
          /\ \/ UNCHANGED <<pc, complaints>>
             \/ /\ pc = "poll" /\ pc' = "loop"
                /\ complaints' = complaints \cup {"hid_read_timeout"}
          /\ UNCHANGED status
  /\ UNCHANGED <<inHand, meter, disk, handler, sourceVars, given>>

(* Any other end: kill, as collect_debug_info.sh does after its timeout.   *)
sigterm ==
  /\ Running
  /\ End("SIGTERM")
  /\ UNCHANGED <<signals, inHand, meter, disk, sourceVars, given, complaints>>

(* The meter sends a report; if the reader's queue is full it is dropped.  *)
Report(size) ==
  /\ plugged /\ uart
  /\ produced + size <= MaxBytes
  /\ LET payload == [k \in 1..size |-> produced + k]
     IN  IF Len(queue) < QueueSize
         THEN /\ queue' = Append(queue, payload)
              /\ UNCHANGED dropped
         ELSE /\ dropped' = dropped \cup {payload[k] : k \in 1..size}
              /\ UNCHANGED queue
  /\ produced' = produced + size
  /\ UNCHANGED <<signals, inHand, disk, pc, status, sourceVars, given,
                 complaints, plugged, configured, uart>>

report == Running /\ \E size \in 0..ReportSize : Report(size)

unplug ==
  /\ Running /\ plugged
  /\ plugged' = FALSE /\ uart' = FALSE /\ configured' = FALSE
  /\ UNCHANGED <<signals, inHand, disk, pc, status, sourceVars, given,
                 complaints, queue, produced, dropped>>

World == sigint \/ sigterm \/ report \/ unplug

Next == Process \/ World

-----------------------------------------------------------------------------
(* Properties.                                                             *)

Labels == {"main", "processFile", "processUSB", "setupSIGINTHandler", "hid_open",
           "setupUart", "enableUart", "loop", "poll", "notify", "disableUart",
           "cleanup", "ended"}

Bytes == 0..MaxBytes

(* Types. *)
TypeOK ==
  /\ pc \in Labels
  /\ status \in {"none", "0", "1", "exception", "SIGINT", "SIGTERM", "SIGSEGV"}
  /\ {handler, killed, plugged, configured, uart, diskFull} \subseteq BOOLEAN
  /\ binaryDumpFile \in BOOLEAN /\ order \in Orders \cup {<<>>}
  /\ data \in Seq(Bytes) /\ taken \in Seq(Bytes)
  /\ count \in 0..MaxLength /\ i \in 0..count
  /\ sink \in 1..Cardinality(Sinks)
  /\ given \in [{"parser", "dump"} -> Seq(Bytes)]
  /\ complaints \subseteq {"setup", "enable", "disable", "numUartRxBytes", "hid_read_timeout"}
  /\ queue \in Seq(Seq(Bytes)) /\ Len(queue) <= QueueSize
  /\ produced \in Bytes /\ flushed \in Nat
  /\ dropped \subseteq Bytes

Prefix(s, t) == Len(s) <= Len(t) /\ SubSeq(t, 1, Len(s)) = s

(* The screen and the dump see the same bytes in the same order, in        *)
(* whichever order the set keeps the sinks: between two reports exactly    *)
(* the same, inside one (where the process may be killed) one of them is   *)
(* ahead by at most one byte (notifyAllByteSinks, line 244).               *)
SinksAgree ==
  \A s, t \in Sinks :
    /\ Len(given[s]) <= Len(given[t]) =>
         Prefix(given[s], given[t]) /\ Len(given[t]) <= Len(given[s]) + 1
    /\ pc \notin {"notify", "ended"} => given[s] = given[t]

(* Unless the length of a report was complained about, the sinks get every *)
(* byte of every report read, once, in the order in which the meter sent   *)
(* them, and what they miss is what the kernel dropped.                    *)
ForwardedExactly ==
  "numUartRxBytes" \notin complaints =>
    /\ \A s \in Sinks : /\ Prefix(given[s], taken)
                        /\ pc \notin {"notify", "ended"} => given[s] = taken
    /\ \A k, l \in 1..Len(taken) : k < l => taken[k] < taken[l]
    /\ \A b \in 1..produced :
         b \in dropped \/ (\E k \in 1..Len(taken) : taken[k] = b)
           \/ (\E k \in 1..Len(queue) : \E l \in 1..Len(queue[k]) :
                 queue[k][l] = b)

(* However the program ends, other than by a signal it does not catch, the *)
(* UART of the meter is off or the failure to switch it off was printed.   *)
(* It relies on the handler being in place before the UART is switched on. *)
UartIsOffAtTheEnd ==
  pc = "ended" /\ status # "SIGTERM" /\ uart => "disable" \in complaints

(* Once the meter is open, run returns only after Ctrl-C: no timeout, no   *)
(* failed transfer and no unplugging makes it give up (main.cpp:76), and   *)
(* when it gives up before that, nothing was switched on.                  *)
ReturnsAfterCtrlC ==
  /\ status = "0" /\ order # <<>> => killed
  /\ status = "1" => ~uart /\ complaints = {} /\ taken = <<>>

(* After Ctrl-C the dump on disk holds every byte the screen was shown.    *)
DumpIsComplete ==
  status = "0" /\ binaryDumpFile /\ ~diskFull =>
    /\ flushed = Len(given["dump"])
    /\ given["dump"] = given["parser"]

(* Ctrl-C ends the program, also when it comes between the test of killed  *)
(* and poll, when no report arrives any more, and when the meter is gone.  *)
CtrlCEndsTheProgram == killed ~> pc = "ended"

(* What the sinks are promised: see ByteChannel.                           *)
Channel == INSTANCE ByteChannel
             WITH Receivers <- {"parser", "dump"}, Byte <- Bytes,
                  sent <- produced, lost <- dropped,
                  trusted <- "numUartRxBytes" \notin complaints

(* Step by step, each sink is given the next byte of the meter that the    *)
(* kernel did not drop, whichever sink is called first and whatever the    *)
(* sizes of the reports: until the length of one was complained about.     *)
SinksAreServed == Channel!ChannelSpec
=============================================================================
