---------------------------- MODULE HidEnumerate ----------------------------
(***************************************************************************)
(* The device list of hidapi and what the program does with it:            *)
(* UT612ByteSource::run calls hid_open, which enumerates, searches the     *)
(* list, opens a device by its path and frees the list; if that gives no   *)
(* handle, a verbose run enumerates once more and prints every device.     *)
(*                                                                         *)
(* The list is a singly linked one, put together while devices may come    *)
(* and go.  Its nodes are addresses of a heap, so that a node freed twice, *)
(* lost, or used after it was freed shows.                                 *)
(***************************************************************************)
EXTENDS Integers, Sequences

CONSTANTS
  Slot,        \* the numbers N of /dev/hidrawN, which is also udev's order
  Kind,        \* what may be plugged in
  Address,     \* where malloc can put a node
  Serial,      \* serial numbers
  NULL,
  MaxChanges   \* bound: how often a device is plugged in or unplugged

BUS_USB == 3
BUS_BLUETOOTH == 5

(* A device as udev shows it: it has a parent of subsystem hid, with a     *)
(* complete uevent that gives its bus and identity; a node in /dev; a      *)
(* parent of type usb_device.                                              *)
KindOf == [hid : BOOLEAN, complete : BOOLEAN, bus : Nat, vid : Nat, pid : Nat,
           serial : Serial, node : BOOLEAN, usb : BOOLEAN]

(* hid_device_info: next, what it describes, and whether its strings,      *)
(* release and interface have been set.                                    *)
Node == [next : Address \cup {NULL}, slot : Slot, device : Kind, filled : BOOLEAN]

ASSUME HidAssumption ==
  /\ Slot \subseteq Nat
  /\ Kind \subseteq KindOf
  /\ NULL \notin Slot /\ NULL \notin Address /\ NULL \notin Serial
  /\ NULL \notin Kind /\ NULL \notin Node /\ NULL \notin [fd : Nat, slot : Slot]
  /\ MaxChanges \in Nat

VARIABLES
  pc,        \* where the program is
  call,      \* what it enumerates for: "open" or "list"
  serial,    \* hid_open's serial number, or NULL
  todo,      \* udev's entries that are still to be looked at
  entry,     \* the one in hand
  heap,      \* the node at each address, or NULL where there is none
  root, cur_dev, prev_dev,
  order,     \* history: the nodes in the order they were linked
  path,      \* path_to_open
  handle,    \* the device opened, or NULL
  fds,       \* the open file descriptors of the process
  opened,    \* those of them that are devices
  (* the world *)
  kind,      \* the device in each slot, or NULL
  stale,     \* of which slots udev's list is not, or no more, true
  changes

control == <<pc, call, serial>>
list == <<heap, root, cur_dev, prev_dev, order>>
walk == <<todo, entry>>
file == <<path, handle, fds, opened>>
world == <<kind, stale, changes>>
vars == <<control, walk, list, file, world>>

live == {a \in Address : heap[a] # NULL}
present == {n \in Slot : kind[n] # NULL}

(* The id of the meter's bridge, 10c4:ea80 in run, and "any" for listing.  *)
Meter == [vid |-> 1, pid |-> 1]
Wanted == IF call = "open" THEN Meter ELSE [vid |-> 0, pid |-> 0]

Init ==
  /\ pc = "hid_enumerate" /\ call = "open" /\ serial \in Serial \cup {NULL}
  /\ todo = {} /\ entry = NULL
  /\ heap = [a \in Address |-> NULL] /\ order = <<>>
  /\ root = NULL /\ cur_dev = NULL /\ prev_dev = NULL
  /\ path = NULL /\ handle = NULL
  /\ fds \in {{0, 1, 2}, {1, 2}} /\ opened = {}
  /\ kind \in [Slot -> Kind \cup {NULL}]
  /\ stale = {} /\ changes = 0

Goto(label) == pc' = label /\ UNCHANGED <<call, serial>>

-----------------------------------------------------------------------------
(* hid_enumerate.                                                          *)

(* udev_new may fail; otherwise udev's list is what is there now.          *)
StartEnumeration ==
  /\ pc = "hid_enumerate"
  /\ \/ todo' = present /\ stale' = {} /\ Goto("entry")
     \/ todo' = {} /\ stale' = Slot /\ Goto("search")
  /\ root' = NULL /\ cur_dev' = NULL /\ prev_dev' = NULL
  /\ UNCHANGED <<entry, heap, order, file, kind, changes>>

(* Mutant of HasHidParent: the result of the look-up is not tested. *)
HasHidParentUnchecked(n) == n \notin stale

HasHidParent(n) == n \notin stale /\ kind[n].hid

(* The next entry's device and its parent of subsystem hid.  A device that *)
(* is gone by now has neither.                                             *)
NextEntry(n) ==
  /\ pc = "entry" /\ n \in todo /\ \A o \in todo : n <= o
  /\ todo' = todo \ {n} /\ entry' = n
  /\ IF HasHidParent(n) THEN Goto("uevent") ELSE Goto("entry")
  /\ UNCHANGED <<list, file, world>>

(* Mutant of IdMatches: a zero asks for a zero. *)
IdMatchesExact(want, id) == want = id

IdMatches(want, id) == want = 0 \/ want = id

Selected(device) ==
  /\ device.complete
  /\ device.bus \in {BUS_USB, BUS_BLUETOOTH}
  /\ IdMatches(Wanted.vid, device.vid)
  /\ IdMatches(Wanted.pid, device.pid)

(* tmp becomes the last node of the list. *)
Link(a, node) ==
  /\ heap' = IF cur_dev = NULL THEN [heap EXCEPT ![a] = node]
             ELSE [heap EXCEPT ![cur_dev].next = a, ![a] = node]
  /\ root' = IF cur_dev = NULL THEN a ELSE root

HasUevent(n) == n \notin stale /\ kind[n].hid

(* The uevent of the hid parent is read and the device, if it is wanted,   *)
(* gets a node.  A Bluetooth device's node is filled at once.              *)
ReadUevent ==
  /\ pc = "uevent" /\ HasUevent(entry)
  /\ LET device == kind[entry]
     IN  IF Selected(device)
         THEN \E a \in Address \ live :
                /\ Link(a, [next |-> NULL, slot |-> entry, device |-> device,
                            filled |-> device.bus = BUS_BLUETOOTH])
                /\ prev_dev' = cur_dev /\ cur_dev' = a
                /\ order' = Append(order, a)
                /\ IF device.bus = BUS_USB THEN Goto("usb_device") ELSE Goto("entry")
         ELSE Goto("entry") /\ UNCHANGED list
  /\ UNCHANGED <<walk, file, world>>

(* There is none: udev returns NULL, and strdup of NULL crashes.           *)
UeventGone ==
  /\ pc = "uevent" /\ ~HasUevent(entry)
  /\ Goto("crashed")
  /\ UNCHANGED <<walk, list, file, world>>

HasUsbParent == entry \notin stale /\ kind[entry].usb

(* The strings and numbers of the USB device. *)
FillNode ==
  /\ pc = "usb_device" /\ HasUsbParent
  /\ heap' = [heap EXCEPT ![cur_dev].filled = TRUE]
  /\ Goto("entry")
  /\ UNCHANGED <<walk, root, cur_dev, prev_dev, order, file, world>>

(* Mutant of TakeBack: the node is freed but left on the list. *)
TakeBackLinked ==
  /\ pc = "usb_device" /\ ~HasUsbParent
  /\ heap' = [heap EXCEPT ![cur_dev] = NULL]
  /\ cur_dev' = prev_dev
  /\ root' = IF prev_dev = NULL THEN NULL ELSE root
  /\ order' = SubSeq(order, 1, Len(order) - 1)
  /\ Goto("entry")
  /\ UNCHANGED <<walk, prev_dev, file, world>>

(* Mutant of TakeBack: the node is kept, as its strings are not needed. *)
TakeBackKept ==
  /\ pc = "usb_device" /\ ~HasUsbParent
  /\ Goto("entry")
  /\ UNCHANGED <<walk, list, file, world>>

(* No such parent: the node is freed and taken off the list. *)
TakeBack ==
  /\ pc = "usb_device" /\ ~HasUsbParent
  /\ heap' = IF prev_dev = NULL THEN [heap EXCEPT ![cur_dev] = NULL]
             ELSE [heap EXCEPT ![cur_dev] = NULL, ![prev_dev].next = NULL]
  /\ cur_dev' = prev_dev
  /\ root' = IF prev_dev = NULL THEN NULL ELSE root
  /\ order' = SubSeq(order, 1, Len(order) - 1)
  /\ Goto("entry")
  /\ UNCHANGED <<walk, prev_dev, file, world>>

(* The list is returned; the caller starts at its root. *)
EndEnumeration ==
  /\ pc = "entry" /\ todo = {}
  /\ cur_dev' = root
  /\ Goto("search")
  /\ UNCHANGED <<walk, heap, root, prev_dev, order, file, world>>

-----------------------------------------------------------------------------
(* hid_open, hid_open_path, hid_free_enumeration, printAllHidDevices.      *)

(* Mutant of IsTheOne: the serial number is ignored. *)
IsTheOneAnySerial(device) == device.vid = Meter.vid /\ device.pid = Meter.pid

IsTheOne(device) ==
  /\ device.vid = Meter.vid /\ device.pid = Meter.pid
  /\ serial # NULL => device.serial = serial

(* The first device that is the one asked for; the path of a device        *)
(* without a node in /dev is NULL.                                         *)
Found ==
  /\ pc = "search" /\ cur_dev # NULL /\ call = "open"
  /\ IsTheOne(heap[cur_dev].device)
  /\ path' = IF heap[cur_dev].device.node THEN heap[cur_dev].slot ELSE NULL
  /\ Goto("hid_open_path")
  /\ UNCHANGED <<walk, list, handle, fds, opened, world>>

(* On to the next one; printAllHidDevices prints each. *)
SearchOn ==
  /\ pc = "search" /\ cur_dev # NULL
  /\ call = "open" => ~IsTheOne(heap[cur_dev].device)
  /\ cur_dev' = heap[cur_dev].next
  /\ pc' = pc
  /\ UNCHANGED <<call, serial, walk, heap, root, prev_dev, order, file, world>>

(* The end of the list: it is freed, and nothing is opened. *)
NotFound ==
  /\ pc = "search" /\ cur_dev = NULL
  /\ cur_dev' = root
  /\ Goto("hid_free_enumeration")
  /\ UNCHANGED <<walk, heap, root, prev_dev, order, file, world>>

Lowest(n) == n \notin fds /\ \A m \in 0..n - 1 : m \in fds

GoodHandle(fd) == fd > 0

(* open gives the lowest free descriptor; whatever is in the slot by now   *)
(* is opened.  A descriptor of 0 is taken for a failure.                   *)
OpenPath ==
  /\ pc = "hid_open_path" /\ path # NULL /\ path \in present /\ kind[path].node
  /\ \E fd \in 0..3 :
       /\ Lowest(fd)
       /\ fds' = fds \cup {fd} /\ opened' = opened \cup {fd}
       /\ handle' = IF GoodHandle(fd) THEN [fd |-> fd, slot |-> path] ELSE NULL
  /\ cur_dev' = root
  /\ Goto("hid_free_enumeration")
  /\ UNCHANGED <<walk, heap, root, prev_dev, order, path, world>>

(* Mutant of OpenNothing: the list is not freed when opening fails. *)
OpenNothingReturns ==
  /\ pc = "hid_open_path"
  /\ Goto("run")
  /\ UNCHANGED <<walk, list, file, world>>

(* There is nothing to open, or open fails: device gone, no permission.    *)
OpenNothing ==
  /\ pc = "hid_open_path"
  /\ cur_dev' = root
  /\ Goto("hid_free_enumeration")
  /\ UNCHANGED <<walk, heap, root, prev_dev, order, file, world>>

FreeNode ==
  /\ pc = "hid_free_enumeration" /\ cur_dev # NULL
  /\ heap' = [heap EXCEPT ![cur_dev] = NULL]
  /\ cur_dev' = heap[cur_dev].next
  /\ order' = Tail(order)
  /\ pc' = pc
  /\ UNCHANGED <<call, serial, walk, root, prev_dev, file, world>>

EndFree ==
  /\ pc = "hid_free_enumeration" /\ cur_dev = NULL
  /\ IF call = "open" THEN Goto("run") ELSE Goto("ended")
  /\ UNCHANGED <<walk, list, file, world>>

-----------------------------------------------------------------------------
(* UT612ByteSource::run.                                                   *)

(* No handle: the error message and, if verbose, the list of all devices.  *)
GiveUp ==
  /\ pc = "run" /\ handle = NULL
  /\ \/ pc' = "ended" /\ UNCHANGED call
     \/ pc' = "hid_enumerate" /\ call' = "list"
  /\ UNCHANGED <<serial, walk, list, file, world>>

(* Mutant of Close: the closed handle is kept. *)
CloseKeepsHandle ==
  /\ pc = "run" /\ handle # NULL
  /\ fds' = fds \ {handle.fd} /\ opened' = opened \ {handle.fd}
  /\ Goto("ended")
  /\ UNCHANGED <<walk, list, path, handle, world>>

(* Mutant of Close: the handle is freed, its descriptor stays open. *)
CloseHandleOnly ==
  /\ pc = "run" /\ handle # NULL
  /\ handle' = NULL
  /\ Goto("ended")
  /\ UNCHANGED <<walk, list, path, fds, opened, world>>

(* The session, and hid_close. *)
Close ==
  /\ pc = "run" /\ handle # NULL
  /\ fds' = fds \ {handle.fd} /\ opened' = opened \ {handle.fd}
  /\ handle' = NULL
  /\ Goto("ended")
  /\ UNCHANGED <<walk, list, path, world>>

Program ==
  \/ StartEnumeration \/ (\E n \in Slot : NextEntry(n)) \/ ReadUevent
  \/ UeventGone \/ FillNode \/ TakeBack \/ EndEnumeration
  \/ Found \/ SearchOn \/ NotFound \/ OpenPath \/ OpenNothing
  \/ FreeNode \/ EndFree \/ GiveUp \/ Close

-----------------------------------------------------------------------------
(* USB and Bluetooth: devices come and go at any time, also into the slot  *)
(* another one has left.                                                   *)

Unplug(n) == n \in present /\ kind' = [kind EXCEPT ![n] = NULL]

Plug(n, k) == n \notin present /\ kind' = [kind EXCEPT ![n] = k]

World ==
  /\ changes < MaxChanges
  /\ \E n \in Slot : /\ Unplug(n) \/ \E k \in Kind : Plug(n, k)
                     /\ stale' = stale \cup {n}
  /\ changes' = changes + 1
  /\ UNCHANGED <<control, walk, list, file>>

Next == Program \/ World

Spec == Init /\ [][Next]_vars

-----------------------------------------------------------------------------
(* Properties.                                                             *)

Labels == {"hid_enumerate", "entry", "uevent", "usb_device", "search",
           "hid_open_path", "hid_free_enumeration", "run", "ended", "crashed"}

Pointer == Address \cup {NULL}

(* Types. *)
TypeOK ==
  /\ pc \in Labels /\ call \in {"open", "list"} /\ serial \in Serial \cup {NULL}
  /\ todo \subseteq Slot /\ entry \in Slot \cup {NULL}
  /\ heap \in [Address -> Node \cup {NULL}]
  /\ {root, cur_dev, prev_dev} \subseteq Pointer
  /\ order \in Seq(Address)
  /\ path \in Slot \cup {NULL}
  /\ handle \in [fd : opened, slot : Slot] \cup {NULL}
  /\ fds \subseteq Nat /\ opened \subseteq fds
  /\ kind \in [Slot -> Kind \cup {NULL}] /\ stale \subseteq Slot
  /\ changes \in 0..MaxChanges

First(s) == IF s = <<>> THEN NULL ELSE s[1]
Last(s) == IF s = <<>> THEN NULL ELSE s[Len(s)]

(* The nodes of s are allocated, all different, each linked to the next    *)
(* and the last to none, and there are no others.                          *)
Linked(s) ==
  /\ \A i \in DOMAIN s : /\ s[i] \in live
                         /\ heap[s[i]].next = IF i = Len(s) THEN NULL ELSE s[i + 1]
  /\ \A i, j \in DOMAIN s : s[i] = s[j] => i = j
  /\ \A a \in live : \E i \in DOMAIN s : s[i] = a

(* The list is well formed at every moment: through every node that is     *)
(* appended, taken back because its device has no USB parent, or freed.    *)
(* Each pointer the program is going to follow is NULL or a node that is   *)
(* allocated, no node is freed twice, and what is not freed is reachable.  *)
ListIsLinked ==
  /\ Linked(order)
  /\ pc \in {"entry", "uevent", "usb_device"} =>
       cur_dev = Last(order) /\ root = First(order)
  /\ pc = "usb_device" => cur_dev # NULL /\ prev_dev = Last(SubSeq(order, 1, Len(order) - 1))
  /\ pc \in {"search", "hid_open_path"} =>
       root = First(order) /\ cur_dev \in live \cup {NULL}
  /\ pc = "hid_free_enumeration" => cur_dev = First(order)

(* Once a call has returned, every node it allocated has been freed.       *)
NothingIsLeft == pc \in {"hid_enumerate", "run", "ended"} => live = {}

(* Nobody is given a node whose strings were never set: freeing or         *)
(* printing one would follow what malloc left there.                       *)
EveryNodeIsFilled ==
  \A a \in live : heap[a].filled \/ (pc = "usb_device" /\ a = cur_dev)

(* The slots of the list in the order of its nodes, which is the order in  *)
(* which a client that follows next from root on finds them: ListIsLinked. *)
Listed == [n \in DOMAIN order |-> heap[order[n]].slot]

(* What the caller wants, in its own words: a complete USB or Bluetooth    *)
(* HID device, and to open one, the meter, of the serial number given.     *)
Complete(device) ==
  /\ device.hid /\ device.complete
  /\ device.bus = BUS_BLUETOOTH \/ (device.bus = BUS_USB /\ device.usb)

Wants(device) ==
  /\ Complete(device)
  /\ call = "open" => device.vid = 1 /\ device.pid = 1

Asked(device) ==
  Complete(device) /\ device.vid = 1 /\ device.pid = 1 /\ serial \in {NULL, device.serial}

(* The list that hid_enumerate returns is exactly what was asked for: in   *)
(* udev's order and without repetition, with every device that matches and *)
(* that nobody touched meanwhile, and with no other untouched one.         *)
ListIsExact ==
  pc = "search" =>
    /\ \A i, j \in DOMAIN Listed : i < j => Listed[i] < Listed[j]
    /\ \A n \in Slot \ stale :
         (\E i \in DOMAIN Listed : Listed[i] = n) <=> n \in present /\ Wants(kind[n])

(* The device behind a handle is the one asked for, and the first such,    *)
(* unless devices were plugged or unplugged after the enumeration: the     *)
(* path is all that connects the two.                                      *)
OpensWhatWasListed ==
  pc = "run" /\ handle # NULL =>
    /\ handle.slot \notin stale => Asked(kind[handle.slot])
    /\ \A n \in present \ stale : n < handle.slot => ~Asked(kind[n])

(* No device stays open behind the program's back; descriptor 0, which a   *)
(* program started without standard input gets, is the exception.          *)
NoDeviceStaysOpen ==
  pc \in {"run", "ended"} => opened \subseteq (IF handle = NULL THEN {0} ELSE {handle.fd})

(* Enumerating crashes only if a device was unplugged meanwhile.           *)
CrashesOnlyOnUnplug == pc = "crashed" => stale # {}

(* What hidapi.h, line 171, says of hid_open_path: a handle on success,    *)
(* NULL on failure.                                                        *)
NullMeansFailure == pc = "run" /\ handle = NULL => opened = {}
=============================================================================
