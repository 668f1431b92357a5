--------------------------- MODULE MCHidEnumerate ---------------------------
(***************************************************************************)
(* TLC instance  of HidEnumerate: what may be plugged in.                  *)
(***************************************************************************)
EXTENDS HidEnumerate, TLC

CONSTANTS a1, a2, a3, s1, s2

MCAddress == {a1, a2, a3}
MCSerial == {s1, s2}

(* The meter's bridge.                                                     *)
Bridge == [hid |-> TRUE, complete |-> TRUE, bus |-> BUS_USB, vid |-> 1, pid |-> 1,
           serial |-> s1, node |-> TRUE, usb |-> TRUE]

(* A bridge with another serial number and without a node in /dev, one     *)
(* without a USB parent, another product of its vendor, on Bluetooth, and  *)
(* devices that hid_enumerate has to pass over.                            *)
MCKind ==
  { Bridge,
    [Bridge EXCEPT !.serial = s2, !.node = FALSE],
    [Bridge EXCEPT !.usb = FALSE],
    [Bridge EXCEPT !.bus = BUS_BLUETOOTH, !.usb = FALSE, !.pid = 2],
    [Bridge EXCEPT !.hid = FALSE],
    [Bridge EXCEPT !.complete = FALSE] }

Symmetry == Permutations(MCAddress)
=============================================================================
