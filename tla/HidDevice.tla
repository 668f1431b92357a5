----------------------------- MODULE HidDevice ------------------------------
(***************************************************************************)
(* A device that hidapi has opened: hid_open_path reads its report         *)
(* descriptor, a verbose run prints its strings (printHidDeviceInfo and    *)
(* get_device_string), and run reads its reports (hid_read_timeout).       *)
(***************************************************************************)
EXTENDS HidDescriptor

CONSTANTS
  Kernels,      \* kernel releases, as triples
  Texts(_),     \* what the device may say each of its strings is
  NULL,
  MAX_STR,      \* the characters wstr has room for
  ReportSize    \* bound: the bytes of a report

VARIABLES
  pc,
  kernel,                \* the release that runs, with or without the bug
  kernel_version,        \* what hid_init made of its name
  uses_numbered_reports_flag,  \* the member of hid_device
  described,             \* history: the kernel gave the report descriptor
  key, wstr,             \* printHidDeviceInfo: the string and the array
  shown,                 \* history: what it printed
  answer                 \* history: the last call of hid_read_timeout

deviceVars == <<pc, kernel, kernel_version, uses_numbered_reports_flag, described,
                key, wstr, shown, answer, descriptorVars>>

dev == <<descriptorVars, uses_numbered_reports_flag, described, kernel, kernel_version>>
info == <<key, wstr, shown>>

(* Characters: the end of a string, one for each of the three strings, one *)
(* the locale cannot convert, and whatever the stack held.                 *)
NUL == 0
Manufacturer == 1
Product == 2
SerialNumber == 3
Bad == 4
Garbage == 5

Uninitialised == [n \in 1..MAX_STR |-> Garbage]

KERNEL_VERSION(k) == k[1] * 65536 + k[2] * 256 + k[3]

(* detect_kernel_version: 0 if the release cannot be parsed. *)
DetectedVersions(k) == {KERNEL_VERSION(k), 0}

DeviceInit ==
  /\ DescriptorInit
  /\ pc = "hid_open_path"
  /\ kernel \in Kernels /\ kernel_version \in DetectedVersions(kernel)
  /\ uses_numbered_reports_flag = FALSE /\ described = FALSE
  /\ key = Manufacturer /\ wstr = Uninitialised
  /\ shown = <<>> /\ answer = NULL

-----------------------------------------------------------------------------
(* hid_open_path, once the device is open.                                 *)

WalkDescriptor ==
  /\ pc = "hid_open_path" /\ uses_numbered_reports
  /\ UNCHANGED <<pc, uses_numbered_reports_flag, described, kernel, kernel_version,
                 info, answer>>

(* HIDIOCGRDESC succeeds, or it fails, which is printed and ignored.       *)
hid_open_path ==
  /\ pc = "hid_open_path"
  /\ \/ /\ numbered # "unknown"
        /\ uses_numbered_reports_flag' = (numbered = "yes") /\ described' = TRUE
     \/ i = 0 /\ numbered = "unknown" /\ UNCHANGED <<uses_numbered_reports_flag, described>>
  /\ pc' \in {"printHidDeviceInfo", "run"}
  /\ UNCHANGED <<descriptorVars, kernel, kernel_version, info, answer>>

-----------------------------------------------------------------------------
(* printHidDeviceInfo and get_device_string.                               *)

(* Mutant of Emptied: the array still holds the string before. *)
EmptiedNot(w) == w

(* wstr[0] = 0x0000 *)
Emptied(w) == [w EXCEPT ![1] = NUL]

(* mbstowcs: the characters up to one that cannot be converted, or up to   *)
(* the end of the text, which alone puts a terminator behind them.         *)
Convertible(text) ==
  {n \in 1..Len(text) : \A m \in 1..n : text[m] # Bad}

mbstowcs(text) == IF Convertible(text) = 1..Len(text) THEN 0 ELSE -1

Converted(text, w) ==
  [n \in 1..MAX_STR |-> IF n \in Convertible(text) THEN text[n]
                        ELSE IF n = Len(text) + 1 /\ mbstowcs(text) = 0 THEN NUL
                        ELSE w[n]]

(* What printf("%ls") shows: up to the first NUL, or further on.           *)
Printed(w) ==
  LET before == {n \in 1..MAX_STR : \A m \in 1..n : w[m] # NUL}
  IN  [n \in before |-> w[n]]

(* One string was asked for; it is complained about if result is negative, *)
(* and printed.  says is what the device says it is.                       *)
Show(result, w, says) ==
  /\ pc = "printHidDeviceInfo"
  /\ wstr' = w
  /\ shown' = Append(shown, [says |-> says, text |-> Printed(w), failed |-> result < 0])
  /\ key' = key + 1
  /\ UNCHANGED <<pc, dev, answer>>

(* udev cannot be used, or the device is gone, or has no hid parent: -1.   *)
NoDevice == key <= SerialNumber /\ Show(-1, Emptied(wstr), <<>>)

(* No uevent to read, or a Bluetooth device without the name asked for:    *)
(* strdup, or mbstowcs, is given NULL.                                     *)
NoName ==
  /\ pc = "printHidDeviceInfo" /\ key <= SerialNumber
  /\ pc' = "crashed"
  /\ UNCHANGED <<dev, info, answer>>

BluetoothManufacturer ==
  key = Manufacturer /\ Show(0, [n \in 1..MAX_STR |-> NUL], <<>>)

(* No USB device above, or it has no such attribute: the result is still   *)
(* that of parse_uevent_info, 1 or 0, and nothing was written.             *)
NoUsbString ==
  key <= SerialNumber /\ \E found \in {0, 1} : Show(found, Emptied(wstr), <<>>)

(* The USB device's attribute, or the Bluetooth device's name or serial.   *)
DeviceString ==
  /\ key <= SerialNumber
  /\ \E text \in Texts(key) : Show(mbstowcs(text), Converted(text, Emptied(wstr)), text)

(* printHidDeviceInfo returns, and its array is no more.                   *)
EndOfInfo ==
  /\ pc = "printHidDeviceInfo" /\ key > SerialNumber
  /\ pc' = "run"
  /\ key' = Manufacturer /\ wstr' = Uninitialised /\ shown' = <<>>
  /\ UNCHANGED <<dev, answer>>

printHidDeviceInfo ==
  NoDevice \/ NoName \/ BluetoothManufacturer \/ NoUsbString \/ DeviceString \/ EndOfInfo

-----------------------------------------------------------------------------
(* hid_read_timeout with a timeout.                                        *)

Answer(event, report, result, data) ==
  /\ pc = "run"
  /\ answer' = [event |-> event, report |-> report, result |-> result, data |-> data]
  /\ UNCHANGED <<pc, dev, info>>

PollTimesOut == Answer("timeout", <<>>, 0, <<>>)

(* poll fails or is interrupted, the device is gone, or read fails. *)
ReadFails == Answer("error", <<>>, -1, <<>>)

Older(k, l) ==
  \/ k[1] < l[1]
  \/ k[1] = l[1] /\ k[2] < l[2]
  \/ k[1] = l[1] /\ k[2] = l[2] /\ k[3] < l[3]

(* Releases are three numbers, those before 2.6.34 of a byte each; what a  *)
(* device says has no end inside it and fits into wstr.                    *)
ASSUME DeviceAssumption ==
  /\ \A k \in Kernels : /\ k \in Nat \X Nat \X Nat
                        /\ Older(k, <<2, 6, 34>>) => k[2] < 256 /\ k[3] < 256
  /\ MAX_STR \in Nat \ {0}
  /\ \A k \in Manufacturer..SerialNumber : \A text \in Texts(k) :
       text \in Seq(Nat \ {NUL}) /\ Len(text) < MAX_STR

(* What read gives for a report: kernels before 2.6.34 put a byte in front *)
(* of numbered ones.                                                       *)
Raw(report) == IF Older(kernel, <<2, 6, 34>>) /\ HasReportId THEN <<Garbage>> \o report ELSE report

(* Mutant of ChopsFirstByte: the kernel's version is not looked at. *)
ChopsFirstByteAlways == uses_numbered_reports_flag

ChopsFirstByte ==
  /\ kernel_version # 0 /\ kernel_version < KERNEL_VERSION(<<2, 6, 34>>)
  /\ uses_numbered_reports_flag

ReadReport(report) ==
  IF ChopsFirstByte
  THEN Answer("report", report, Len(Raw(report)) - 1, Tail(Raw(report)))
  ELSE Answer("report", report, Len(Raw(report)), Raw(report))

hid_read_timeout ==
  \/ PollTimesOut
  \/ ReadFails
  \/ \E last \in 1..ReportSize : ReadReport([n \in 1..last |-> n])

DeviceNext == WalkDescriptor \/ hid_open_path \/ printHidDeviceInfo \/ hid_read_timeout

DeviceSpec == DeviceInit /\ [][DeviceNext]_deviceVars

-----------------------------------------------------------------------------
(* Properties.                                                             *)

(* A string that is printed without a complaint is what the device says,   *)
(* or empty if it says nothing; get_device_string leaves the array alone   *)
(* in some cases it reports as a success.  After a complaint what could be *)
(* converted comes first, or nothing if the device was not reached; behind *)
(* it there may be the rest of an earlier string.                          *)
StringsAreTheDevices ==
  \A n \in DOMAIN shown :
    LET s == shown[n]
    IN  IF s.failed
        THEN /\ \A m \in Convertible(s.says) : m \in DOMAIN s.text /\ s.text[m] = s.says[m]
             /\ s.says = <<>> => s.text = <<>>
        ELSE s.text = s.says

(* A report is handed on as the device sent it, on a kernel with or        *)
(* without the bug, if its version and the descriptor could be read; and   *)
(* 0 and -1 mean a timeout and an error.                                   *)
ReadGivesTheReport ==
  answer # NULL =>
    CASE answer.event = "timeout" -> answer.result = 0
      [] answer.event = "error"   -> answer.result = -1
      [] answer.event = "report"  ->
           described /\ kernel_version # 0 =>
             answer.result = Len(answer.report) /\ answer.data = answer.report
=============================================================================
