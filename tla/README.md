# Verification of ut612

`ut612` shows, on Linux, the readings of a UNI-T UT612 LCR meter. The meter
sends 17-byte frames over a UART; a CP2110 bridge carries them over USB as HID
reports; the program opens the bridge through hidapi, switches the UART on,
cuts the bytes it gets into frames, decodes each frame and prints one row per
frame. It can also save the raw bytes (`--dumpbinary`) and show a saved file
later (`--parsebinary`). The protocol was reverse-engineered: frames have no
length, no checksum and no escape, and the mark that ends one, CR LF, may occur
in a measured value (a reading of 3338 is the bytes 0x0d 0x0a).

This directory holds TLA+ models of the program, TLC configurations that check
them on small instances, and TLAPS proofs of the main results for every value of
the constants. Paths below are relative to `src/` inside the repository, except
`README.md`, which is the repository's.

## 1. Inventory

| Component | State | Operations | Modelled in |
|---|---|---|---|
| Framing, `UT612ByteStreamParser::processByte` | two byte counters, row number, buffer, "last byte was CR" flag | `processByte` | `FrameParser` |
| Decoder, `processFrame` and its helpers | none (pure; may throw) | `processFrame`, `bits2Number`, `mMode2String`, `sMode2String`, `mUnit2String`, `sUnit2String`, `freq2String` | `FrameDecoder` |
| Meter and link (external) | the frame being sent, what was lost | send a byte, lose a byte, begin a frame | `MeterStream`, `MeterFrames` |
| Byte source, `UT612ByteSource` and `processUSB` | `killed` flag, handler, set of sinks, the report in hand | construct and register sinks, `run`, `sigint_handler`, `notifyAllByteSinks` | `ByteSource` |
| Dump, `ByteStreamToFile` | an `ofstream` | constructor, `processByte`, destructor | `ByteSource`, `Replay` |
| Replay, `processFile` and `process` | the file's bytes, an index | read, feed a parser | `Replay` |
| hidapi, the device list, `hid_enumerate`, `hid_open`, `hid_open_path` | a linked list on the heap, file descriptors | enumerate, search, open, free, close | `HidEnumerate` |
| hidapi, report descriptors, `uses_numbered_reports` | a position in the descriptor | skip an item | `HidDescriptor` |
| hidapi, an open device, `hid_read_timeout`, `get_device_string` | kernel version, numbered-reports flag, the caller's arrays | read a report, get a string | `HidDevice`; in `ByteSource` as `run` uses it |
| Command line, `main` | the options set | read a word, choose a mode, exit status | `CommandLine` |
| `Makefile` install and uninstall | `/etc/modprobe.d/blacklist-cp210x.conf` and its backup | `install`, `uninstall`, `addBlacklist`, `removeBlacklist` | `Blacklist` |
| `collect_debug_info.sh` | none | runs `timeout 2s ./ut612` | its signal only (`sigterm`) |
| Unit tests, shell tests, USB captures | none | | not modelled; the test frames were used to validate `FrameDecoder` |

How they interact. There is one thread. `main` calls `processUSB` or
`processFile`. `processUSB` constructs the parser and, with `--dumpbinary`, the
dump, registers both as `IByteSink` and calls `run`, which calls back
`processByte` of every sink for every byte, in the order of the sinks'
addresses. `processByte` of the parser calls `processFrame` when a frame ends
and catches what it throws. `run` opens the meter with `hid_open`, which builds a
list of devices, opens one of them by its path and frees the list. The only
asynchronous parties are outside: signals, the meter, the kernel's report queue
for the reader, the USB cable, other devices coming and going, and the disk.
`make install` runs on its own, as root, on a file that others edit too.

What is hard here:

* *Framing without a reliable mark.* Whether a CR LF ends a frame depends on how
  many bytes happen to be buffered, hence on the whole history of the stream:
  where it was joined, what was lost, what was measured.
* *Loss that nobody reports.* The kernel drops reports when its queue is full.
  The program's only defence is the alignment check, which compares counters.
* *Signals at any step.* Ctrl-C may come before the handler is installed,
  between the test of `killed` and the poll, inside the poll, between two sinks.
* *Partial failure.* Every transfer to the meter may fail and most failures are
  only printed; the cable may be pulled, the disk may be full, the dump may not
  open; the decoder may throw after part of a row was handled.
* *A list under construction.* `hid_enumerate` links a node before it knows
  whether the device qualifies, and has to take it back; devices disappear
  between two questions to udev.
* *Files that are rewritten.* `removeBlacklist` moves a file away and filters it
  back; make may be interrupted anywhere, a disk may be full, a filter may fail
  without the pipeline noticing.
* *Numeric edges.* 16-bit values put together from bytes, magnitude of -32768,
  padding and cutting of digits, unsigned differences.

What makes each component correct:

* framing: counters, flag and buffer describe one stream; frames end at the
  first terminator that can end one, do not overlap, and rows show exactly their
  bytes; nothing is discarded without a message; one intact frame is enough to
  get back in step; without loss the log is the list of frames.
* decoder: the number printed is the number measured; values a meter can send
  can be printed; a row made of pieces of two frames is refused.
* byte source: sinks get each byte read, once, in order, and agree; the meter is
  left with its UART off, or the failure is printed; Ctrl-C ends the program and
  nothing else does once the meter is open; the dump is complete afterwards.
* replay: the rows of the session, up to a possibly missing last one.
* hidapi: the list is well formed at every step, is exactly what was asked for
  when it is returned, and is freed; the device opened is one that was listed; a
  report and a string are handed on as the device gave them.
* command line: nothing is touched that was not asked for; the exit status says
  what happened.
* install: undisturbed, install can be repeated and uninstall undoes it;
  disturbed, as few steps as possible can lose the user's lines, and the
  program's own come once and go.

`PROJECT.json` lists the hazards at their lines with the properties that would
catch them.

## 2. Modules

```
FrameParser ──┬── FrameParserProofs                     (theorems)
              ├── MeterStream ─┬ MeterReadings ── MeterStreamProofs
              │                └ MCMeterStream          (INSTANCE FrameLog, the abstract log)
              └── Replay ──────┬ ReplayProofs
                               └ MCReplay
FrameDecoder ─┬── MCFrameDecoder ─┬ FrameDecoderProofs
              └── MeterFrames ────┘                     (MeterFrames also in MeterReadings: real frames, real decoder)
ByteSource ── CommandLine ─┬ CommandLineProofs          (INSTANCE ByteChannel, the abstract channel)
                           └ MCByteSource
HidEnumerate ──┬── HidEnumerateProofs
               └── MCHidEnumerate
HidDescriptor ── HidDevice ─┬ HidDeviceProofs
                            └ MCHidDevice
Blacklist ──┬── BlacklistProofs
            └── MCBlacklist
```

**FrameParser** has one action, `ProcessByte(byte)`, the whole of `processByte`:
count the byte, append it, and if it is the LF of a CR LF and the buffer holds a
frame or more, print a row and clear the buffer. The first five variables are
the members of the class; `received` (all bytes) and `output` (one record per
row: number, printed diff or 0, values, position in the stream) are its input
and output. `ProcessFrame` is a parameter, so that framing can be checked, and
proved, for any decoder; "it threw" is one of its values, and a row that was
refused is still a row, which is what the `catch` makes of it.

**FrameDecoder** is `processFrame` as an operator on 17-byte sequences. Each
helper `X` is a pair: `XReadable`, it returns, and `X`, what it returns. All
exceptions are the one value `Refused`. The code formats numbers through strings
of digits; so does the model, because cutting, padding and stripping those
strings is where the errors would be. Wording is reduced to names of modes and
unit codes.

**MeterFrames** says what the meter sends, as far as the enumerations, comments
and tests of the repository tell, and defines `Misaligned(f, g, k)`: what lies
in a window that is `k` bytes out of step.

**MeterStream** puts the meter and a lossy link in front of the parser:
`Deliver` (the next byte reaches `ProcessByte`), `Lose`, `NextFrame`. Opening
the device in the middle of a frame is losing that frame's first bytes
(`StreamInit`). `frames`, `whole`, `inStep`, `lost`, `gap` and `row` are history
the properties speak about. **FrameLog** is the abstract specification: each
frame is shown once, in order. `MeterStream` maps `rows` to the values of
`output`. **MeterReadings** puts `MeterStream` and `MeterFrames` together: what
may be shown with the real meter and the real decoder (`NoFalseReading`), and
what must be (`IntactReadingIsShown`).

**ByteSource** is the thread of `processUSB` and `run` as labels of `pc`, one
action per call that can be interrupted or fail, and the world around it:
`sigint`, `sigterm` (any signal that is not caught), `report`, `unplug`.
Between two such calls the code touches only its own data, and a signal there
is the same as a signal before the next call. `readReport`, `readTimedOut` and
`readFailed` are the three results of `hid_read_timeout`; `notify` is one call
of one sink, so that a signal can fall between two sinks. The bytes are
numbered, so a lost, doubled or displaced byte shows. The sinks are only
recorders here; the parser as a sink is `FrameParser`. What `data[]` holds
behind the end of a report is `Garbage`, one value for whatever is there; the
same value stands for what lies behind `data[64]`, which a length byte of 64 or
more makes `run` read.
**ByteChannel** is what the byte source promises, as a specification of its own:
stretches of the meter's bytes are lost, and each sink is given the others one
by one, in their order, until a length was complained about. `ByteSource` maps
`sent`, `lost` and `trusted` to `produced`, `dropped` and the absence of that
complaint. It is also the link that `MeterStream` puts in front of the parser,
which assumes less: there any byte may be lost, here only whole reports.

Which file is dumped to (`binaryDumpFile`) is the caller's choice, and the order
of the sinks is drawn when they are registered. The length byte of a report may
be any byte, whatever the report's size (`MaxLength` is the largest); nobody looks
at it before the report is read, so `readReport` draws it.

**CommandLine** is `main` around it: `getopt_long` takes one word of `argv` per
step, `dispatch` makes the choice, and `ByteSource`'s actions follow, so the runs
check whole executions of the program from its start. Words are classes of
words: the two options that change the mode, help, the ones that only change
what is printed, the `-l` that the option string accepts and the `switch` does
not, unknown options, and operands.

**HidEnumerate** is the device list. A node has an address on a heap, so that a
dangling pointer, a leak or a second `free` is a state the invariants can tell.
One action is one step between two questions to udev, because devices may come
and go in between (`World`): an entry of udev's list, its hid parent, its uevent,
its USB parent. `order` is history: the nodes linked so far. `stale` marks the
slots whose device changed after the enumeration began; what the properties
promise, they promise of the others. Both enumerations are modelled, the one in
`hid_open` and the one that lists all devices in the error message, the search,
`hid_open_path` with the lowest free descriptor, and both frees. The fields that
are pointers to strings are one flag, `filled`, as they are set together.

**HidDescriptor** is the loop of `uses_numbered_reports` over the bytes of a
report descriptor. The reference is the definition of items in the HID
specification (`Encodes`): the descriptor is given together with the items it
encodes, and may be cut short in the middle of one. **HidDevice** adds what the
result is used for: the workaround for kernels before 2.6.34 in
`hid_read_timeout`, and the three device strings with the array that
`printHidDeviceInfo` uses for all of them.

**Blacklist** runs `make install` and `make uninstall` one command at a time,
with Ctrl-C, a full disk or a failing filter at any step, and as many times as
the bound allows. A file is the sequence of what was written to it: texts of the
user, the two texts of the program, line ends. The removal is the `sed`
substitution: the first place where the two lines are is cut out. The user's
lines are in a file (`HeldIn`) if it begins with them, line ends included.

**Replay** has the live parser and the replaying one as two phases of the same
`FrameParser` variables; the loop bound `data.size()-2` is modelled with its
wrap-around for a file of one byte (the loop reads on behind the end until the
process is ended by it: `ReplayCrash`).

Every definition that stands for code is in `map` of `PROJECT.json` with its
lines. A definition introduced by "Mutant of ..." is a plausible mistake in the
definition that follows it; it is used by nothing, and shows that the
property it is listed with in `PROJECT.json` can be broken by the code.

## 3. Runs

| Run | Instance | Checks | Bounds, and why they are enough |
|---|---|---|---|
| `framing` | every session of up to 9 bytes over {CR, LF, 0, other}, frames of 3 bytes, and the replay of its dump, with up to 3 bytes read behind the end | `TypeOK`, `BufferIsUnframedTail`, `FramesEndAtFirstTerminator`, `LinesMatchTheStream`, `ReplayedRowsAreLiveRows`, `OnlyTheLastRowIsMissing` | three whole frames, or two with bytes discarded in front of, between and behind them; a frame of 3 has room for a terminator that is too early and one that is late; files of 0, 1 and 2 bytes |
| `numbers` | `bits2Number` for all 65536 values, 1 to 7 decimals, 5 and 4 segments, against arithmetic (`ValueOf`: the digits by their places) | `NumberIsTruncatedReading`, `EveryValueIsPrintable` | complete |
| `loss` | frames of 4 bytes, up to 4, joined anywhere, any bytes lost, up to 5 since the last row | `IntactFrameIsShown`, `SilentLossIsWholeFrames`, `BufferIsBounded` | 5 lost bytes is one frame and one byte: losses of a whole frame size, shorter and longer ones |
| `log` | frames of 5 bytes with every mixture of CR, LF and others in the middle, up to 3, no loss | `LogIsTheFrames` (refinement of `FrameLog`, liveness included) | a frame of 5 has inner CR LF at every place it can be |
| `readings` | five real frames, four of them with CR LF in a value, real decoder, joined at any byte, up to 4 frames | `IntactFrameIsShown`, `NoFalseReading`, `IntactReadingIsShown` | the 17 bytes cut lie in two consecutive frames; four frames give every pair of them, reached from every join; one frame has a number that is printed only after zeros are put in front |
| `session` | every command line of up to 2 words; up to 3 bytes in reports of up to 2 (also empty), length bytes 0 to 3, queue of 2, failures, signals, cable, disk | `TypeOK`, `SinksAgree`, `ForwardedExactly`, `UartIsOffAtTheEnd`, `CommandLineIsObeyed`, `ReturnsAfterCtrlC`, `DumpIsComplete`, `CtrlCEndsTheProgram`, `CtrlCIsHeeded`, `SinksAreServed` (refinement of `ByteChannel`) | three reports for a queue of two, so reports are dropped; a report of two bytes, so a signal falls inside one; length bytes that are right, too small, and up to two too large, so that `data[]` is read behind the report; two sinks in both orders; two words give each pair of options in both orders |
| `replay_all` | as `framing`, sessions of up to 8 bytes | `ReplayShowsTheSession`, expected to fail | |
| `enumerate` | three slots, six kinds of device or none in each, two changes at any step, descriptor 0 free or not, with and without a serial number | `TypeOK`, `ListIsLinked`, `NothingIsLeft`, `EveryNodeIsFilled`, `ListIsExact`, `OpensWhatWasListed`, `NoDeviceStaysOpen`, `CrashesOnlyOnUnplug` | three nodes: one taken back behind none, one or two; two changes swap the device in a slot; the addresses are symmetric |
| `descriptor_zero` | as `enumerate` | `NullMeansFailure`, expected to fail | |
| `device` | descriptors of items of every length, long ones, ones cut short and data that looks like a Report ID; kernels around 2.6.34; strings that are missing, empty, convertible or not, and as long as fits | `WalkStaysOnItems`, `NumberedIsExact`, `StringsAreTheDevices`, `ReadGivesTheReport` | every size code, in front of and behind a Report ID; three strings through one array |
| `blacklist` | four files to begin with, 3 runs of install or uninstall, each interrupted or failing anywhere | `OnlyTwoStepsLose`, `InstallIsUndone`, `AliasIsThereOnce` | install, interrupted, repeated, undone: a run after a run after a cut |
| `install_again` | as `blacklist`, 2 runs | `InstallOnlyAdds`, expected to fail | |

Deadlock is not checked where the instance stops at a bound, and in `ByteSource`
because the program ends.

What the runs show, beyond "the property holds":

* *CR LF in a value is harmless in step.* Any CR LF inside a frame that began
  with an empty buffer comes when fewer than 17 bytes are buffered, and is
  skipped (`log`).
* *Out of step it need not heal.* Joined in the middle of a frame, with a steady
  reading that contains CR LF, the parser cuts at the inner CR LF again and
  again: each cut is 17 bytes after the last, so not even the alignment check
  speaks up. `NoFalseReading` says such rows never show values: `processFrame`
  refuses them. A single frame without inner CR LF ends the state
  (`IntactFrameIsShown`).
* *A row of two frames' bytes can be printed as a reading.* If what is lost
  between two rows is a multiple of 17 bytes, the head of one frame and the tail
  of another make a row that passes every check. `SilentLossIsWholeFrames` says
  it is the only case as long as no value has the byte LF
  (`LineFeedsEndFrames`). The proof showed why less is not enough: even if no
  frame has CR LF inside, a CR, a loss, and the LF inside a later frame make a
  terminator that is in neither, and a row that hides a loss of any size.
* *The buffer is bounded by the meter, not by the code.* It holds less than two
  frames, and one more for each terminator in a row that was lost or torn apart
  (`BufferIsBounded`).
* *Ctrl-C is heeded after at most one more report.* Once the flag is set, every
  step of the process brings it nearer to its end (`CtrlCIsHeeded`), however
  many reports the meter goes on sending.
* *Enumeration may crash, but only if a device is unplugged meanwhile.* udev then
  gives no uevent, and `parse_uevent_info` copies it with `strdup(NULL)`
  (`CrashesOnlyOnUnplug`); `hid_open` of `ByteSource` has that outcome too, before
  anything is switched on.
* *A string printed after a complaint may end in an older one*, as the array is
  not terminated; one printed without a complaint is right
  (`StringsAreTheDevices`).
* *An interrupted install must not simply be repeated.* Repeated, it does leave
  the alias once, on a line of its own, whatever was cut short before
  (`AliasIsThereOnce`, unless the disk was full). But if the interruption fell
  between the shell's creation of the new file and the end of the filter, the
  user's lines are in the backup only, and the next run, undisturbed, moves the
  unfinished file over them: one interruption and one ordinary run lose them
  (section 4). The other way to lose them is a `cat` or `sed` that fails: the
  pipeline's status is that of its last `tr`, so the backup is removed all the
  same. `OnlyTwoStepsLose` says that there is no third way.
* *Uninstall leaves no trace of install in the file* (`InstallIsUndone`), with two
  remarks: a file that did not exist is empty afterwards, and a last line without
  a line end carries the comment behind it as long as the program is installed.

## 4. Findings

* `replay_all`: `process` stops two bytes before the end of the data, so the row
  of a frame that ends with the file is not shown by `--parsebinary` though the
  live session showed it. `OnlyTheLastRowIsMissing` bounds the damage.
* `descriptor_zero`: `hid_open_path` takes descriptor 0 for a failure. A program
  started without standard input gets 0 for the device, reports that it cannot
  be opened, and leaves it open. `NoDeviceStaysOpen` says that it is the only way
  a device stays open.
* `install_again`: an install that was interrupted after the redirection of
  `Makefile:50` created the new, empty file has left the user's lines in the
  backup only. The next install, in which nothing goes wrong, moves the empty
  file over that backup (line 46), removes it (line 51) and reports that it
  "added blacklisting ... to" the file (line 69); `blacklist-cp210x.conf:2` says
  "Append". All the user's lines are gone.

`UT612ByteSource.hpp:36` warns that `run` will not return until Ctrl-C, and means
once the meter is open, as `main.cpp:76` has it; `ReturnsAfterCtrlC` checks that.

## 5. Fairness

`CommandLine` assumes weak fairness of `Program`, the union of the program's own
steps, `main`'s and those of `ByteSource`: the scheduler runs the thread, and the poll, which has a timeout of 1000
ms, returns. Nothing is assumed of the world: reports need not come, the cable
need not stay, signals need not be sent. `CtrlCEndsTheProgram` rests on the
timeout; with a blocking read it fails (a mutant). `CtrlCIsHeeded` needs no
fairness: it says that the steps the process does take are the right ones.

`MCFairSpec` of `MCMeterStream` assumes weak fairness of `Deliver`: a meter that
began a frame sends the rest of it. It is used only for the refinement of
`FrameLog`, whose liveness is that a frame begun is shown. The meter may stop
after any frame.

`HidEnumerate`, `HidDevice` and `Blacklist` assume no fairness: their properties
are about what may never happen, and the program may be killed at any step.

## 6. Proofs

`FrameParserProofs` proves, for every alphabet, frame size of at least 2 and
decoder:

| Theorem | Says |
|---|---|
| `FramingInvariant` | `ParserSpec => []IInv` |
| `TypeCorrect` | `ParserSpec => []TypeOK` |
| `BufferCorrect` | `ParserSpec => []BufferIsUnframedTail` |
| `FramingCorrect` | `ParserSpec => []FramesEndAtFirstTerminator` |
| `LinesCorrect` | `ParserSpec => []LinesMatchTheStream` |

Assumed are only that CR and LF are two different bytes and that a frame is at
least as long as its terminator. The inductive invariant `IInv` is the
conjunction of the four: none is inductive alone. That a row shows the right
bytes needs the buffer to be the tail of the stream (`BufferIsTail`); that no
terminator is missed needs the flag to say what the last byte was
(`FlagIsLastByte`) and the buffer's length to be the distance to the last frame
(`CountersAgree`); and the counters need the types. The step is split into the
two cases of `ProcessByte`, a frame ends or it does not, and each case into the
conjuncts.

`MeterStreamProofs` takes this invariant behind the lossy link
(`StreamInvariant`; every step of `MeterStream` is a step of the parser or leaves
it alone) and proves, for any set of frames that do not start with LF and end in
CR LF, any losses and any place the stream is joined:

| Theorem | Says |
|---|---|
| `IntactFrameShown` | `StreamSpec => []IntactFrameIsShown` |
| `BufferBounded` | `StreamSpec => []BufferIsBounded` |
| `LogImplemented` | `LosslessSpec => Log!LogInit /\ [][Log!LogNext]_(Log!logVars)`, the safety half of `LogIsTheFrames` |

`IntactFrameIsShown` speaks of the moment a frame is complete; what makes it
inductive is what is true while the frame is under way: the bytes that have
arrived are the end of the buffer (`ArrivedIsBuffered`), all of it when the
parser is in step, and the flag is about the frame's own last byte
(`FlagFollowsFrame`). From it, `NoEarlyEnd`: no terminator ends a frame before
its last byte, in step because the buffer is too short (line 529), out of step
because there is none inside; and `FrameIsFound`: the last byte does end it, and
the 17 bytes cut are the frame. `LogImplemented` adds that without loss the
parser stays in step and has as many rows as there are complete frames.
`BufferBounded` has an invariant of its own (`BoundInv`): while a frame is under
way the buffer holds less than one frame, one more for each terminator torn in a
row, and what was sent of this frame (`Filling`); and the flag tells whether the
CR just sent arrived (`FlagIsLastSent`), so an LF that arrives behind it empties
a buffer that has reached a frame.

The same module proves three properties that need a hypothesis; it is written in
front of the theorem. `LineFeedsEndFrames` is about the frames; `RealMeter` says
that frames, bytes and decoder are those of `MeterFrames` and `FrameDecoder`, as
in the run `readings`:

| Theorem | Hypothesis | Says |
|---|---|---|
| `SilentLossCounted` | `LineFeedsEndFrames` | `StreamSpec => []SilentLossIsWholeFrames` |
| `NoFalseReadingShown` | `RealMeter` | `StreamSpec => []NoFalseReading` |
| `IntactReadingShown` | `RealMeter`, and every frame is one the meter sends (`IsMeterFrame`) | `StreamSpec => []IntactReadingIsShown` |

For the first, rows end only where frames do (`RowsEndWithFrames`), so what is
buffered and what was lost since the last row is a number of whole frames and the
part of the one under way (`WholeFramesPassed`, arithmetic modulo the frame
size); a row without alignment error has a whole frame in it, so the rest was
lost. For the second, the bytes received since the last loss are the last ones
the meter sent, across the frame boundary (`ReceivedIsSent`): a row of contiguous
bytes is a frame or a window of two consecutive frames, which
`MisalignedIsRefused` says is not decoded. The third puts `IntactFrameShown` and
the decoder's `MeterFrameIsRead` together: a frame that arrives whole (and, if
the parser is out of step, has no CR LF inside) is shown as the reading it is.

`CommandLineProofs` proves, for command lines of any length, reports and queues of
any size, any length byte, and every fault of the world at any step:

| Theorem | Says |
|---|---|
| `ProgramInvariant` | `Spec => []Inv` |
| `TypeCorrect` | `Spec => []TypeOK` |
| `SinksCorrect` | `Spec => []SinksAgree` |
| `ForwardingCorrect` | `Spec => []ForwardedExactly` |
| `UartCorrect` | `Spec => []UartIsOffAtTheEnd` |
| `ReturnCorrect` | `Spec => []ReturnsAfterCtrlC` |
| `DumpCorrect` | `Spec => []DumpIsComplete` |
| `CommandLineCorrect` | `Spec => []CommandLineIsObeyed` |
| `CtrlCHeeded` | `Spec => CtrlCIsHeeded`, an action property |
| `ChannelImplemented` | `Spec => SinksAreServed`, the refinement of `ByteChannel` |

Assumed is only that the bounds are positive (`MaxLength` may be 0). The parts of `Inv`: what is true at
each label (`Control`); nothing was touched before the meter is open
(`Untouched`); the sinks before the one that is being notified have one byte more
than those behind it (`InStep`), which gives `SinksAgree`; where the UART may be on
(`Switch`); the dump (`Closed`); the options (`Obeyed`). `ForwardedExactly` needs
two: the bytes are numbered, those read, those in the report at hand, those
queued and those still to be sent follow each other, and each number is read,
queued or dropped (`Numbered`); and, unless a length byte was complained about,
what a sink has is what was read without the rest of the report in hand
(`Forwarding`).

`CtrlCHeeded` needs besides that the flag cannot be set before the handler is
installed (`NotYet`); `StepsLeft` is then a natural number (`StepsLeftType`) that
each step of the process makes smaller (`ProcessNearsTheEnd`) and no step of the
world makes larger (`WorldDelaysNothing`). With the fairness of section 5 this is
why `CtrlCEndsTheProgram` holds, for reports of any size. `ChannelImplemented`
is a step simulation: sending a report is a `Send` (`SendIsSend`), calling a sink
is a `Deliver` (`NotifyDelivers`) or, once a length was complained about, a
`Garble`, and every other step leaves the channel alone or is the complaint
(`ChannelKept`). That the byte delivered is the next one not lost needs one more
invariant, `Apart`: what was dropped is neither read nor waiting.

`ReplayProofs` proves, for sessions of any length over any bytes:

| Theorem | Says |
|---|---|
| `ReplayInvariant` | `ReplaySpec => []ReplayInv` |
| `ReplayFaithful` | `ReplaySpec => []ReplayedRowsAreLiveRows` |
| `ReplayNearlyComplete` | `ReplaySpec => []OnlyTheLastRowIsMissing` |

Framing is a function of the bytes, but a recursive one, so it is not compared as
a function. Instead `Cut(r, o)` says that the rows `o` are cut from the bytes `r`,
which the invariant of `FrameParser` gives for both parsers (`ParserCuts`); two
row lists cut from the same bytes agree row by row, as the next row ends at the
first terminator that can end it. `InStep` carries it along the replay.

`HidDeviceProofs` proves, for every descriptor that encodes items in the sense
of `Encodes`, whole or cut short, and every device:

| Theorem | Says |
|---|---|
| `WalkInvariant` | `DescriptorSpec => []WalkInv` |
| `WalkCorrect` | `DescriptorSpec => []WalkStaysOnItems` |
| `NumberedCorrect` | `DescriptorSpec => []NumberedIsExact` |
| `StringsAreShown` | `DeviceSpec => []StringsAreTheDevices` |
| `DeviceInvariant` | `DeviceSpec => []ReadInv` |
| `ReportIsGiven` | `DeviceSpec => []ReadGivesTheReport` |
| `OpenWalkCorrect` | `DeviceSpec => [](WalkStaysOnItems /\ NumberedIsExact)` |

The invariant of the walk is that `i` is the start of an item or behind the end,
and that no Report ID was passed; a step from the start of an item is as long as
the item (short with its four sizes, long with its length byte), or leads behind
the end if the item is cut. An open device carries that walk along (`ReadInv`),
the flag made of its result (`FlagInv`) and the kernel's version as it was
detected (`KernelInv`). `DeviceAssumption` is what the last needs: the version is
put together from three numbers, of which the last two must be bytes, if the
kernel is older than 2.6.34, for the comparison to be the order of releases
(`VersionsAreOrdered`); and the strings, as USB has them, are without NUL and fit the
array. `StringsAreShown` has an invariant of its own (`StringsInv`): what is in the
array may be of an earlier string, but each string shown so far is honest.

`HidEnumerateProofs` proves, for any number of slots, addresses, kinds of devices
and changes:

| Theorem | Says |
|---|---|
| `ListInvariant` | `Spec => []Inv` |
| `TypeCorrect` | `Spec => []TypeOK` |
| `ListCorrect` | `Spec => []ListIsLinked` |
| `NothingLeft` | `Spec => []NothingIsLeft` |
| `NodesFilled` | `Spec => []EveryNodeIsFilled` |
| `OpenInvariant` | `Spec => []OpenInv` |
| `ListedExactly` | `Spec => []ListIsExact` |
| `OpensTheListed` | `Spec => []OpensWhatWasListed` |
| `NoneStaysOpen` | `Spec => []NoDeviceStaysOpen` |
| `CrashNeedsUnplug` | `Spec => []CrashesOnlyOnUnplug` |

Three lemmas about heaps and lists carry it: what linking a node at the end, taking
the last one back and freeing the first do to a chain (`LinkAppends`,
`TakeBackUnlinks`, `FreeUnlinks`). The invariant adds to the four properties that
a device that is not stale exists (`Fresh`; without it a node might describe
nothing) and where the pointers are when nobody looks at them (`Placed`: there is
no list between two calls, and the node to take back is the last one).

`OpenInv` builds on it. While the list grows: the slots of its nodes increase and
lie in front of what is still to come (`Increasing`, `Ahead`); a node describes
what is in its slot unless that was touched (`Described`); each node is of a wanted
device, but for the one in hand (`AllWanted`), and each wanted device has a node
or is still to come (`AllListed`). While it is searched: no node that was passed is
the one (`Passed`). From then on `Right` says of the path, and then of the handle,
that it is the first device asked for; and at most one descriptor is open, the
handle's, or 0 without a handle (`OneOpen`). A uevent is read only of an entry that
had a hid parent (`ParentWasThere`), so a crash needs a change.

`FrameDecoderProofs` proves, for all bytes:

| Theorem | Says |
|---|---|
| `MisalignedIsRefused` | no window out of step over two frames that ends in CR LF is decoded |
| `BytesAreBytes` | `MCSpec => []BytesOK` |
| `NumbersAreTruncated` | `MCSpec => []NumberIsTruncatedReading` |
| `ValuesArePrintable` | `MCSpec => []EveryValueIsPrintable` |
| `MeterFrameIsRead` | `IsMeterFrame(d) => processFrame(d) = Reading(d)` |

`MisalignedIsRefused` assumes that the fixed bytes of the two frames are as the
meter's. Of the 16 offsets only 8, 9, 13 and 14 can put CR LF at the end,
because of the fixed bytes; at 8 the secondary error flags are the mode byte of
the next frame, at the others the mode byte is a CR, a set of flags or the
secondary error flags, and each is refused. This is `NoFalseReading`'s reason,
for all frames instead of five.

What `bits2Number` prints goes through strings of digits: the digits of the
magnitude, zeros in front of them, the part in front of the point without its
zeros, and as much of the part behind it as fits. The proof takes them for what
they are worth. The magnitude is at most 32768, so it has 1 to 5 digits
(`DigitCount`); digit k from the right of the padded string is
`m \div 10^k % 10`, a zero of the padding included (`PaddedIsPlaces`); what is
shown, in front of the point and behind it, is one stretch of the padded string
(`WholeIsSpan`, `ShownIsSpan`), which ends c digits before its end; and such a
stretch of at most five digits, with only zeros before it, is worth
`m \div 10^c` (`SpanIsQuotient`, from `PlacesAreQuotient`). No step of it takes
an induction over the digits, because there are at most five that count.
`NumberIsTruncated` and `ValueIsPrintable` state the result for any two bytes;
the theorems about the instance and `MeterFrameIsRead` follow from them.

`BlacklistProofs` proves, for any file of the user's, any number of runs and cuts
at any step:

| Theorem | Says |
|---|---|
| `LossesCounted` | `Spec => OnlyTwoStepsLose`, an action property |
| `InstallUndone` | `Spec => []InstallIsUndone` |
| `AliasOnce` | `Spec => []AliasIsThereOnce` |

Assumed is that the program's two lines and the line end are three texts and none
of the user's (`BlacklistAssumption`). All three rest on what the filter does
(`Filtered`): it leaves a file alone in which the two lines do not follow each
other, and takes out the first place where they do; that the first place exists
is the one well-founded argument here (`Smallest`). From it: a file that begins with
the user's lines, in which the two lines do not occur, still begins with them
(`HeldFiltered`), a file that ends in the two lines loses them
(`BlockIsRemoved`), and what is left has no alias (`TidyIsFiltered`). The
invariants say what the other copy holds at each command (`KeptInv`: until the
filter has run the file is empty, and before `rm` it has the lines if the backup
does, unless the filter failed), what
undisturbed runs have made of the file so far (`UndoneInv`), and that without a
full disk file and backup end in the two lines or have no alias (`AliasInv`). The
last is inductive only because an interruption between the two `echo`s leaves a
comment, which is no alias (`CommentIsClean`); on a full disk `echo` may write the
alias without its line end, which the filter does not find, hence the exception.

Every safety property of the passing runs is a theorem. Only model-checked:

* liveness: `CtrlCEndsTheProgram` (its safety half is `CtrlCHeeded`), and the
  progress half of `LogIsTheFrames` (its safety half is `LogImplemented`).
  Liveness under fairness is out of the prover's reach;
* the three runs that show a finding.

## 7. Not modelled

* Text: wording of rows, headers, messages, the time stamp. `getCurrentTime`
  throws for a time `localtime_r` cannot represent, outside the `try`; no state
  of the model leads there.
* Counters are unbounded. `bytesSinceLastFrame` is an `int` in the code, the
  counters are `size_t`; they differ from the model after 2^31 bytes without a
  frame.
* A length byte beyond the report makes `run` read what is in `data[]` behind it,
  and from 64 on what lies behind the array, up to 255 bytes: the model hands on
  `Garbage` for each such byte, any value. That a read behind the array might do
  anything else is left out: it stays within the stack of the thread.
* `hid_read_timeout` makes 0 bytes of an `EAGAIN` or `EINPROGRESS` of `read`
  (`hid.c:707`): only a descriptor that does not block gives these, and the program
  never asks for one (`ReadReport`, `ReadFails`).
* `hid_init` is taken to succeed (it only sets the locale); memory is taken to be
  sufficient.
* Functions of hidapi that the program does not call: `hid_write`, `hid_read`,
  `hid_set_nonblocking`, `hid_get_feature_report`, `hid_get_indexed_string`,
  `hid_error`. For this program the header `hidapi.h` only declares.
* A hard link, a directory or a missing right in place of the blacklist file: the
  recipes run as root on a plain file.
* The unit tests, the captures and the text that `collect_debug_info.sh` gathers.

## 8. Plan

Done: framing, decoder, meter stream with the abstract log, byte source with the
abstract channel, command line, replay, hidapi as far as it is called, install
and uninstall; every safety property of the passing runs is a theorem. Next:

* `Session`: `ByteChannel` with `FrameParser` as a receiver, so that the loss at
  the report queue meets the alignment check in one model; its theorem would
  follow from `ChannelImplemented` and `SilentLossCounted`, as a channel that
  loses reports is a `MeterStream` that loses bytes.
