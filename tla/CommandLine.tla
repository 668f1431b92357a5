---------------------------- MODULE CommandLine -----------------------------
(***************************************************************************)
(* The whole program as it is started: main reads its options with         *)
(* getopt_long, one word of argv at a time, and refuses, helps, replays a  *)
(* dump, or hands over to processUSB, which is ByteSource.  Signals come   *)
(* at any step.                                                            *)
(***************************************************************************)
EXTENDS ByteSource

CONSTANT MaxWords   \* bound: the words of argv

(* What getopt_long makes of a word, with its argument if it takes one:    *)
(* --verbose and --noheader, which change only what is printed, are one;   *)
(* -l is in the list of short options and has no case; "?" is an unknown   *)
(* option or a missing argument; an operand is not an option.              *)
Words == {"dumpbinary", "parsebinary", "help", "verbose", "l", "?", "operand"}

VARIABLES
  argv,    \* the words still to be read
  args,    \* the arg... variables that were set, and optind < argc
  asked    \* history: the words argv began with, but for "verbose"

programVars == <<vars, argv, args, asked>>

MainInit ==
  /\ Init
  /\ pc = "main" /\ binaryDumpFile = FALSE
  /\ argv \in UNION {[1..n -> Words] : n \in 0..MaxWords}
  /\ args = {} /\ asked = {argv[n] : n \in DOMAIN argv} \ {"verbose"}

(* The next word is read and noted. *)
Read(words) ==
  /\ pc = "main" /\ argv # <<>> /\ Head(argv) \in words
  /\ argv' = Tail(argv)

option ==
  /\ Read({"dumpbinary", "parsebinary", "help", "verbose"})
  /\ args' = args \cup ({Head(argv)} \ {"verbose"})
  /\ UNCHANGED <<pc, status>>

(* Case '?', and the default. *)
badOption ==
  /\ Read({"?", "l"})
  /\ End("1")
  /\ UNCHANGED args

(* getopt_long moves it behind the options. *)
operand ==
  /\ Read({"operand"})
  /\ args' = args \cup {"operand"}
  /\ UNCHANGED <<pc, status>>

getopt_long ==
  /\ option \/ badOption \/ operand
  /\ UNCHANGED <<binaryDumpFile, asked>>

(* Mutant of Chosen: the replay comes before the help and the operands. *)
ChosenReplayFirst ==
  IF "parsebinary" \in args THEN "processFile"
  ELSE IF "operand" \in args THEN "refuse"
  ELSE IF "help" \in args THEN "printHelp" ELSE "processUSB"

Chosen ==
  IF "operand" \in args THEN "refuse"
  ELSE IF "help" \in args THEN "printHelp"
  ELSE IF "parsebinary" \in args THEN "processFile" ELSE "processUSB"

dispatch ==
  /\ pc = "main" /\ argv = <<>>
  /\ \/ Chosen = "refuse" /\ End("1")
     \/ Chosen = "printHelp" /\ End("0")
     \/ Chosen \in {"processFile", "processUSB"} /\ Goto(Chosen)
  /\ binaryDumpFile' = (Chosen = "processUSB" /\ "dumpbinary" \in args)
  /\ UNCHANGED <<argv, args, asked>>

(* The module Replay: 0 whatever is in the file, also if there is none;    *)
(* but a file of one byte is read beyond its end.                          *)
processFile ==
  /\ pc = "processFile"
  /\ End("0") \/ End("SIGSEGV")
  /\ UNCHANGED <<binaryDumpFile, argv, args, asked>>

main ==
  /\ getopt_long \/ dispatch \/ processFile
  /\ UNCHANGED <<signals, order, inHand, given, complaints, meter, disk>>

Program == main \/ (Process /\ UNCHANGED <<argv, args, asked>>)

ProgramNext == Program \/ (World /\ UNCHANGED <<argv, args, asked>>)

(* The process is scheduled, poll keeps its timeout; the world owes it     *)
(* nothing.                                                                *)
Spec == MainInit /\ [][ProgramNext]_programVars /\ WF_programVars(Program)

-----------------------------------------------------------------------------
(* Properties.                                                             *)

(* The meter is touched, and a dump created, only by a command line        *)
(* without a mistake, which asks neither for help nor for a replay; no     *)
(* dump that was asked for is forgotten.  Unless a signal ends it, the     *)
(* status tells how it went: 1 for a mistake or a session that could not   *)
(* begin, 0 for help, for a replay, and for a session ended by Ctrl-C; it  *)
(* crashes only in a replay or a session, and for no mistake.              *)
CommandLineIsObeyed ==
  LET mistake == asked \cap {"?", "l", "operand"} # {}
      session == asked \subseteq {"dumpbinary"}
  IN  /\ order # <<>> \/ uart => session
      /\ order # <<>> => (binaryDumpFile <=> "dumpbinary" \in asked)
      /\ status = "0" => ~mistake /\ (order = <<>> => asked \cap {"help", "parsebinary"} # {})
      /\ status = "1" => mistake \/ session
      /\ status = "exception" => "dumpbinary" \in asked
      /\ status = "SIGSEGV" => ~mistake /\ ("parsebinary" \in asked \/ session)
      /\ "help" \in asked /\ pc = "ended" => status \in {"0", "1", "SIGINT", "SIGTERM"}

(* An upper bound on the steps that are left to the process once killed is *)
(* set: those of one poll, of the two calls for each byte of its report,   *)
(* and of the way out.                                                     *)
StepsLeft ==
  CASE pc = "ended"       -> 0
    [] pc = "cleanup"     -> 1
    [] pc = "disableUart" -> 2
    [] pc = "loop"        -> 3
    [] pc = "notify"      -> 4 + 2 * (count - i) - sink
    [] pc = "poll"        -> 4 + 2 * MaxLength
    [] pc = "enableUart"  -> 4
    [] pc = "setupUart"   -> 5
    [] OTHER              -> 6

(* Once killed is set, whatever the process does next brings it nearer to  *)
(* its end, and nothing that happens around it (reports that keep coming,  *)
(* unplugging, another signal) takes it away again: at most one more       *)
(* report is read.                                                         *)
CtrlCIsHeeded ==
  [][killed => /\ killed' /\ StepsLeft' <= StepsLeft
               /\ Program => StepsLeft' < StepsLeft]_programVars
=============================================================================
