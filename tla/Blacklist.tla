----------------------------- MODULE Blacklist ------------------------------
(***************************************************************************)
(* make install and make uninstall.  Both take two lines, a comment and an *)
(* alias, out of /etc/modprobe.d/blacklist-cp210x.conf, a file that may    *)
(* hold lines of the user's, and install appends them again.  The removal  *)
(* moves the file aside and filters it back; a run of make may be cut      *)
(* short at any step, and make stops at the first command that fails.      *)
(*                                                                         *)
(* A file is the sequence of what was written to it: the user's texts, the *)
(* two texts of the program, and line ends.                                *)
(***************************************************************************)
EXTENDS Integers, Sequences, SequencesExt

CONSTANTS
  UserText, Comment, Alias, NL,
  Absent,        \* in place of a file
  UserFiles,     \* what the file may be before the first run
  MaxRuns        \* bound

ASSUME BlacklistAssumption ==
  /\ {Comment, Alias, NL} \cap UserText = {}
  /\ Comment # Alias /\ Comment # NL /\ Alias # NL
  /\ UserFiles \subseteq Seq(UserText \cup {NL}) \cup {Absent}
  /\ Absent \notin Seq(UserText \cup {Comment, Alias, NL})
  /\ MaxRuns \in Nat

VARIABLES
  pc, goal,      \* what make is at, and what for
  ut612, rules,  \* the program and the udev rule are installed
  conf, bak,     \* the file and its backup, or Absent
  user,          \* history: the file before the first run
  runs,
  cut,           \* history: a run was interrupted, or a command failed
  full,          \* history: one of them for a full disk
  failed         \* history: in this run a filter failed unnoticed

vars == <<pc, goal, ut612, rules, conf, bak, user, runs, cut, full, failed>>
installed == <<ut612, rules>>
history == <<user, runs, cut, full, failed>>

Block == <<Comment, NL, Alias, NL>>

Init ==
  /\ pc = "idle" /\ goal = "none"
  /\ ut612 = FALSE /\ rules = FALSE
  /\ conf \in UserFiles /\ user = conf /\ bak = Absent
  /\ runs = 0 /\ cut = FALSE /\ full = FALSE /\ failed = FALSE

Goto(label) == pc' = label /\ UNCHANGED goal

(* make stops: a command failed, or Ctrl-C. *)
Stop == pc' = "idle" /\ goal' = "none" /\ cut' = TRUE

Start(g) ==
  /\ pc = "idle" /\ runs < MaxRuns
  /\ goal' = g /\ pc' = g
  /\ runs' = runs + 1 /\ failed' = FALSE
  /\ UNCHANGED <<installed, conf, bak, user, cut, full>>

Interrupt ==
  /\ pc # "idle"
  /\ Stop
  /\ UNCHANGED <<installed, conf, bak, user, runs, full, failed>>

-----------------------------------------------------------------------------
(* The recipes.                                                            *)

install ==
  /\ pc = "install"
  /\ \/ ~ut612 /\ ut612' = TRUE /\ UNCHANGED <<pc, goal, rules>>
     \/ ut612 /\ rules' = TRUE /\ Goto("removeBlacklist") /\ UNCHANGED ut612
  /\ UNCHANGED <<conf, bak, history>>

(* rm of what is not there fails, and make stops before removeBlacklist.   *)
uninstall ==
  /\ pc = "uninstall"
  /\ IF ut612 THEN ut612' = FALSE /\ Goto("uninstall_rules") /\ UNCHANGED cut
              ELSE Stop /\ UNCHANGED ut612
  /\ UNCHANGED <<rules, conf, bak, user, runs, full, failed>>

uninstall_rules ==
  /\ pc = "uninstall_rules"
  /\ IF rules THEN rules' = FALSE /\ Goto("removeBlacklist") /\ UNCHANGED cut
              ELSE Stop /\ UNCHANGED rules
  /\ UNCHANGED <<ut612, conf, bak, user, runs, full, failed>>

AfterRemoval == IF goal = "install" THEN "addBlacklist" ELSE "finished"

(* if [ -e conf ] *)
removeBlacklist ==
  /\ pc = "removeBlacklist"
  /\ IF conf = Absent THEN Goto(AfterRemoval) ELSE Goto("mv")
  /\ UNCHANGED <<installed, conf, bak, history>>

(* mv takes the place of a backup that an earlier run left. *)
mv ==
  /\ pc = "mv"
  /\ bak' = conf /\ conf' = Absent
  /\ Goto("create")
  /\ UNCHANGED <<installed, history>>

(* The shell creates the file before the filters run. *)
create ==
  /\ pc = "create"
  /\ conf' = <<>>
  /\ Goto("filter")
  /\ UNCHANGED <<installed, bak, history>>

(* Mutant of WithoutBlock: the pattern is anchored at both ends. *)
WithoutBlockAnchored(file) == IF file = Block THEN <<>> ELSE file

(* tr, sed, tr: the first place where the two lines are is cut out. *)
WithoutBlock(file) == ReplaceFirstSubSeq(<<>>, Block, file)

filter ==
  /\ pc = "filter"
  /\ conf' = WithoutBlock(bak)
  /\ Goto("rm")
  /\ UNCHANGED <<installed, bak, history>>

(* Mutant of filterDiskFull: ; in place of &&. *)
filterDiskFullGoesOn ==
  /\ pc = "filter"
  /\ conf' \in Prefixes(WithoutBlock(bak))
  /\ full' = TRUE
  /\ Goto("rm")
  /\ UNCHANGED <<installed, bak, user, runs, cut, failed>>

(* The last command of the pipeline cannot write: && leaves the backup.    *)
filterDiskFull ==
  /\ pc = "filter"
  /\ conf' \in Prefixes(WithoutBlock(bak))
  /\ Stop /\ full' = TRUE
  /\ UNCHANGED <<installed, bak, user, runs, failed>>

(* cat or sed fails: the status is that of the last command all the same.  *)
filterFails ==
  /\ pc = "filter"
  /\ conf' = <<>>
  /\ cut' = TRUE /\ failed' = TRUE
  /\ Goto("rm")
  /\ UNCHANGED <<installed, bak, user, runs, full>>

rm ==
  /\ pc = "rm"
  /\ bak' = Absent
  /\ Goto(AfterRemoval)
  /\ UNCHANGED <<installed, conf, history>>

Contents(file) == IF file = Absent THEN <<>> ELSE file

(* Mutant of Appended: > in place of >>. *)
AppendedOver(file, text) == <<text, NL>>

(* echo text >> conf *)
Appended(file, text) == Contents(file) \o <<text, NL>>

echo(label, text, next) ==
  /\ pc = label
  /\ conf' = Appended(conf, text)
  /\ Goto(next)
  /\ UNCHANGED <<installed, bak, history>>

(* Nothing is written, or the line without its end. *)
echoDiskFull(label, text) ==
  /\ pc = label
  /\ conf' \in {Contents(conf), Contents(conf) \o <<text>>}
  /\ Stop /\ full' = TRUE
  /\ UNCHANGED <<installed, bak, user, runs, failed>>

addBlacklist ==
  \/ echo("addBlacklist", Comment, "addAlias") \/ echoDiskFull("addBlacklist", Comment)
  \/ echo("addAlias", Alias, "finished") \/ echoDiskFull("addAlias", Alias)

Finish ==
  /\ pc = "finished"
  /\ pc' = "idle"
  /\ UNCHANGED <<goal, installed, conf, bak, history>>

Next ==
  \/ \E g \in {"install", "uninstall"} : Start(g)
  \/ Interrupt
  \/ install \/ uninstall \/ uninstall_rules
  \/ removeBlacklist \/ mv \/ create \/ filter \/ filterDiskFull \/ filterFails
  \/ rm \/ addBlacklist \/ Finish

Spec == Init /\ [][Next]_vars

-----------------------------------------------------------------------------
(* Properties.                                                             *)

(* The file begins with all of the user's, the ends of lines included.     *)
HeldIn(file) == IsPrefix(Contents(user), Contents(file))

Held == HeldIn(conf) \/ HeldIn(bak)

(* Two commands lose what the user has in the file, as long as it is in    *)
(* the file or in the backup: mv, if an earlier run that was cut short     *)
(* left it in the backup only, and rm, if cat or sed has failed behind the *)
(* back of the pipeline's status.  Nothing else does: no interruption, no  *)
(* full disk, and no other command, at whatever step and in whatever run.  *)
OnlyTwoStepsLose ==
  [][Held => \/ Held'
             \/ mv /\ cut /\ ~HeldIn(conf)
             \/ rm /\ failed]_vars

Done(g) == pc = "finished" /\ goal = g

(* What install says at its end (Makefile:69), that it added its two lines *)
(* to the file: if none of its commands failed, what the user had there is *)
(* still there, or at least in the backup.                                 *)
InstallOnlyAdds == Done("install") /\ ~failed => Held

(* If no run was cut short and no command failed, install leaves the       *)
(* user's file with the two lines behind it, however often it is repeated, *)
(* and uninstall leaves the user's file as it was (empty, if there was     *)
(* none); there is no backup left.  If the last line of the user's had no  *)
(* end, the comment stands behind it on that line until then.              *)
InstallIsUndone ==
  ~cut =>
    /\ Done("install") => conf = Contents(user) \o Block
    /\ Done("uninstall") => Contents(conf) = Contents(user)
    /\ pc = "idle" => bak = Absent

Aliases(file) == {n \in DOMAIN Contents(file) : file[n] = Alias}

(* Whatever was interrupted before, unless the disk was full: after an     *)
(* install the kernel finds the alias once, on a line of its own, and      *)
(* after an uninstall it does not find it.                                 *)
AliasIsThereOnce ==
  ~full =>
    /\ Done("install") =>
         \E n \in DOMAIN conf : /\ Aliases(conf) = {n}
                               /\ n > 1 => conf[n - 1] = NL
                               /\ n < Len(conf) /\ conf[n + 1] = NL
    /\ Done("uninstall") => Aliases(conf) = {}
=============================================================================
