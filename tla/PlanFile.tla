------------------------------ MODULE PlanFile ------------------------------
(***************************************************************************)
(* The benchmark file across commands: main's plan and run commands        *)
(* (controller/main.go), BenchmarkPlan.Run (run.go), LoadBenchmark and     *)
(* BenchmarkPlan.Save (benchmark.go), and the prologue of BenchmarkRun.Run *)
(* that changes the configuration Save writes back.                        *)
(*                                                                         *)
(* Save is modelled system call by system call, so that the process can be *)
(* killed between any two.  A kill takes the process, not the machine:     *)
(* what a call did to the files stays done.  What a run may come to is     *)
(* RunContract's verdict.                                                  *)
(***************************************************************************)
EXTENDS Naturals

CONSTANTS
  N,            \* the number of runs of the plan
  NumaUnset,    \* runs whose RunConfig.NumaDisable is still nil
  NumaDisabled, \* runs for which it is true
  NoSets,       \* runs without worker sets
  EmptySets,    \* runs whose worker sets all have Count 0
  UntilInterrupt, \* runs with RuntimeSeconds 0
  DirNames,     \* whether the file name may have a directory in it: "dir/test.bench"
  MaxCommands,  \* bound: schedbench commands given
  MaxFaults     \* bound: kills and failing system calls

Runs == 1 .. N

ASSUME PlanAssumption ==
  /\ N \in Nat /\ MaxCommands \in Nat /\ MaxFaults \in Nat
  /\ NumaUnset \subseteq Runs /\ NumaDisabled \subseteq Runs
  /\ NoSets \subseteq Runs /\ EmptySets \subseteq Runs /\ UntilInterrupt \subseteq Runs
  /\ NumaUnset \cap NumaDisabled = {}
  /\ DirNames \subseteq BOOLEAN

VARIABLES
  file,       \* the benchmark file
  backup,     \* .<filename>.tmp
  dirName,    \* the file name has a directory in it, and .<directory> is missing
  pc,         \* where the command is; "down" between commands
  command,    \* "plan", "template" (plan with -t) or "run"
  i,          \* the run plan.Run is at
  mem,        \* the BenchmarkPlan in memory
  hasBackup,  \* Save's backupFilename is not ""
  \* history and bounds
  acked,      \* per run: the attempt that Save reported as saved, until a plan
              \* made from a template takes its place
  finished,   \* per run: how often Run returned with Completed set, since the
              \* last template was given
  attempts,   \* runs started so far; an attempt is named by its number
  ended,      \* how the last command ended
  commands, faults

files   == <<file, backup, dirName>>
process == <<pc, command, i, mem, hasBackup>>
history == <<acked, finished, attempts, ended>>
vars    == <<files, process, history, commands, faults>>

(***************************************************************************)
(* A file holds nothing readable, the input of a plan, or a plan: for each *)
(* run the attempt whose results it holds (0: not Completed), and the runs *)
(* in whose worker sets a SoftAffinity is set.                             *)
(***************************************************************************)
Content == [kind : {"absent", "torn", "input", "plan"}, result : [Runs -> Nat],
            soft : SUBSET Runs]
NoResults    == [r \in Runs |-> 0]
Blank(kind)  == [kind |-> kind, result |-> NoResults, soft |-> {}]
Readable(c)  == c.kind \in {"input", "plan"}
HasWorkers(r) == r \notin NoSets /\ r \notin EmptySets

\* A new benchmark file starts as an input, or is made from a template.
Init ==
  /\ file \in {Blank("input"), Blank("absent")}
  /\ backup = Blank("absent") /\ dirName \in DirNames
  /\ pc = "down" /\ command = "run" /\ i = 1
  /\ mem = Blank("input") /\ hasBackup = FALSE
  /\ acked = NoResults /\ finished = NoResults
  /\ attempts = 0 /\ ended = "ok"
  /\ commands = 0 /\ faults = 0

\* One of the bounded number of things that go wrong.
Fault   == faults < MaxFaults /\ faults' = faults + 1
NoFault == UNCHANGED faults

\* The process is gone, and its memory with it.
Exit(how) ==
  /\ pc' = "down" /\ ended' = how
  /\ UNCHANGED <<command, i, mem, hasBackup>>

-----------------------------------------------------------------------------
(* main: LoadBenchmark, then the command.                                  *)

BeginCommand(c) ==
  /\ pc = "down" /\ commands < MaxCommands
  /\ command' = c /\ commands' = commands + 1

\* schedbench plan: ExpandInput refuses a plan that has runs already.
PlanCommand ==
  /\ BeginCommand("plan") /\ file.kind = "input"
  /\ mem' = Blank("plan")
  /\ pc' = "rename"
  /\ UNCHANGED <<files, i, hasBackup, history, faults>>

\* schedbench -t template -f file plan: the template is loaded, its runs are
\* cleared and the plan goes to the file, whatever that holds and whether or not
\* there is a backup.  Any template gives the N runs of this module here; one that
\* cannot be read or expanded ends the command and changes nothing.
PlanFromTemplate ==
  /\ BeginCommand("template")
  /\ mem' = Blank("plan")
  /\ pc' = "rename"
  /\ finished' = NoResults
  /\ UNCHANGED <<files, i, hasBackup, acked, attempts, ended, faults>>

\* Mutant of RunCommand: the index starts one too low.
RunCommand_FromZero ==
  /\ BeginCommand("run") /\ Readable(file)
  /\ mem' = file
  /\ i' = 0
  /\ pc' = "next"
  /\ UNCHANGED <<files, hasBackup, history, faults>>

\* schedbench run: a file that cannot be read or parsed ends the command.
RunCommand ==
  /\ BeginCommand("run") /\ Readable(file)
  /\ mem' = file
  /\ i' = 1
  /\ pc' = "next"
  /\ UNCHANGED <<files, hasBackup, history, faults>>

-----------------------------------------------------------------------------
(* BenchmarkPlan.Run.                                                      *)

AtRun == pc = "next" /\ mem.kind = "plan" /\ i \in Runs

NextRun == i' = i + 1 /\ pc' = "next"

\* Prep does not find or make the pool: the run is skipped.
SkipRun ==
  /\ AtRun /\ mem.result[i] = 0
  /\ NextRun
  /\ UNCHANGED <<files, command, mem, hasBackup, history, commands, faults>>

\* Mutant of BeginRun: without `if ! r.Completed`.
BeginRun_Always ==
  /\ AtRun
  /\ pc' = "prologue"
  /\ attempts' = attempts + 1
  /\ UNCHANGED <<files, command, i, mem, hasBackup, acked, finished, ended, commands, faults>>

\* Prep is ready: Run begins.
BeginRun ==
  /\ AtRun /\ mem.result[i] = 0
  /\ pc' = "prologue"
  /\ attempts' = attempts + 1
  /\ UNCHANGED <<files, command, i, mem, hasBackup, acked, finished, ended, commands, faults>>

\* A run completed before is saved once more.
SaveAgain ==
  /\ AtRun /\ mem.result[i] # 0
  /\ pc' = "rename"
  /\ UNCHANGED <<files, command, i, mem, hasBackup, history, commands, faults>>

AllDone ==
  /\ pc = "next" /\ ~AtRun
  /\ Exit("ok")
  /\ UNCHANGED <<files, acked, finished, attempts, commands, faults>>

(***************************************************************************)
(* The loop over the worker sets at the head of BenchmarkRun.Run.          *)
(***************************************************************************)
NilNumaDisable ==
  /\ pc = "prologue" /\ i \notin NoSets /\ i \in NumaUnset
  /\ Exit("nil pointer")
  /\ UNCHANGED <<files, acked, finished, attempts, commands, faults>>

SoftAffinityConflict ==
  /\ pc = "prologue" /\ i \notin NoSets /\ i \in NumaDisabled /\ i \in mem.soft
  /\ Exit("soft affinity")
  /\ UNCHANGED <<files, acked, finished, attempts, commands, faults>>

StartWorkers ==
  /\ pc = "prologue"
  /\ \/ i \in NoSets
     \/ i \notin NumaUnset /\ ~(i \in NumaDisabled /\ i \in mem.soft)
  /\ mem' = IF i \in NumaDisabled \ NoSets
            THEN [mem EXCEPT !.soft = @ \cup {i}] ELSE mem
  /\ pc' = "running"
  /\ UNCHANGED <<files, command, i, hasBackup, history, commands, faults>>

\* The timeout: Completed, nil error.
RunCompletes ==
  /\ pc = "running" /\ HasWorkers(i)
  /\ mem' = [mem EXCEPT !.result[i] = attempts]
  /\ finished' = [finished EXCEPT ![i] = @ + 1]
  /\ pc' = "rename"
  /\ UNCHANGED <<files, command, i, hasBackup, acked, attempts, ended, commands, faults>>

\* Nothing to wait for: nil error, not Completed.
RunWithoutWorkers ==
  /\ pc = "running" /\ ~HasWorkers(i)
  /\ NextRun
  /\ UNCHANGED <<files, command, mem, hasBackup, history, commands, faults>>

\* A worker left early, or ^C: an error, and plan.Run returns it.
RunFails ==
  /\ pc = "running" /\ HasWorkers(i)
  /\ Exit("error")
  /\ UNCHANGED <<files, acked, finished, attempts, commands, faults>>

\* ^C with RuntimeSeconds 0 sets Completed too, and is still an error.
RunInterruptedComplete ==
  /\ pc = "running" /\ HasWorkers(i) /\ i \in UntilInterrupt
  /\ finished' = [finished EXCEPT ![i] = @ + 1]
  /\ Exit("error")
  /\ UNCHANGED <<files, acked, attempts, commands, faults>>

-----------------------------------------------------------------------------
(* BenchmarkPlan.Save.                                                     *)

\* A plan from a template goes over a file that cannot be read: that file takes
\* the place of the backup, and what results the backup had are given up.
GivesUpBackup == command = "template" /\ file.kind = "torn" /\ ~dirName

\* Mutant of RenameToBackup: the file is not moved aside.
RenameToBackup_Not ==
  /\ pc = "rename"
  /\ hasBackup' = FALSE
  /\ pc' = "open"
  /\ UNCHANGED <<files, command, i, mem, history, commands, faults>>

\* os.Rename(filename, backup).  A missing file is not an error, and neither
\* is the missing directory ".dir" when the name has a directory in it.
RenameToBackup ==
  /\ pc = "rename"
  /\ IF file.kind = "absent" \/ dirName
     THEN hasBackup' = FALSE /\ UNCHANGED files
     ELSE /\ hasBackup' = TRUE
          /\ backup' = file
          /\ file' = Blank("absent")
          /\ UNCHANGED dirName
  /\ acked' = IF GivesUpBackup THEN NoResults ELSE acked
  /\ pc' = "open"
  /\ UNCHANGED <<command, i, mem, finished, attempts, ended, commands, faults>>

RenameFails ==
  /\ pc = "rename" /\ Fault
  /\ Exit("error")
  /\ UNCHANGED <<files, acked, finished, attempts, commands>>

\* Mutant of OpenFile: the backup is removed before the new file is written.
OpenFile_NoBackup ==
  /\ pc = "open" /\ NoFault
  /\ file' = Blank("torn") /\ backup' = Blank("absent")
  /\ pc' = "write"
  /\ UNCHANGED <<dirName, command, i, mem, hasBackup, history, commands>>

\* ioutil.WriteFile truncates, then writes; either may fail.
OpenFile ==
  /\ pc = "open"
  /\ \/ /\ NoFault
        /\ file' = Blank("torn")
        /\ pc' = "write"
     \/ /\ Fault
        /\ pc' = "undo"
        /\ UNCHANGED file
  /\ UNCHANGED <<backup, dirName, command, i, mem, hasBackup, history, commands>>

WriteFile ==
  /\ pc = "write"
  /\ \/ /\ NoFault
        /\ file' = mem
        /\ acked' = IF command = "template" THEN NoResults ELSE acked
        /\ pc' = "remove"
     \/ /\ Fault
        /\ pc' = "undo"
        /\ UNCHANGED <<file, acked>>
  /\ UNCHANGED <<backup, dirName, command, i, mem, hasBackup, finished, attempts, ended, commands>>

\* The write failed: the backup is put back, if that works, and Save fails.
Undo ==
  /\ pc = "undo"
  /\ \/ hasBackup /\ NoFault /\ file' = backup /\ backup' = Blank("absent")
     \/ hasBackup /\ Fault /\ UNCHANGED files
     \/ ~hasBackup /\ NoFault /\ UNCHANGED files
  /\ Exit("error")
  /\ UNCHANGED <<dirName, acked, finished, attempts, commands>>

\* os.Remove(backup), its error ignored; Save returns nil to its caller.
RemoveBackup ==
  /\ pc = "remove"
  /\ \/ hasBackup /\ NoFault /\ backup' = Blank("absent")
     \/ hasBackup /\ Fault /\ UNCHANGED backup
     \/ ~hasBackup /\ NoFault /\ UNCHANGED backup
  /\ acked' = mem.result
  /\ IF command = "run"
     THEN NextRun /\ UNCHANGED ended
     ELSE pc' = "down" /\ ended' = "ok" /\ UNCHANGED i
  /\ UNCHANGED <<file, dirName, command, mem, hasBackup, finished, attempts, commands>>

-----------------------------------------------------------------------------
(* The world.                                                              *)

\* kill -9, a panic in a worker goroutine, ^C before the first Run, or the
\* end of a Run that never returns.
Kill ==
  /\ pc # "down" /\ Fault
  /\ Exit("killed")
  /\ UNCHANGED <<files, acked, finished, attempts, commands>>

\* The user finds the file unreadable and puts the backup back: mv.
RestoreByHand ==
  /\ pc = "down" /\ ~Readable(file) /\ Readable(backup)
  /\ file' = backup /\ backup' = Blank("absent")
  /\ UNCHANGED <<dirName, process, history, commands, faults>>

SaveStep ==
  RenameToBackup \/ RenameFails \/ OpenFile \/ WriteFile \/ Undo \/ RemoveBackup

RunStep ==
  \/ SkipRun \/ BeginRun \/ SaveAgain \/ AllDone
  \/ NilNumaDisable \/ SoftAffinityConflict \/ StartWorkers
  \/ RunCompletes \/ RunWithoutWorkers \/ RunFails \/ RunInterruptedComplete

Next ==
  \/ PlanCommand \/ PlanFromTemplate \/ RunCommand
  \/ RunStep \/ SaveStep
  \/ Kill \/ RestoreByHand

Spec == Init /\ [][Next]_vars

-----------------------------------------------------------------------------
(* Properties.                                                             *)

TypeOK ==
  /\ file \in Content /\ backup \in Content /\ mem \in Content
  /\ pc \in {"down", "next", "prologue", "running", "rename", "open", "write",
             "undo", "remove"}
  /\ command \in {"plan", "template", "run"} /\ dirName \in BOOLEAN /\ i \in 1 .. N + 1 /\ hasBackup \in BOOLEAN
  /\ acked \in [Runs -> Nat] /\ finished \in [Runs -> Nat] /\ attempts \in Nat
  /\ ended \in {"ok", "error", "killed", "nil pointer", "soft affinity"}
  /\ commands \in Nat /\ faults \in Nat

\* What the user can still get at: the file, or else the backup.
Durable == IF Readable(file) THEN file ELSE backup

\* What Save said it saved survives every later command, failed write, kill
\* and restore until a plan made from a template replaces it: the file, or else
\* the backup, still has those very results.  A template given by mistake does
\* not lose them before the new plan is written, unless the file was unreadable
\* already.  A file name with a directory in it has no backup (benchmark.go:425):
\* there the results are lost to a Save that is cut short, and to nothing else.
SavedIsDurable ==
  \A r \in Runs : acked[r] # 0 =>
    \/ Durable.result[r] = acked[r]
    \/ dirName /\ file.kind = "torn"

\* A run whose results are on file is never executed: neither a stale file
\* nor a stale backup can make plan.Run repeat it (README.md:77).
OnlyMissingRunsExecute ==
  pc \in {"prologue", "running"} => Durable.result[i] = 0

\* The file, or else the backup, implements the abstract file of DurablePlan,
\* which lets go of a plan only while a template is made into a new one.  When
\* the name leaves Save without a backup, nothing is claimed.
Promised == IF dirName THEN Blank("absent") ELSE Durable
Abstract == INSTANCE DurablePlan
  WITH planned <- Promised.kind = "plan", result <- Promised.result,
       replacing <- pc # "down" /\ command = "template"
ImplementsDurablePlan == Abstract!Spec

\* A Run that sets Completed is over: as long as no new plan is asked for, the
\* run is not executed to completion a second time.  README.md:77 has the run
\* command run "the runs in benchmark file which haven't been completed yet".
CompletedOnce == \A r \in Runs : finished[r] <= 1
=============================================================================
