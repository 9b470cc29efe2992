--------------------------- MODULE PlanFile_proofs ---------------------------
(***************************************************************************)
(* Proofs about PlanFile, for every plan and any number of commands, of    *)
(* templates, kills and failing calls.                                     *)
(***************************************************************************)
EXTENDS PlanFile, TLAPS

Saving == {"rename", "open", "write", "undo", "remove"}

\* plan.Run is at one of its runs whenever it executes or saves one.
AtSomeRun ==
  pc \in {"prologue", "running"} \/ (command = "run" /\ pc \in Saving) => i \in Runs

TypeInv == TypeOK /\ AtSomeRun

LEMMA BlankType ==
  ASSUME NEW k \in {"absent", "torn", "input", "plan"}
  PROVE  Blank(k) \in Content
BY DEF Blank, Content, NoResults

LEMMA InitTypeInv == Init => TypeInv
<1> SUFFICES ASSUME Init PROVE TypeInv
  OBVIOUS
<1>1. file \in Content /\ backup \in Content /\ mem \in Content
  BY BlankType DEF Init
<1>2. i \in 1 .. N + 1
  BY PlanAssumption DEF Init
<1>3. acked \in [Runs -> Nat] /\ finished \in [Runs -> Nat] /\ dirName \in BOOLEAN
  BY PlanAssumption DEF Init, NoResults
<1> QED
  BY <1>1, <1>2, <1>3 DEF Init, TypeInv, TypeOK, AtSomeRun, Saving

\* A run's results, and its worker sets, in the memory of the process.
LEMMA MemTypes ==
  ASSUME mem \in Content, NEW r \in Runs, NEW a \in Nat
  PROVE  /\ [mem EXCEPT !.result[r] = a] \in Content
         /\ [mem EXCEPT !.soft = @ \cup {r}] \in Content
BY DEF Content

LEMMA NextTypeInv == TypeInv /\ [Next]_vars => TypeInv'
<1> SUFFICES ASSUME TypeInv, [Next]_vars PROVE TypeInv'
  OBVIOUS
<1>0. /\ Blank("absent") \in Content /\ Blank("torn") \in Content
      /\ Blank("input") \in Content /\ Blank("plan") \in Content
      /\ 1 \in 1 .. N + 1
      /\ i \in Runs => i + 1 \in 1 .. N + 1
      /\ commands + 1 \in Nat /\ faults + 1 \in Nat /\ attempts + 1 \in Nat
      /\ \A r \in Runs : finished[r] + 1 \in Nat
      /\ NoResults \in [Runs -> Nat]
  <2>1. commands \in Nat /\ faults \in Nat /\ attempts \in Nat
        /\ finished \in [Runs -> Nat]
    BY DEF TypeInv, TypeOK
  <2> QED
    BY <2>1, PlanAssumption, BlankType DEF Runs, NoResults
<1> USE <1>0 DEF TypeInv, TypeOK, AtSomeRun, Saving, files, process, history,
               Exit, Fault, NoFault, AtRun, NextRun
<1>1. CASE PlanCommand
  BY <1>1 DEF PlanCommand, BeginCommand
<1>2. CASE PlanFromTemplate
  BY <1>2 DEF PlanFromTemplate, BeginCommand
<1>3. CASE RunCommand
  BY <1>3 DEF RunCommand, BeginCommand
<1>4. CASE SkipRun \/ BeginRun \/ SaveAgain \/ AllDone
  BY <1>4 DEF SkipRun, BeginRun, SaveAgain, AllDone
<1>5. CASE NilNumaDisable \/ SoftAffinityConflict \/ RunWithoutWorkers \/ RunFails
  BY <1>5 DEF NilNumaDisable, SoftAffinityConflict, RunWithoutWorkers, RunFails
<1>6. CASE StartWorkers
  <2>1. mem' \in Content
    BY <1>6, MemTypes DEF StartWorkers
  <2> QED
    BY <1>6, <2>1 DEF StartWorkers
<1>7. CASE RunCompletes
  <2>1. mem' \in Content
    BY <1>7, MemTypes DEF RunCompletes
  <2> QED
    BY <1>7, <2>1 DEF RunCompletes
<1>8. CASE RunInterruptedComplete
  BY <1>8 DEF RunInterruptedComplete
<1>9. CASE RenameToBackup \/ RenameFails
  BY <1>9 DEF RenameToBackup, RenameFails
<1>10. CASE OpenFile \/ WriteFile
  BY <1>10 DEF OpenFile, WriteFile
<1>11. CASE Undo
  BY <1>11 DEF Undo
<1>12. CASE RemoveBackup
  <2>1. acked' \in [Runs -> Nat]
    BY <1>12 DEF RemoveBackup, Content
  <2>2. backup' \in Content /\ faults' \in Nat
    BY <1>12 DEF RemoveBackup
  <2>3. \/ command = "run" /\ i' = i + 1 /\ pc' = "next" /\ ended' = ended
        \/ i' = i /\ pc' = "down" /\ ended' = "ok"
    BY <1>12 DEF RemoveBackup
  <2>4. UNCHANGED <<file, dirName, command, mem, hasBackup, finished, attempts, commands>>
    BY <1>12 DEF RemoveBackup
  <2>5. pc = "remove"
    BY <1>12 DEF RemoveBackup
  <2> QED
    BY <2>1, <2>2, <2>3, <2>4, <2>5
<1>13. CASE Kill \/ RestoreByHand
  BY <1>13 DEF Kill, RestoreByHand
<1>14. CASE UNCHANGED vars
  BY <1>14 DEF vars
<1> QED
  BY <1>1, <1>2, <1>3, <1>4, <1>5, <1>6, <1>7, <1>8, <1>9, <1>10, <1>11, <1>12,
     <1>13, <1>14 DEF Next, RunStep, SaveStep

LEMMA TypeInvariant == Spec => []TypeInv
BY InitTypeInv, NextTypeInv, PTL DEF Spec

\* Every variable keeps its type; plan.Run never indexes past its last run.
THEOREM TypeCorrect == Spec => []TypeOK
<1>1. TypeInv => TypeOK
  BY DEF TypeInv
<1> QED
  BY <1>1, TypeInvariant, PTL

-----------------------------------------------------------------------------
(***************************************************************************)
(* The files against the memory of the process.  Between two Saves the     *)
(* memory is the file, but for the soft affinities; during a Save it is    *)
(* one step of the abstract file ahead of what is durable, or a plan made  *)
(* from a template.                                                        *)
(***************************************************************************)

\* m may be saved over d: the plan itself, the same results, or one more.
Successor(m, d) ==
  \/ m.result = d.result
  \/ /\ d.kind = "plan"
     /\ \E r \in Runs : /\ d.result[r] = 0 /\ m.result[r] # 0
                       /\ m.result = [d.result EXCEPT ![r] = m.result[r]]

BackupInv ==
  /\ file.kind # "plan" => file.result = NoResults
  /\ backup.kind # "plan" => backup.result = NoResults
  /\ dirName => backup = Blank("absent") /\ ~hasBackup

MemoryInv ==
  /\ pc \in {"next", "prologue", "running"} =>
       command = "run" /\ Readable(file) /\ mem.kind = file.kind /\ mem.result = file.result
  /\ pc \in {"prologue", "running"} =>
       attempts > 0 /\ mem.kind = "plan" /\ mem.result[i] = 0

SaveInv ==
  /\ pc \in Saving => mem.kind = "plan" /\ (command = "template" => mem.result = NoResults)
  /\ pc = "rename" /\ command # "template" => Readable(file) /\ Successor(mem, file)
  /\ pc \in {"open", "write", "undo"} /\ ~dirName =>
       ~Readable(file) /\ (command # "template" => Successor(mem, backup))
  /\ pc = "remove" => file = mem

FileInv == BackupInv /\ MemoryInv /\ SaveInv

LEMMA InitFile == Init => FileInv
BY DEF Init, FileInv, BackupInv, MemoryInv, SaveInv, Saving, Blank, NoResults, Readable

LEMMA NextFile ==
  ASSUME TypeInv, FileInv, [Next]_vars
  PROVE  FileInv'
<1>0. file \in Content /\ backup \in Content /\ mem \in Content /\ attempts \in Nat
      /\ attempts + 1 > 0
  <2>1. attempts \in Nat
    BY DEF TypeInv, TypeOK
  <2>2. attempts + 1 > 0
    BY ONLY <2>1
  <2> QED
    BY <2>1, <2>2 DEF TypeInv, TypeOK
<1> USE <1>0 DEF FileInv, BackupInv, MemoryInv, SaveInv, Saving, Blank, Readable,
               files, process, history, Exit, AtRun, NextRun, NoFault, Fault
<1>1. CASE PlanCommand \/ PlanFromTemplate
  <2>1. /\ pc' = "rename" /\ UNCHANGED <<file, backup, dirName, hasBackup>>
        /\ mem'.kind = "plan" /\ mem'.result = NoResults
        /\ command' = "template" \/ file.kind = "input"
    BY <1>1 DEF PlanCommand, PlanFromTemplate, BeginCommand
  <2> QED
    BY <2>1 DEF Successor
<1>2. CASE RunCommand
  BY <1>2 DEF RunCommand, BeginCommand
<1>3. CASE SkipRun \/ BeginRun \/ SaveAgain \/ AllDone
  BY <1>3 DEF SkipRun, BeginRun, SaveAgain, AllDone, Successor
<1>4. CASE \/ NilNumaDisable \/ SoftAffinityConflict \/ RunFails \/ RunInterruptedComplete
           \/ RenameFails \/ Kill
  <2>1. pc' = "down" /\ UNCHANGED <<file, backup, dirName, hasBackup>>
    <3>1. CASE NilNumaDisable \/ SoftAffinityConflict
      BY <3>1 DEF NilNumaDisable, SoftAffinityConflict
    <3>2. CASE RunFails \/ RunInterruptedComplete
      BY <3>2 DEF RunFails, RunInterruptedComplete
    <3>3. CASE RenameFails \/ Kill
      BY <3>3 DEF RenameFails, Kill
    <3> QED BY <1>4, <3>1, <3>2, <3>3
  <2> QED
    BY <2>1
<1>4a. CASE RunWithoutWorkers
  BY <1>4a DEF RunWithoutWorkers
<1>5. CASE StartWorkers
  BY <1>5 DEF StartWorkers, Content
<1>6. CASE RunCompletes
  <2>1. /\ pc = "running" /\ pc' = "rename"
        /\ UNCHANGED <<file, backup, dirName, hasBackup, command>>
        /\ mem' = [mem EXCEPT !.result[i] = attempts]
    BY <1>6 DEF RunCompletes
  <2>2. i \in Runs /\ attempts # 0 /\ command = "run"
    BY <2>1 DEF TypeInv, AtSomeRun
  <2>3. /\ mem'.kind = mem.kind
        /\ mem'.result = [mem.result EXCEPT ![i] = attempts]
        /\ mem'.result[i] = attempts
    BY <2>1, <2>2 DEF Content
  <2>4. Successor(mem, file)'
    BY <2>1, <2>2, <2>3 DEF Successor
  <2> QED
    BY <2>1, <2>2, <2>3, <2>4
<1>7. CASE RenameToBackup
  <2>1. pc = "rename" /\ pc' = "open" /\ UNCHANGED <<mem, command, dirName>>
    BY <1>7 DEF RenameToBackup
  <2>2. CASE file.kind = "absent" \/ dirName
    <3>1. hasBackup' = FALSE /\ UNCHANGED <<file, backup>>
      BY <1>7, <2>2 DEF RenameToBackup
    <3> QED
      BY <2>1, <2>2, <3>1 DEF Successor
  <2>3. CASE ~(file.kind = "absent" \/ dirName)
    <3>1. backup' = file /\ file' = Blank("absent")
      BY <1>7, <2>3 DEF RenameToBackup
    <3>2. ~Readable(file)' /\ file'.result = NoResults
      BY <3>1
    <3>3. command # "template" => Successor(mem, backup)'
      BY <2>1, <3>1 DEF Successor
    <3> QED
      BY <2>1, <2>3, <3>1, <3>2, <3>3
  <2> QED
    BY <2>2, <2>3
<1>9. CASE OpenFile
  BY <1>9 DEF OpenFile, Successor
<1>10. CASE WriteFile
  BY <1>10 DEF WriteFile, Successor
<1>11. CASE Undo
  BY <1>11 DEF Undo
<1>12. CASE RemoveBackup
  BY <1>12 DEF RemoveBackup
<1>13. CASE RestoreByHand
  BY <1>13 DEF RestoreByHand
<1>14. CASE UNCHANGED vars
  BY <1>14 DEF vars, Successor
<1> QED
  BY <1>1, <1>2, <1>3, <1>4, <1>4a, <1>5, <1>6, <1>7, <1>9, <1>10, <1>11, <1>12,
     <1>13, <1>14 DEF Next, RunStep, SaveStep

LEMMA FileInvariant == Spec => []FileInv
BY TypeInvariant, InitFile, NextFile, PTL DEF Spec

\* plan.Run executes only runs that have no result on file.
THEOREM NothingRepeated == Spec => []OnlyMissingRunsExecute
<1>1. FileInv => OnlyMissingRunsExecute
  BY DEF FileInv, MemoryInv, OnlyMissingRunsExecute, Durable
<1> QED
  BY <1>1, FileInvariant, PTL

-----------------------------------------------------------------------------
(* What Save has reported as saved is in the memory of every later command *)
(* on that plan, whichever file it was read from.                          *)

MemoryHasAcked ==
  pc # "down" /\ command # "template" =>
    \A r \in Runs : acked[r] # 0 => mem.result[r] = acked[r]

SavedInv == MemoryHasAcked /\ SavedIsDurable

LEMMA InitSaved == Init => SavedInv
BY DEF Init, SavedInv, MemoryHasAcked, SavedIsDurable, NoResults

LEMMA NextMemoryHasAcked ==
  ASSUME TypeInv, FileInv, SavedInv, [Next]_vars
  PROVE  MemoryHasAcked'
<1>0. mem \in Content
  BY DEF TypeInv, TypeOK
<1> USE <1>0 DEF SavedInv, MemoryHasAcked, process, history, Exit, NextRun
<1>1. CASE PlanCommand
  <2>1. file.kind = "input" /\ file.result = NoResults /\ acked' = acked
    BY <1>1 DEF PlanCommand, FileInv, BackupInv
  <2>2. \A r \in Runs : acked[r] = 0
    BY <2>1 DEF SavedIsDurable, Durable, Readable, NoResults
  <2> QED
    BY <2>1, <2>2
<1>2. CASE RunCommand
  <2>1. mem' = file /\ acked' = acked /\ Readable(file)
    BY <1>2 DEF RunCommand
  <2> QED
    BY <2>1 DEF SavedIsDurable, Durable, Readable
<1>3. CASE PlanFromTemplate
  BY <1>3 DEF PlanFromTemplate, BeginCommand
<1>4. CASE SkipRun \/ BeginRun \/ SaveAgain \/ RunWithoutWorkers
  BY <1>4 DEF SkipRun, BeginRun, SaveAgain, RunWithoutWorkers, AtRun
<1>5. CASE \/ AllDone \/ NilNumaDisable \/ SoftAffinityConflict \/ RunFails
           \/ RunInterruptedComplete \/ RenameFails \/ Undo \/ Kill \/ RestoreByHand
  BY <1>5 DEF AllDone, NilNumaDisable, SoftAffinityConflict, RunFails,
     RunInterruptedComplete, RenameFails, Undo, Kill, RestoreByHand
<1>6. CASE StartWorkers
  BY <1>6 DEF StartWorkers, Content
<1>7. CASE RunCompletes
  <2>1. pc = "running" /\ UNCHANGED <<acked, command>> /\ i \in Runs
        /\ mem' = [mem EXCEPT !.result[i] = attempts]
    BY <1>7 DEF RunCompletes, TypeInv, AtSomeRun
  <2>2. acked[i] = 0
    BY <2>1 DEF FileInv, MemoryInv
  <2>3. \A r \in Runs : r # i => mem'.result[r] = mem.result[r]
    BY <2>1 DEF Content
  <2> QED
    BY <2>1, <2>2, <2>3
<1>8. CASE RenameToBackup \/ OpenFile \/ WriteFile
  <2>1. UNCHANGED <<mem, command>> /\ pc # "down"
    BY <1>8 DEF RenameToBackup, OpenFile, WriteFile
  <2>2. acked' = acked \/ command = "template"
    BY <1>8 DEF RenameToBackup, OpenFile, WriteFile, GivesUpBackup
  <2> QED
    BY <2>1, <2>2
<1>9. CASE RemoveBackup
  BY <1>9 DEF RemoveBackup
<1>10. CASE UNCHANGED vars
  BY <1>10 DEF vars
<1> QED
  BY <1>1, <1>2, <1>3, <1>4, <1>5, <1>6, <1>7, <1>8, <1>9, <1>10
     DEF Next, RunStep, SaveStep

LEMMA NextSaved ==
  ASSUME TypeInv, FileInv, SavedInv, [Next]_vars
  PROVE  SavedIsDurable'
<1>0. file \in Content /\ backup \in Content
  BY DEF TypeInv, TypeOK
<1> USE <1>0 DEF SavedInv, SavedIsDurable, Durable, Readable, Blank, files
<1>1. CASE UNCHANGED <<files, acked>>
  BY <1>1
<1>2. CASE RenameToBackup
  <2>1. CASE file.kind = "absent" \/ dirName
    <3>1. UNCHANGED <<files, acked>>
      BY <1>2, <2>1 DEF RenameToBackup, GivesUpBackup
    <3> QED
      BY <1>1, <3>1
  <2>2. CASE ~(file.kind = "absent" \/ dirName) /\ Readable(file)
    <3>1. backup' = file /\ file' = Blank("absent") /\ acked' = acked
      BY <1>2, <2>2 DEF RenameToBackup, GivesUpBackup
    <3> QED
      BY <2>2, <3>1
  <2>3. CASE file.kind = "torn" /\ ~dirName
    <3>1. command = "template"
      BY <1>2, <2>3 DEF RenameToBackup, FileInv, SaveInv
    <3>2. acked' = NoResults
      BY <1>2, <2>3, <3>1 DEF RenameToBackup, GivesUpBackup
    <3> QED
      BY <3>2 DEF NoResults
  <2> QED
    BY <2>1, <2>2, <2>3 DEF Content
<1>3. CASE OpenFile
  <2>1. pc = "open" /\ UNCHANGED <<backup, dirName, acked>>
        /\ (file' = Blank("torn") \/ file' = file)
    BY <1>3 DEF OpenFile, history
  <2>2. ~dirName => ~Readable(file)
    BY <2>1 DEF FileInv, SaveInv
  <2> QED
    BY <2>1, <2>2
<1>4. CASE WriteFile
  <2>1. CASE UNCHANGED <<files, acked>>
    BY <1>1, <2>1
  <2>2. CASE file' = mem /\ command = "template" /\ acked' = NoResults
    BY <2>2 DEF NoResults
  <2>3. CASE file' = mem /\ command # "template" /\ acked' = acked
    <3>1. mem.kind = "plan" /\ pc # "down"
      BY <1>4 DEF WriteFile, FileInv, SaveInv, Saving
    <3> QED
      BY <2>3, <3>1 DEF MemoryHasAcked
  <2> QED
    BY <1>4, <2>1, <2>2, <2>3 DEF WriteFile
<1>5. CASE Undo
  <2>1. CASE UNCHANGED files
    BY <1>1, <1>5, <2>1 DEF Undo
  <2>2. CASE hasBackup /\ file' = backup /\ backup' = Blank("absent")
    <3>1. ~dirName /\ ~Readable(file) /\ acked' = acked
      BY <1>5, <2>2 DEF Undo, FileInv, BackupInv, SaveInv
    <3>2. ~Readable(backup) => \A r \in Runs : backup.result[r] = 0
      BY DEF FileInv, BackupInv, NoResults
    <3> QED
      BY <2>2, <3>1, <3>2
  <2> QED
    BY <1>5, <2>1, <2>2 DEF Undo
<1>6. CASE RemoveBackup
  <2>1. acked' = mem.result /\ file' = mem /\ mem.kind = "plan"
    BY <1>6 DEF RemoveBackup, FileInv, SaveInv, Saving
  <2> QED
    BY <2>1
<1>7. CASE RestoreByHand
  <2>1. ~Readable(file) /\ Readable(backup) /\ file' = backup /\ acked' = acked
    BY <1>7 DEF RestoreByHand, history
  <2>2. ~dirName
    BY <2>1 DEF FileInv, BackupInv
  <2> QED
    BY <2>1, <2>2
<1>8. CASE PlanCommand \/ PlanFromTemplate \/ RunCommand \/ RunStep \/ RenameFails
           \/ Kill \/ UNCHANGED vars
  BY <1>1, <1>8 DEF PlanCommand, PlanFromTemplate, RunCommand, RunStep, RenameFails,
     Kill, SkipRun, BeginRun, SaveAgain, AllDone, NilNumaDisable, SoftAffinityConflict,
     StartWorkers, RunCompletes, RunWithoutWorkers, RunFails, RunInterruptedComplete,
     history, vars
<1> QED
  BY <1>2, <1>3, <1>4, <1>5, <1>6, <1>7, <1>8 DEF Next, SaveStep

\* What Save reported as saved stays readable, in the file or the backup,
\* across kills, failed writes and later commands, until a plan made from a
\* template takes its place.
THEOREM SavedStaysDurable == Spec => []SavedIsDurable
<1>1. TypeInv /\ FileInv /\ SavedInv /\ [Next]_vars => SavedInv'
  BY NextMemoryHasAcked, NextSaved DEF SavedInv
<1>2. SavedInv => SavedIsDurable
  BY DEF SavedInv
<1> QED
  BY <1>1, <1>2, InitSaved, TypeInvariant, FileInvariant, PTL DEF Spec

-----------------------------------------------------------------------------
(* Every step is a step of the abstract file, or leaves it alone.          *)

Replacing == pc # "down" /\ command = "template"
SamePlan  == Promised'.result = Promised.result
             /\ (Promised'.kind = "plan" <=> Promised.kind = "plan")

\* Only a completed write, or a file that cannot be read, in the place of the
\* backup, changes what is promised.
LEMMA OtherStepsKeep ==
  ASSUME TypeInv, FileInv, [Next]_vars, ~WriteFile, ~RenameToBackup
  PROVE  SamePlan
<1> USE DEF SamePlan, Promised, Durable, FileInv, BackupInv, SaveInv, Blank, Readable,
            files, process, Exit
<1>1. CASE UNCHANGED files
  BY <1>1
<1>2. CASE OpenFile
  BY <1>2 DEF OpenFile
<1>3. CASE Undo
  BY <1>3 DEF Undo
<1>4. CASE RemoveBackup
  BY <1>4 DEF RemoveBackup, Saving
<1>5. CASE RestoreByHand
  BY <1>5 DEF RestoreByHand
<1>6. CASE PlanCommand \/ PlanFromTemplate \/ RunCommand \/ RunStep \/ RenameFails
           \/ Kill \/ UNCHANGED vars
  BY <1>1, <1>6 DEF PlanCommand, PlanFromTemplate, RunCommand, RunStep, RenameFails,
     Kill, SkipRun, BeginRun, SaveAgain, AllDone, NilNumaDisable, SoftAffinityConflict,
     StartWorkers, RunCompletes, RunWithoutWorkers, RunFails, RunInterruptedComplete, vars
<1> QED
  BY <1>2, <1>3, <1>4, <1>5, <1>6 DEF Next, SaveStep

\* The file moved to the place of the backup stays what is promised, if it can
\* be read; if it cannot, a template is being made into a new plan.
LEMMA RenameKeeps ==
  ASSUME TypeInv, FileInv, RenameToBackup
  PROVE  \/ SamePlan
         \/ Replacing /\ Promised'.kind # "plan" /\ Promised'.result = NoResults
<1>0. file \in Content
  BY DEF TypeInv, TypeOK
<1>1. CASE file.kind = "absent" \/ dirName
  <2>1. UNCHANGED files
    BY <1>1 DEF RenameToBackup
  <2> QED
    BY <2>1 DEF SamePlan, Promised, Durable, Readable, files
<1>2. CASE ~(file.kind = "absent" \/ dirName)
  <2>1. backup' = file /\ file' = Blank("absent") /\ UNCHANGED dirName
    BY <1>2 DEF RenameToBackup
  <2>2. Promised' = file
    BY <1>2, <2>1 DEF Promised, Durable, Readable, Blank
  <2>3. CASE Readable(file)
    BY <1>2, <2>2, <2>3 DEF SamePlan, Promised, Durable
  <2>4. CASE ~Readable(file)
    <3>1. Replacing
      BY <2>4 DEF RenameToBackup, FileInv, SaveInv, Replacing
    <3> QED
      BY <2>2, <2>4, <3>1 DEF FileInv, BackupInv, Readable
  <2> QED
    BY <2>3, <2>4
<1> QED
  BY <1>1, <1>2

\* A completed write installs a successor of what was promised, or the plan that
\* is made from a template.
LEMMA WriteInstalls ==
  ASSUME TypeInv, FileInv, WriteFile
  PROVE  \/ SamePlan
         \/ Promised'.kind = "plan" /\ ~Replacing /\ Successor(Promised', Promised)
         \/ Promised'.kind = "plan" /\ Replacing /\ Promised'.result = NoResults
<1>1. CASE UNCHANGED files
  BY <1>1 DEF SamePlan, Promised, Durable, Readable, files
<1>2. CASE file' = mem /\ dirName
  BY <1>2 DEF WriteFile, SamePlan, Promised
<1>3. CASE file' = mem /\ ~dirName
  <2>1. mem.kind = "plan" /\ ~Readable(file) /\ UNCHANGED dirName
        /\ (command = "template" => mem.result = NoResults)
        /\ (command # "template" => Successor(mem, backup))
    BY <1>3 DEF FileInv, SaveInv, Saving, WriteFile
  <2>2. Promised' = mem /\ Promised = backup
    BY <1>3, <2>1 DEF Promised, Durable, Readable
  <2>3. Successor(mem, backup) => Successor(Promised', Promised)
    BY <2>2 DEF Successor
  <2> QED
    BY <2>1, <2>2, <2>3 DEF Replacing, WriteFile
<1> QED
  BY <1>1, <1>2, <1>3 DEF WriteFile, files

\* The file and its backup implement the abstract benchmark file.
THEOREM FileImplementsDurablePlan == Spec => ImplementsDurablePlan
<1>1. Init => Abstract!Init
  BY DEF Init, Abstract!Init, Abstract!None, Promised, Durable, Blank, Readable, NoResults
<1>2. ASSUME TypeInv, FileInv, [Next]_vars
      PROVE  [Abstract!Next]_(Abstract!vars)
  <2> USE DEF Abstract!Next, Abstract!vars, Abstract!None, NoResults
  <2>1. CASE SamePlan
    <3>1. CASE Replacing' = Replacing
      BY <2>1, <3>1 DEF SamePlan, Replacing
    <3>2. CASE Replacing' # Replacing
      <4>1. Abstract!BeginReplacing \/ Abstract!EndReplacing
        BY <2>1, <3>2 DEF SamePlan, Replacing, Abstract!BeginReplacing, Abstract!EndReplacing
      <4> QED
        BY <4>1
    <3> QED
      BY <3>1, <3>2
  <2>2. CASE RenameToBackup /\ ~SamePlan
    <3>1. Replacing' = Replacing
      BY <2>2 DEF RenameToBackup, Replacing
    <3>2. Abstract!Lose
      BY <1>2, <2>2, <3>1, RenameKeeps DEF Abstract!Lose, Replacing
    <3> QED
      BY <3>2
  <2>3. CASE WriteFile /\ ~SamePlan
    <3>1. Replacing' = Replacing
      BY <2>3 DEF WriteFile, Replacing
    <3>2. CASE Promised'.kind = "plan" /\ Replacing /\ Promised'.result = NoResults
      <4>1. Abstract!Replace
        BY <3>1, <3>2 DEF Abstract!Replace, Replacing
      <4> QED
        BY <4>1
    <3>3. CASE Promised'.kind = "plan" /\ ~Replacing /\ Successor(Promised', Promised)
      <4>1. CASE Promised.kind = "plan"
        BY <2>3, <3>1, <3>3, <4>1 DEF Successor, SamePlan, Replacing, Abstract!Record
      <4>2. CASE Promised.kind # "plan"
        BY <3>1, <3>3, <4>2 DEF Successor, Replacing, Abstract!Plan
      <4> QED
        BY <4>1, <4>2
    <3> QED
      BY <1>2, <2>3, <3>2, <3>3, WriteInstalls
  <2> QED
    BY <1>2, <2>1, <2>2, <2>3, OtherStepsKeep
<1> QED
  BY <1>1, <1>2, TypeInvariant, FileInvariant, PTL
     DEF Spec, ImplementsDurablePlan, Abstract!Spec
=============================================================================
