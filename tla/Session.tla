------------------------------ MODULE Session ------------------------------
(***************************************************************************)
(* The runs of a plan one after another, over several run commands:        *)
(* BenchmarkPlan.Run with NewWorkerList and the steps of XenWorker.Init,   *)
(* the guests on the host, which have the same names in every run and may  *)
(* outlive it, and ^C, which does something else in each phase.            *)
(*                                                                         *)
(* A run itself is RunLoop without its reports: WorkerList.Stop is one     *)
(* step here, and RuntimeSeconds is not 0.  The saving of a run is one     *)
(* step too (PlanFile has it in full), and Prep is ready or is not         *)
(* (Cpupools).  The goroutines that a hard exit leaves behind are gone.    *)
(***************************************************************************)
EXTENDS Naturals

CONSTANTS
  N, Size,     \* the number of runs, and how many workers each has
  Names,       \* bound: the most workers a run has; names are numbers
  MaxCommands, \* bound: run commands given
  MaxFaults,   \* bound: failing commands of the tool stack, failed saves, kills
  MaxSigints   \* bound: times the user presses ^C

Runs == 1 .. N
Name == 1 .. Names

ASSUME SessionAssumption ==
  /\ N \in Nat /\ Names \in Nat \ {0} /\ Size \in [Runs -> Name]
  /\ MaxCommands \in Nat /\ MaxFaults \in Nat /\ MaxSigints \in Nat

VARIABLES
  \* the process
  pc,        \* "down"; plan.Run at the "next" run; Init at "create", "domid",
             \* "xenstore" or "console"; Run "running" or, stopped, "waiting"; "save"
  i, k,      \* the run, and the worker that NewWorkerList is at
  notified,  \* signal.Notify has been called in this process
  pending,   \* a signal is in the channel of this run
  err, completed, \* what Run returns, and r.Completed
  hard,      \* Run was left by the second ^C
  setup,     \* how Init ended, as in RunLoop; "none" before
  domid,     \* w.domid, a guest being called by the attempt that made it; 0 for -1
  gor,       \* the goroutine of a worker: "idle", "unpause", "scan", "silent", "done"
  \* the host, and the plan file
  guest,     \* the guest of each name
  result,    \* for each run: not saved, or what was saved
  \* history and bounds
  attempt,   \* runs begun so far
  ran,       \* workers whose own guest ran in this attempt, with its arguments
  excused,   \* attempts of which an xl destroy failed, or the process died
  commands, faults, sigints

inRun   == <<pending, err, completed, hard, setup, domid, gor>>
host    == <<guest, result>>
history == <<attempt, ran, excused>>
bounds  == <<commands, faults, sigints>>
vars    == <<pc, i, k, notified, inRun, host, history, bounds>>

\* A guest: who made it, whether it is unpaused, whose arguments it has.
Guest    == [run : Nat, up : BOOLEAN, args : Nat]
NoGuest  == [run |-> 0, up |-> FALSE, args |-> 0]
NotSaved == [saved |-> FALSE, made |-> {}, ran |-> {}, hard |-> FALSE]
Workers  == 1 .. Size[i]

FailureAt == [create |-> "nodomain", domid |-> "nodomid", xenstore |-> "noconsole",
              console |-> "deadconsole"]
InSetup   == pc \in DOMAIN FailureAt

Init ==
  /\ pc = "down" /\ i = 1 /\ k = 1 /\ notified = FALSE
  /\ pending = FALSE /\ err = "nil" /\ completed = FALSE /\ hard = FALSE
  /\ setup = [w \in Name |-> "none"] /\ domid = [w \in Name |-> 0]
  /\ gor = [w \in Name |-> "idle"]
  /\ guest = [w \in Name |-> NoGuest] /\ result = [r \in Runs |-> NotSaved]
  /\ attempt = 0 /\ ran = {} /\ excused = {}
  /\ commands = 0 /\ faults = 0 /\ sigints = 0

Fault   == faults < MaxFaults /\ faults' = faults + 1 /\ UNCHANGED <<commands, sigints>>
NoFault == UNCHANGED bounds
Press   == sigints < MaxSigints /\ sigints' = sigints + 1 /\ UNCHANGED <<commands, faults>>

Exit == pc' = "down" /\ UNCHANGED <<i, k, notified>>

-----------------------------------------------------------------------------
(* main and BenchmarkPlan.Run.                                             *)

Command ==
  /\ pc = "down" /\ commands < MaxCommands
  /\ commands' = commands + 1
  /\ pc' = "next" /\ i' = 1 /\ notified' = FALSE
  /\ UNCHANGED <<k, inRun, host, history, faults, sigints>>

NextRun == i' = i + 1 /\ pc' = "next" /\ UNCHANGED <<k, notified>>

\* Prep is not ready; or completed before, and saved again.
PassOver ==
  /\ pc = "next" /\ i \in Runs
  /\ \/ NextRun /\ NoFault
     \/ result[i].saved /\ Exit /\ Fault
  /\ UNCHANGED <<inRun, host, history>>

BeginRun ==
  /\ pc = "next" /\ i \in Runs /\ ~result[i].saved
  /\ pc' = "create" /\ k' = 1
  /\ err' = "nil" /\ completed' = FALSE /\ hard' = FALSE /\ pending' = FALSE
  /\ setup' = [w \in Name |-> "none"] /\ domid' = [w \in Name |-> 0]
  /\ gor' = [w \in Name |-> "idle"]
  /\ attempt' = attempt + 1 /\ ran' = {}
  /\ NoFault
  /\ UNCHANGED <<i, notified, host, excused>>

AllDone ==
  /\ pc = "next" /\ i \notin Runs
  /\ Exit /\ NoFault
  /\ UNCHANGED <<inRun, host, history>>

-----------------------------------------------------------------------------
(* NewWorkerList: Init for one worker after the other, its error dropped;  *)
(* after the last one, signal.Notify and Workers.Start.                    *)

\* Mutant of Settled: one worker too many.
Settled_OneMore(states) ==
  /\ setup' = states
  /\ IF k <= Size[i]
     THEN /\ pc' = "create" /\ k' = k + 1
          /\ UNCHANGED <<notified, gor>>
     ELSE /\ pc' = "running" /\ notified' = TRUE
          /\ gor' = [w \in Name |-> IF w \in Workers THEN "unpause" ELSE "idle"]
          /\ UNCHANGED k
  /\ UNCHANGED <<i, pending, err, completed, hard, domid>>

Settled(states) ==
  /\ setup' = states
  /\ IF k < Size[i]
     THEN /\ pc' = "create" /\ k' = k + 1
          /\ UNCHANGED <<notified, gor>>
     ELSE /\ pc' = "running" /\ notified' = TRUE
          /\ gor' = [w \in Name |-> IF w \in Workers THEN "unpause" ELSE "idle"]
          /\ UNCHANGED k
  /\ UNCHANGED <<i, pending, err, completed, hard, domid>>

SetGuest(g) == guest' = [guest EXCEPT ![k] = g] /\ UNCHANGED result
Made        == [run |-> attempt, up |-> FALSE, args |-> 0]

\* xl create -p.
Create ==
  /\ pc = "create" /\ guest[k] = NoGuest
  /\ SetGuest(Made)
  /\ pc' = "domid"
  /\ NoFault
  /\ UNCHANGED <<i, k, notified, inRun, history>>

\* Mutant of NameTaken: the error of xl create does not end Init.
NameTaken_GoesOn ==
  /\ pc = "create" /\ guest[k] # NoGuest
  /\ pc' = "domid"
  /\ NoFault
  /\ UNCHANGED <<i, k, notified, inRun, host, history>>

\* It fails where a guest of that name is left.
NameTaken ==
  /\ pc = "create" /\ guest[k] # NoGuest
  /\ Settled([setup EXCEPT ![k] = "nodomain"])
  /\ NoFault
  /\ UNCHANGED <<host, history>>

\* xl domid.
GetDomid ==
  /\ pc = "domid"
  /\ domid' = [domid EXCEPT ![k] = guest[k].run]
  /\ pc' = "xenstore"
  /\ NoFault
  /\ UNCHANGED <<i, k, notified, pending, err, completed, hard, setup, gor, host, history>>

\* xenstore-write.
WriteArgs ==
  /\ pc = "xenstore"
  /\ SetGuest([run |-> guest[k].run, up |-> guest[k].up, args |-> attempt])
  /\ pc' = "console"
  /\ NoFault
  /\ UNCHANGED <<i, k, notified, inRun, history>>

\* xl console.
StartConsole ==
  /\ pc = "console"
  /\ Settled([setup EXCEPT ![k] = "ok"])
  /\ NoFault
  /\ UNCHANGED <<host, history>>

\* Any of the commands fails for a reason of its own.
StepFails ==
  /\ InSetup /\ Fault
  /\ Settled([setup EXCEPT ![k] = FailureAt[pc]])
  /\ UNCHANGED <<host, history>>

-----------------------------------------------------------------------------
(* BenchmarkRun.Run and the goroutines.                                    *)

InRun == pc \in {"running", "waiting"}

Own(w) == domid[w] # 0 /\ guest[w].run = domid[w]

CanUnpause(w) == Own(w) /\ ~guest[w].up

Unpause(w) ==
  /\ InRun /\ gor[w] = "unpause" /\ CanUnpause(w)
  /\ guest' = [guest EXCEPT ![w].up = TRUE]
  /\ gor' = [gor EXCEPT ![w] = "scan"]
  /\ ran' = IF guest[w].run = attempt /\ guest[w].args = attempt THEN ran \cup {w} ELSE ran
  /\ NoFault
  /\ UNCHANGED <<pc, i, k, notified, pending, err, completed, hard, setup, domid,
                 result, attempt, excused>>

\* Mutant of UnpauseFails: the error is reported by a send on done.
UnpauseFails_Done(w) ==
  /\ InRun /\ gor[w] = "unpause"
  /\ IF CanUnpause(w) THEN Fault ELSE NoFault
  /\ gor' = [gor EXCEPT ![w] = "done"]
  /\ UNCHANGED <<pc, i, k, notified, pending, err, completed, hard, setup, domid, host, history>>

\* For want of a guest to unpause, or for a reason of libxl's own; the goroutine
\* ends without a word.
UnpauseFails(w) ==
  /\ InRun /\ gor[w] = "unpause"
  /\ IF CanUnpause(w) THEN Fault ELSE NoFault
  /\ gor' = [gor EXCEPT ![w] = "silent"]
  /\ UNCHANGED <<pc, i, k, notified, pending, err, completed, hard, setup, domid, host, history>>

\* Scan on a nil pipe.
NilConsole(w) ==
  /\ InRun /\ gor[w] = "scan" /\ setup[w] = "noconsole"
  /\ Exit /\ NoFault
  /\ excused' = excused \cup {attempt}
  /\ UNCHANGED <<inRun, host, attempt, ran>>

\* Mutant of ToDestroy: only workers that know their domain are shut down.
ToDestroy_WithDomid == {w \in Workers : domid[w] # 0}

\* WorkerList.Stop goes by the name, whoever made the guest.
ToDestroy == Workers

\* Guests that are left because their xl destroy fails (together one fault).
Left == SUBSET {w \in ToDestroy : guest[w] # NoGuest}

Stop ==
  /\ pc' = "waiting" /\ UNCHANGED <<i, k, notified, result, attempt, ran>>
  /\ \E stay \in Left :
       /\ IF stay = {} THEN NoFault ELSE Fault
       /\ guest' = [w \in Name |-> IF w \in ToDestroy \ stay THEN NoGuest ELSE guest[w]]
       /\ excused' = excused \cup {guest[w].run : w \in stay}

Timeout ==
  /\ pc = "running"
  /\ Stop /\ completed' = TRUE
  /\ UNCHANGED <<pending, err, hard, setup, domid, gor>>

CanLeave(w) ==
  gor[w] = "scan" /\ (setup[w] = "deadconsole" \/ (setup[w] = "ok" /\ ~Own(w)))

LeavesEarly(w) ==
  /\ pc = "running" /\ CanLeave(w)
  /\ gor' = [gor EXCEPT ![w] = "done"]
  /\ Stop /\ err' = "early"
  /\ UNCHANGED <<pending, completed, hard, setup, domid>>

\* Mutant of LeavesAfterStop: i is counted down before the stop only.
LeavesAfterStop_NotCounted(w) ==
  /\ pc = "waiting" /\ CanLeave(w)
  /\ gor' = [gor EXCEPT ![w] = "idle"]
  /\ NoFault
  /\ UNCHANGED <<pc, i, k, notified, pending, err, completed, hard, setup, domid, host, history>>

LeavesAfterStop(w) ==
  /\ pc = "waiting" /\ CanLeave(w)
  /\ gor' = [gor EXCEPT ![w] = "done"]
  /\ NoFault
  /\ UNCHANGED <<pc, i, k, notified, pending, err, completed, hard, setup, domid, host, history>>

\* Run returns to plan.Run, which saves the run or returns its error.
Returned ==
  /\ IF err = "nil" THEN pc' = "save" ELSE pc' = "down"
  /\ UNCHANGED <<i, k, notified>>

AllLeft ==
  /\ pc = "waiting" /\ \A w \in Workers : gor[w] = "done"
  /\ Returned /\ NoFault
  /\ UNCHANGED <<inRun, host, history>>

TakeInterrupt ==
  /\ pc = "running" /\ pending
  /\ Stop /\ pending' = FALSE /\ err' = "interrupted"
  /\ UNCHANGED <<completed, hard, setup, domid, gor>>

HardExit ==
  /\ pc = "waiting" /\ pending
  /\ Returned /\ hard' = TRUE /\ pending' = FALSE
  /\ NoFault
  /\ UNCHANGED <<err, completed, setup, domid, gor, host, history>>

Save ==
  /\ pc = "save"
  /\ \/ NextRun /\ NoFault
        /\ result' = [result EXCEPT ![i] =
             [saved |-> TRUE, made |-> {w \in Workers : setup[w] # "nodomain"},
              ran |-> ran, hard |-> hard]]
     \/ Exit /\ Fault /\ UNCHANGED result
  /\ UNCHANGED <<inRun, guest, history>>

-----------------------------------------------------------------------------
(* The world.                                                              *)

\* A running guest ends or crashes.
GuestExits(w) ==
  /\ guest[w].up
  /\ guest' = [guest EXCEPT ![w] = NoGuest]
  /\ NoFault
  /\ UNCHANGED <<pc, i, k, notified, inRun, result, history>>

\* An xl create that is killed may have made its guest.
KilledCreate ==
  \/ UNCHANGED guest
  \/ pc = "create" /\ guest[k] = NoGuest /\ guest' = [guest EXCEPT ![k] = Made]

\* kill, or ^C before the first signal.Notify.
Dies ==
  /\ pc # "down" /\ (Fault \/ (~notified /\ Press))
  /\ Exit
  /\ KilledCreate
  /\ excused' = excused \cup {attempt}
  /\ UNCHANGED <<inRun, result, attempt, ran>>

\* ^C reaches the xl consoles of this run too.
ConsolesDie == [w \in Name |-> IF setup[w] = "ok" THEN "deadconsole" ELSE setup[w]]

\* ^C in a later run's set-up: the signal is lost in the channel of an earlier
\* run, the command at work is killed, and Init drops the error.
InterruptSetup ==
  /\ InSetup /\ notified /\ Press
  /\ \/ /\ pc # "console"
        /\ Settled([ConsolesDie EXCEPT ![k] = FailureAt[pc]])
        /\ KilledCreate
     \/ /\ setup' = ConsolesDie
        /\ UNCHANGED <<pc, i, k, notified, pending, err, completed, hard, domid, gor, guest>>
  /\ UNCHANGED <<result, history>>

InterruptRun ==
  /\ InRun /\ Press
  /\ pending' = TRUE /\ setup' = ConsolesDie
  /\ UNCHANGED <<pc, i, k, notified, err, completed, hard, domid, gor, host, history>>

\* ^C between two runs is lost.
InterruptLost ==
  /\ pc \in {"next", "save"} /\ notified /\ Press
  /\ UNCHANGED <<pc, i, k, notified, inRun, host, history>>

SetupStep == Create \/ NameTaken \/ GetDomid \/ WriteArgs \/ StartConsole
Goroutine(w) == Unpause(w) \/ UnpauseFails(w) \/ NilConsole(w)
Done(w)   == LeavesEarly(w) \/ LeavesAfterStop(w)
PlanStep  == PassOver \/ BeginRun \/ AllDone

Next ==
  \/ Command \/ PlanStep \/ SetupStep \/ StepFails
  \/ \E w \in Name : Goroutine(w) \/ Done(w) \/ GuestExits(w)
  \/ Timeout \/ AllLeft \/ TakeInterrupt \/ HardExit \/ Save
  \/ Dies \/ InterruptSetup \/ InterruptRun \/ InterruptLost

Spec == Init /\ [][Next]_vars

\* The process goes on; time passes; select takes a done that stays ready.
Fairness ==
  /\ WF_vars(PlanStep) /\ WF_vars(SetupStep) /\ WF_vars(Save)
  /\ WF_vars(Timeout) /\ WF_vars(AllLeft)
  /\ \A w \in Name : WF_vars(Goroutine(w)) /\ WF_vars(Done(w))

FairSpec == Spec /\ Fairness

-----------------------------------------------------------------------------
(* Properties.                                                             *)

TypeOK ==
  /\ pc \in {"down", "next", "running", "waiting", "save"} \cup DOMAIN FailureAt
  /\ i \in 1 .. N + 1 /\ k \in Name
  /\ notified \in BOOLEAN /\ pending \in BOOLEAN /\ hard \in BOOLEAN
  /\ err \in {"nil", "early", "interrupted"} /\ completed \in BOOLEAN
  /\ setup \in [Name -> {"none", "ok"} \cup {FailureAt[x] : x \in DOMAIN FailureAt}]
  /\ domid \in [Name -> 0 .. attempt]
  /\ gor \in [Name -> {"idle", "unpause", "scan", "silent", "done"}]
  /\ guest \in [Name -> Guest]
  /\ result \in [Runs -> [saved : BOOLEAN, made : SUBSET Name, ran : SUBSET Name,
                         hard : BOOLEAN]]
  /\ attempt \in Nat /\ ran \subseteq Name /\ excused \subseteq 0 .. attempt
  /\ commands \in Nat /\ faults \in Nat /\ sigints \in Nat

\* A run that is saved as completed had a guest of its own for every worker, with
\* its own arguments, whatever was left on the host and whatever Init's steps came
\* to (run.go:116 drops it); only a run left by the second ^C may lack some.
CompletedRanItsWorkers ==
  \A r \in Runs : result[r].saved /\ ~result[r].hard => result[r].ran = 1 .. Size[r]

\* The same without the exception, and only of the guests that xl create made:
\* README.md:126-130 has a run run Count of each worker.
SavedRunsHadTheirGuests ==
  \A r \in Runs : result[r].saved => result[r].made = 1 .. Size[r]

\* A guest outlives its run only if an xl destroy failed or the process died:
\* not by failing set-ups, early ends, lost ^Cs or hard exits.
LeftoversExplained ==
  \A w \in Name :
    guest[w] # NoGuest /\ (guest[w].run = attempt => ~InSetup /\ ~InRun) =>
      guest[w].run \in excused

\* What RunLoop starts from: a worker that is set up has a paused guest of this
\* attempt, its arguments written; one whose xl create failed has no domid, even
\* where a guest of its name is there.
SetupIsAsRunLoopAssumes ==
  \A w \in Name : (InSetup /\ w < k) \/ (InRun /\ gor[w] = "unpause" /\ Own(w)) =>
    /\ setup[w] \in {"ok", "deadconsole"} =>
         guest[w] = [run |-> attempt, up |-> FALSE, args |-> attempt] /\ Own(w)
    /\ setup[w] = "noconsole" => Own(w) /\ guest[w].run = attempt /\ ~guest[w].up
    /\ setup[w] \in {"nodomid", "nodomain"} => domid[w] = 0

\* Run waits for a worker that will not say it is done.
Stuck ==
  pc = "waiting" /\ \E w \in Workers :
    gor[w] = "silent" \/ (gor[w] = "scan" /\ Own(w) /\ setup[w] # "deadconsole")

\* Every command ends, whatever the runs before it left behind, unless a Run
\* waits for a worker that went silent or whose guest was not destroyed.
CommandEnds == (pc # "down") ~> (pc = "down" \/ Stuck)
=============================================================================
