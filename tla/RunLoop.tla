------------------------------ MODULE RunLoop ------------------------------
(***************************************************************************)
(* One benchmark run: BenchmarkRun.Run in controller/run.go, the goroutine *)
(* XenWorker.Process of every worker (controller/xenworker.go), and the    *)
(* guests and consoles they drive.                                         *)
(*                                                                         *)
(* The module starts where Run calls Workers.Start: NewWorkerList has run, *)
(* and because it drops the error of Worker.Init (run.go:116) a worker may *)
(* be in any of the states Setup names.  The main goroutine and a worker   *)
(* meet on two unbuffered channels, report and done: a receive is one step *)
(* of both.  WorkerList.Stop is a loop of `xl destroy` commands, each one  *)
(* a step, during which main receives nothing.                             *)
(*                                                                         *)
(* Results.Raw is kept per worker: nothing reads the order of the reports  *)
(* of two different workers.                                               *)
(***************************************************************************)
EXTENDS Naturals, Sequences, FiniteSets

CONSTANTS
  Worker,             \* keys of the WorkerList map
  RuntimeSeconds,     \* run.RuntimeSeconds
  SetupOutcomes,      \* how Worker.Init may have ended, a subset of Setup
  MaxReports,         \* bound: report lines one guest prints
  MaxSigints,         \* bound: times the user presses ^C
  MaxDestroyFailures  \* bound: workers whose `xl destroy` fails

(***************************************************************************)
(* What Worker.Init leaves behind: "ok"; "nodomain", xl create failed;     *)
(* "nodomid", the domain exists but w.domid is still -1; "noconsole", it   *)
(* failed before w.console was set; "deadconsole", consoleCmd.Start failed *)
(* and nobody looked.                                                      *)
(***************************************************************************)
Setup == {"ok", "nodomain", "nodomid", "noconsole", "deadconsole"}

ASSUME WorkerAssumption == IsFiniteSet(Worker)
ASSUME BoundAssumption ==
  /\ RuntimeSeconds \in Nat
  /\ SetupOutcomes \subseteq Setup
  /\ MaxReports \in Nat
  /\ MaxSigints \in Nat
  /\ MaxDestroyFailures \in Nat

VARIABLES
  \* the main goroutine, inside Run
  mainPc,     \* "select", "stopping", "returned", or "panicked" (the process)
  left,       \* i, the workers main still waits for
  stopped,    \* the local of that name
  err,        \* the named result: "nil", "early" or "interrupted"
  completed,  \* run.Completed
  raw,        \* run.Results.Raw, split by worker
  toStop,     \* workers WorkerList.Stop has yet to shut down
  why,        \* the case of the select that called Stop
  timer,      \* the time.After channel: "armed", "fired" or "taken"
  sigPending, \* the one-element buffer of the signals channel
  sigints,    \* ^C so far (bound only)
  \* the worker goroutines
  gor,        \* control point of XenWorker.Process
  out,        \* the report it is sending
  setup,      \* how Init ended for this worker
  scanned,    \* lines its Scanner has returned
  \* the guests
  dom,        \* "none", "paused", "running", "exited", "destroyed"
  printed,    \* lines printed: START JSON, then one line per report
  tail,       \* an unfinished last line: "none", "unread" or "read"
  cut,        \* its `xl console` has been killed by ^C
  failed      \* xl destroy failed for this worker

mainVars  == <<mainPc, left, stopped, err, completed, toStop, why>>
envVars   == <<timer, sigPending, sigints>>
guestVars == <<dom, printed, tail, cut, failed>>
gorVars   == <<gor, out, scanned>>
vars == <<mainVars, raw, envVars, gorVars, setup, guestVars>>

(***************************************************************************)
(* A report: its number among those its worker printed (0 for a torn line, *)
(* from which json.Unmarshal gets no field), and whether DomainInfo gave   *)
(* it a Cputime.                                                           *)
(***************************************************************************)
Report   == [n : Nat, cpu : BOOLEAN]
NoReport == [n |-> 0, cpu |-> FALSE]

DomainAlive(w) == dom[w] \in {"paused", "running"}
CanUnpause(w)  == dom[w] = "paused" /\ setup[w] # "nodomid"
AllScanned(w)  == scanned[w] = printed[w]
JsonStarted(w) == scanned[w] > 0
Up             == mainPc # "panicked"

Init ==
  /\ mainPc = "select" /\ left = Cardinality(Worker)
  /\ stopped = FALSE /\ err = "nil" /\ completed = FALSE
  /\ raw = [w \in Worker |-> <<>>]
  /\ toStop = {} /\ why = "none"
  /\ timer = "armed" /\ sigPending = FALSE /\ sigints = 0
  /\ gor = [w \in Worker |-> "unpause"]
  /\ out = [w \in Worker |-> NoReport]
  /\ setup \in [Worker -> SetupOutcomes]
  /\ scanned = [w \in Worker |-> 0]
  /\ dom = [w \in Worker |-> IF setup[w] = "nodomain" THEN "none" ELSE "paused"]
  /\ printed = [w \in Worker |-> 0]
  /\ tail = [w \in Worker |-> "none"]
  /\ cut = [w \in Worker |-> FALSE]
  /\ failed = [w \in Worker |-> FALSE]

-----------------------------------------------------------------------------
(* XenWorker.Process, one goroutine per worker.                            *)

Goto(w, pc) == gor' = [gor EXCEPT ![w] = pc]

\* Ctx.DomainUnpause succeeds: the guest starts and its console is read.
Unpause(w) ==
  /\ Up /\ gor[w] = "unpause" /\ CanUnpause(w)
  /\ dom' = [dom EXCEPT ![w] = "running"]
  /\ Goto(w, "scan")
  /\ UNCHANGED <<mainVars, raw, envVars, out, scanned, setup, printed, tail, cut, failed>>

\* It fails: because there is no domid, no domain, or none any more, or for a
\* reason of libxl's own.  Process returns without sending on done.
UnpauseFails(w) ==
  /\ Up /\ gor[w] = "unpause"
  /\ Goto(w, "silent")
  /\ UNCHANGED <<mainVars, raw, envVars, out, scanned, setup, guestVars>>

\* The line that switches the goroutine to parsing reports.
ScanStartJson(w) ==
  /\ Up /\ gor[w] = "scan" /\ setup[w] = "ok" /\ ~AllScanned(w)
  /\ ~JsonStarted(w)
  /\ scanned' = [scanned EXCEPT ![w] = 1]
  /\ UNCHANGED <<mainVars, raw, envVars, gor, out, setup, guestVars>>

\* A whole report line: parse it, ask for the cpu time (an error is ignored),
\* and block on the report channel.
ScanReport(w) ==
  /\ Up /\ gor[w] = "scan" /\ setup[w] = "ok" /\ ~AllScanned(w)
  /\ JsonStarted(w)
  /\ scanned' = [scanned EXCEPT ![w] = @ + 1]
  /\ out' = [out EXCEPT ![w] = [n |-> scanned[w], cpu |-> DomainAlive(w)]]
  /\ Goto(w, "send")
  /\ UNCHANGED <<mainVars, raw, envVars, setup, guestVars>>

\* The unfinished line a dead guest leaves: the Scanner returns it as a line,
\* and after START JSON it is sent as a report whose Now and Kops are zero.
ScanTail(w) ==
  /\ Up /\ gor[w] = "scan" /\ setup[w] = "ok" /\ AllScanned(w)
  /\ tail[w] = "unread"
  /\ tail' = [tail EXCEPT ![w] = "read"]
  /\ IF JsonStarted(w)
     THEN /\ Goto(w, "send")
          /\ out' = [out EXCEPT ![w] = [n |-> 0, cpu |-> DomainAlive(w)]]
     ELSE UNCHANGED <<gor, out>>
  /\ UNCHANGED <<mainVars, raw, envVars, scanned, setup, dom, printed, cut, failed>>

\* End of the console output: go and send on done.  xl console ends with the
\* domain, or is killed; one that never started ends at once.
ScanEof(w) ==
  /\ Up /\ gor[w] = "scan"
  /\ \/ setup[w] = "ok" /\ AllScanned(w) /\ tail[w] # "unread"
        /\ (~DomainAlive(w) \/ cut[w])
     \/ setup[w] = "deadconsole"
  /\ Goto(w, "done")
  /\ UNCHANGED <<mainVars, raw, envVars, out, scanned, setup, guestVars>>

\* bufio.NewScanner(nil).Scan() panics and takes the whole process down.
ScanNilConsole(w) ==
  /\ Up /\ gor[w] = "scan" /\ setup[w] = "noconsole"
  /\ mainPc' = "panicked"
  /\ UNCHANGED <<left, stopped, err, completed, toStop, why, raw, envVars,
                 gorVars, setup, guestVars>>

Goroutine(w) ==
  \/ Unpause(w) \/ UnpauseFails(w) \/ ScanStartJson(w) \/ ScanReport(w)
  \/ ScanTail(w) \/ ScanEof(w) \/ ScanNilConsole(w)

-----------------------------------------------------------------------------
(* BenchmarkRun.Run, the main goroutine.                                   *)

\* Main is at the head of the loop with workers left, ready to receive.
Selecting == mainPc = "select" /\ left > 0

\* Mutant of BeginStop: only the workers that have reported are shut down.
BeginStop_Reporting(reason) ==
  /\ mainPc' = "stopping"
  /\ toStop' = {w \in Worker : raw[w] # <<>>}
  /\ why' = reason
  /\ UNCHANGED <<left, stopped, err, completed>>

\* A case that shuts the workers down: enter WorkerList.Stop.
BeginStop(reason) ==
  /\ mainPc' = "stopping"
  /\ toStop' = Worker
  /\ why' = reason
  /\ UNCHANGED <<left, stopped, err, completed>>

\* Mutants of RecvReport: late reports are recorded; a report is taken twice.
RecvReport_Late(w) ==
  /\ Selecting /\ gor[w] = "send"
  /\ Goto(w, "scan")
  /\ out' = [out EXCEPT ![w] = NoReport]
  /\ raw' = [raw EXCEPT ![w] = Append(@, out[w])]
  /\ UNCHANGED <<mainVars, envVars, scanned, setup, guestVars>>

RecvReport_Twice(w) ==
  /\ Selecting /\ gor[w] = "send" /\ ~stopped /\ Len(raw[w]) < 2 * MaxReports
  /\ raw' = [raw EXCEPT ![w] = Append(@, out[w])]
  /\ Goto(w, "scan") \/ UNCHANGED gor
  /\ UNCHANGED <<mainVars, envVars, out, scanned, setup, guestVars>>

\* case r := <-report
RecvReport(w) ==
  /\ Selecting /\ gor[w] = "send"
  /\ Goto(w, "scan")
  /\ out' = [out EXCEPT ![w] = NoReport]
  /\ raw' = IF stopped THEN raw ELSE [raw EXCEPT ![w] = Append(@, out[w])]
  /\ UNCHANGED <<mainVars, envVars, scanned, setup, guestVars>>

\* Mutant of RecvDone: i-- only on the early path.
RecvDone_NotCounted(w) ==
  /\ Selecting /\ gor[w] = "done"
  /\ Goto(w, "exited")
  /\ IF stopped THEN UNCHANGED mainVars ELSE BeginStop("early")
  /\ UNCHANGED <<raw, envVars, out, scanned, setup, guestVars>>

\* case did := <-done.  The first exit before any stop is an early one.
RecvDone(w) ==
  /\ Selecting /\ gor[w] = "done"
  /\ Goto(w, "exited")
  /\ IF stopped
     THEN /\ left' = left - 1
          /\ UNCHANGED <<mainPc, stopped, err, completed, toStop, why>>
     ELSE BeginStop("early")
  /\ UNCHANGED <<raw, envVars, out, scanned, setup, guestVars>>

\* Mutants of TakeTimeout: the test of stopped is missing, or negated.
TakeTimeout_Always ==
  /\ Selecting /\ timer = "fired"
  /\ timer' = "taken"
  /\ BeginStop("timeout")
  /\ UNCHANGED <<raw, sigPending, sigints, gorVars, setup, guestVars>>

TakeTimeout_Negated ==
  /\ Selecting /\ timer = "fired"
  /\ timer' = "taken"
  /\ IF stopped THEN BeginStop("timeout") ELSE UNCHANGED mainVars
  /\ UNCHANGED <<raw, sigPending, sigints, gorVars, setup, guestVars>>

\* case <-timeout
TakeTimeout ==
  /\ Selecting /\ timer = "fired"
  /\ timer' = "taken"
  /\ IF stopped THEN UNCHANGED mainVars ELSE BeginStop("timeout")
  /\ UNCHANGED <<raw, sigPending, sigints, gorVars, setup, guestVars>>

\* case <-signals.  The second one makes Run return as it stands.
TakeSignal ==
  /\ Selecting /\ sigPending
  /\ sigPending' = FALSE
  /\ IF stopped
     THEN /\ mainPc' = "returned"
          /\ UNCHANGED <<left, stopped, err, completed, toStop, why>>
     ELSE BeginStop("signal")
  /\ UNCHANGED <<raw, timer, sigints, gorVars, setup, guestVars>>

\* The last line of a guest that dies: it may have been half printed.
TornLine(w) ==
  {tail[w]} \cup (IF dom[w] = "running" /\ ~cut[w] THEN {"unread"} ELSE {})

\* XenWorker.Shutdown: `xl destroy`, its error dropped.  A guest killed while
\* it prints leaves half a line on its console.
Shutdown(w) ==
  \/ /\ DomainAlive(w)
     /\ dom' = [dom EXCEPT ![w] = "destroyed"]
     /\ \E t \in TornLine(w) : tail' = [tail EXCEPT ![w] = t]
     /\ UNCHANGED failed
  \/ /\ DomainAlive(w)
     /\ Cardinality({v \in Worker : failed[v]}) < MaxDestroyFailures
     /\ failed' = [failed EXCEPT ![w] = TRUE]
     /\ UNCHANGED <<dom, tail>>
  \/ /\ ~DomainAlive(w)
     /\ UNCHANGED <<dom, tail, failed>>

\* One turn of the loop in WorkerList.Stop, in map order: any order.
StopOne(w) ==
  /\ mainPc = "stopping" /\ w \in toStop
  /\ toStop' = toStop \ {w}
  /\ Shutdown(w)
  /\ UNCHANGED <<mainPc, left, stopped, err, completed, why, raw, envVars,
                 gorVars, setup, printed, cut>>

\* Mutant of ErrorOf: running out of time is an error too.
ErrorOf_AnyReason(reason) == reason

\* The error a case sets after Stop; the timeout sets none.
ErrorOf(reason) ==
  CASE reason = "early" -> "early"
    [] reason = "signal" -> "interrupted"
    [] OTHER -> err

\* Mutants of Completes: ^C completes every run; ^C completes none.
Completes_AnySignal(reason) == reason \in {"timeout", "signal"}
Completes_NoSignal(reason)  == reason = "timeout"

\* Whether it sets run.Completed.
Completes(reason) ==
  reason = "timeout" \/ (reason = "signal" /\ RuntimeSeconds = 0)

\* What the case that called Stop does once it is back; i-- is last.
FinishStop ==
  /\ mainPc = "stopping" /\ toStop = {}
  /\ mainPc' = "select"
  /\ stopped' = TRUE
  /\ err' = ErrorOf(why)
  /\ completed' = (completed \/ Completes(why))
  /\ left' = IF why = "early" THEN left - 1 ELSE left
  /\ UNCHANGED <<toStop, why, raw, envVars, gorVars, setup, guestVars>>

\* The loop ends when no worker is left, at once if there was none.
LoopExit ==
  /\ mainPc = "select" /\ left = 0
  /\ mainPc' = "returned"
  /\ UNCHANGED <<left, stopped, err, completed, toStop, why, raw, envVars,
                 gorVars, setup, guestVars>>

Main ==
  \/ \E w \in Worker : RecvReport(w) \/ RecvDone(w) \/ StopOne(w)
  \/ TakeTimeout \/ TakeSignal \/ FinishStop \/ LoopExit

-----------------------------------------------------------------------------
(* The guests, the clock and the user.                                     *)

\* A running guest prints START JSON, then reports, as long as they get to us.
GuestPrint(w) ==
  /\ dom[w] = "running" /\ ~cut[w] /\ printed[w] <= MaxReports
  /\ printed' = [printed EXCEPT ![w] = @ + 1]
  /\ UNCHANGED <<mainVars, raw, envVars, gorVars, setup, dom, tail, cut, failed>>

\* A guest ends by itself: worker.c exits, or crashes (on_crash = 'destroy').
GuestExit(w) ==
  /\ dom[w] = "running"
  /\ dom' = [dom EXCEPT ![w] = "exited"]
  /\ \E t \in TornLine(w) : tail' = [tail EXCEPT ![w] = t]
  /\ UNCHANGED <<mainVars, raw, envVars, gorVars, setup, printed, cut, failed>>

FireTimer ==
  /\ Up /\ mainPc # "returned" /\ timer = "armed"
  /\ timer' = "fired"
  /\ UNCHANGED <<mainVars, raw, sigPending, sigints, gorVars, setup, guestVars>>

\* SIGINT comes; it is lost when the one-element buffer is full.
Sigint ==
  /\ Up /\ mainPc # "returned" /\ sigints < MaxSigints
  /\ sigPending' = TRUE
  /\ sigints' = sigints + 1

\* kill -INT of schedbench alone.
SigintAlone ==
  /\ Sigint
  /\ UNCHANGED <<mainVars, raw, timer, gorVars, setup, guestVars>>

\* What an `xl console` killed now has passed on: some of the whole lines the
\* goroutine has yet to read, and maybe a part of the next one.
PassedOn(w) ==
  IF cut[w] \/ tail[w] = "read" THEN {<<printed[w], tail[w]>>}
  ELSE ((scanned[w] .. printed[w]) \X {"none", "unread"})
       \ (IF dom[w] = "running" \/ tail[w] = "unread" THEN {}
          ELSE {<<printed[w], "unread">>})

\* ^C at a terminal goes to the whole process group, and every `xl console`
\* is a child in it (xenworker.go:197).
CtrlC ==
  /\ Sigint
  /\ cut' = [w \in Worker |-> TRUE]
  /\ printed' \in [Worker -> 0 .. MaxReports + 1]
  /\ tail' \in [Worker -> {"none", "unread", "read"}]
  /\ \A w \in Worker : <<printed'[w], tail'[w]>> \in PassedOn(w)
  /\ UNCHANGED <<mainVars, raw, timer, gorVars, setup, dom, failed>>

Environment ==
  \/ \E w \in Worker : GuestPrint(w) \/ GuestExit(w)
  \/ FireTimer \/ SigintAlone \/ CtrlC

Next ==
  \/ Main
  \/ \E w \in Worker : Goroutine(w)
  \/ Environment

Spec == Init /\ [][Next]_vars

(***************************************************************************)
(* The Go scheduler runs every goroutine that can run, select chooses at   *)
(* random among the ready cases, so that none is passed over for ever, and *)
(* time passes.  Nothing is assumed of guests and users.                   *)
(***************************************************************************)
Fairness ==
  /\ \A w \in Worker : /\ WF_vars(Goroutine(w))
                       /\ WF_vars(RecvReport(w))
                       /\ WF_vars(RecvDone(w))
                       /\ WF_vars(StopOne(w))
  /\ WF_vars(TakeTimeout) /\ WF_vars(TakeSignal)
  /\ WF_vars(FinishStop) /\ WF_vars(LoopExit)
  /\ WF_vars(FireTimer)

FairSpec == Spec /\ Fairness

-----------------------------------------------------------------------------
(* Properties.                                                             *)

\* Every variable holds a value of its type; left never goes below zero.
TypeOK ==
  /\ mainPc \in {"select", "stopping", "returned", "panicked"}
  /\ left \in Nat
  /\ stopped \in BOOLEAN /\ completed \in BOOLEAN
  /\ err \in {"nil", "early", "interrupted"}
  /\ raw \in [Worker -> Seq(Report)]
  /\ toStop \in SUBSET Worker
  /\ why \in {"none", "early", "timeout", "signal"}
  /\ timer \in {"armed", "fired", "taken"}
  /\ sigPending \in BOOLEAN /\ sigints \in Nat
  /\ gor \in [Worker -> {"unpause", "scan", "send", "done", "exited", "silent"}]
  /\ out \in [Worker -> Report]
  /\ setup \in [Worker -> Setup]
  /\ scanned \in [Worker -> Nat] /\ printed \in [Worker -> Nat]
  /\ dom \in [Worker -> {"none", "paused", "running", "exited", "destroyed"}]
  /\ tail \in [Worker -> {"none", "unread", "read"}]
  /\ cut \in [Worker -> BOOLEAN]
  /\ failed \in [Worker -> BOOLEAN]

Remaining == {w \in Worker : gor[w] # "exited"}

\* The counter i of the loop is the number of goroutines whose done has not
\* been received, except while the early leaver that started a Stop is not
\* yet counted (i-- comes after Stop): the loop neither ends while a worker
\* can still send nor waits for one it has already counted.
LeftCountsWorkers ==
  Up => left = Cardinality(Remaining)
               + (IF mainPc = "stopping" /\ why = "early" THEN 1 ELSE 0)

\* Results.Raw holds each worker's reports in the order printed, none missing
\* and none twice, whatever the interleaving on the report channel.  Only a
\* worker that exited by itself, or lost its console to ^C, can leave a torn
\* report, and only as its last: BenchmarkRun.Process computes its windows from
\* consecutive entries.
RawIsAPrefix ==
  \A w \in Worker : \A k \in 1 .. Len(raw[w]) :
    \/ raw[w][k].n = k
    \/ raw[w][k].n = 0 /\ k = Len(raw[w]) /\ (dom[w] = "exited" \/ cut[w])

\* Shutting workers down never spoils a recorded report: one recorded without
\* a Cputime (DomainInfo found no domain) is from a guest that ended by itself.
CputimeLostOnlyByExit ==
  \A w \in Worker : \A k \in 1 .. Len(raw[w]) :
    ~raw[w][k].cpu => dom[w] = "exited"

\* When Run returns, by whichever path, `xl destroy` has been tried on every
\* guest: one that is still alive is one whose destroy failed.
NoGuestLeftBehind ==
  mainPc = "returned" => \A w \in Worker : DomainAlive(w) => failed[w]

\* What plan.Run relies on: a nil error is a completed run (if it had any
\* worker), and a completed run is one that was stopped by its timeout, with
\* a nil error, or by ^C when RuntimeSeconds is 0.
Verdict ==
  mainPc = "returned" =>
    /\ err = "nil" /\ Worker # {} => completed
    /\ completed => \/ err = "nil" /\ timer = "taken"
                    \/ err = "interrupted" /\ RuntimeSeconds = 0

\* With RuntimeSeconds 0 the user decides when the run is over: ^C completes
\* it (run.go:402), so only a worker that leaves early, before ^C and the timer
\* are noticed, can leave it incomplete.
InterruptCompletes ==
  mainPc = "returned" /\ RuntimeSeconds = 0 /\ ~completed =>
    \/ Worker = {}
    \/ err = "early" /\ \E w \in Worker : gor[w] = "exited"

\* Once stopped, the results and the verdict are final: late reports are
\* dropped, a timeout does not complete an interrupted run, a ^C does not
\* make a completed run fail, and later exits are not early ones.
VerdictIsFinal ==
  [][stopped => UNCHANGED <<stopped, raw, completed, err>>]_vars

\* The contract of RunContract, with the phases of a run read off main's state.
Phase ==
  CASE mainPc = "panicked" -> "aborted"
    [] mainPc = "returned" -> "returned"
    [] OTHER -> IF stopped THEN "stopped" ELSE "collecting"

Contract == INSTANCE RunContract WITH phase <- Phase

\* Run implements its contract: reports are collected in order until the one
\* stop, whose reason is the verdict, and Run does not return before it.
ImplementsContract == Contract!Spec

\* A run with workers is stopped by its timeout at the latest.
EventuallyStopped ==
  Worker # {} => <>(stopped \/ mainPc = "panicked")

\* Once stopped, if no worker went silent and every console has ended, Run returns.
Drained == \A w \in Worker : (~DomainAlive(w) \/ cut[w]) /\ gor[w] \notin {"unpause", "silent"}
StoppedRunReturns ==
  (stopped /\ Drained) ~> (mainPc \in {"returned", "panicked"})
=============================================================================
