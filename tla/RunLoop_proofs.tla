--------------------------- MODULE RunLoop_proofs ---------------------------
(***************************************************************************)
(* Proofs about RunLoop, for every set of workers, every RuntimeSeconds,   *)
(* every subset of the setups and every value of the bounds.               *)
(***************************************************************************)
EXTENDS RunLoop, FiniteSetTheorems, TLAPS

\* Main is inside WorkerList.Stop only while it still waits for some worker;
\* without this, i-- after Stop could take left below zero.
StopHasWorkers == mainPc = "stopping" => left > 0

TypeInv == TypeOK /\ StopHasWorkers

LEMMA InitTypeInv == Init => TypeInv
<1> SUFFICES ASSUME Init PROVE TypeInv
  OBVIOUS
<1>1. left \in Nat
  BY WorkerAssumption, FS_CardinalityType DEF Init
<1>2. setup \in [Worker -> Setup]
  BY BoundAssumption DEF Init
<1>3. /\ raw \in [Worker -> Seq(Report)]
      /\ out \in [Worker -> Report]
  BY DEF Init, Report, NoReport
<1>4. dom \in [Worker -> {"none", "paused", "running", "exited", "destroyed"}]
  BY DEF Init
<1>5. gor \in [Worker -> {"unpause", "scan", "send", "done", "exited", "silent"}]
  BY DEF Init
<1>6. /\ scanned \in [Worker -> Nat] /\ printed \in [Worker -> Nat]
      /\ tail \in [Worker -> {"none", "unread", "read"}]
      /\ cut \in [Worker -> BOOLEAN] /\ failed \in [Worker -> BOOLEAN]
  BY DEF Init
<1> QED
  BY <1>1, <1>2, <1>3, <1>4, <1>5, <1>6 DEF Init, TypeInv, TypeOK, StopHasWorkers

LEMMA TornLineType ==
  ASSUME TypeOK, NEW w \in Worker
  PROVE  TornLine(w) \subseteq {"none", "unread", "read"}
BY DEF TypeOK, TornLine

LEMMA NoReportType == NoReport \in Report
BY DEF NoReport, Report

\* The steps of the goroutines preserve the types.
LEMMA GoroutineTypeInv ==
  ASSUME TypeInv, NEW w \in Worker, Goroutine(w)
  PROVE  TypeInv'
<1> USE DEF TypeInv, TypeOK, StopHasWorkers, mainVars, envVars, guestVars,
            gorVars, Goto
<1>1. CASE Unpause(w)
  BY <1>1 DEF Unpause
<1>2. CASE UnpauseFails(w)
  BY <1>2 DEF UnpauseFails
<1>3. CASE ScanStartJson(w)
  BY <1>3 DEF ScanStartJson
<1>4. CASE ScanReport(w)
  BY <1>4 DEF ScanReport, DomainAlive, Report
<1>5. CASE ScanTail(w)
  <2>1. gor' \in [Worker -> {"unpause", "scan", "send", "done", "exited", "silent"}]
    BY <1>5 DEF ScanTail
  <2>2. out' \in [Worker -> Report]
    <3>1. [n |-> 0, cpu |-> DomainAlive(w)] \in Report
      BY DEF DomainAlive, Report
    <3>2. \/ UNCHANGED out
          \/ out' = [out EXCEPT ![w] = [n |-> 0, cpu |-> DomainAlive(w)]]
      BY <1>5 DEF ScanTail
    <3> HIDE DEF Report
    <3> QED
      BY <3>1, <3>2
  <2>3. /\ tail' \in [Worker -> {"none", "unread", "read"}]
        /\ UNCHANGED <<mainVars, raw, envVars, scanned, setup, dom, printed, cut, failed>>
    BY <1>5 DEF ScanTail
  <2> QED
    BY <2>1, <2>2, <2>3
<1>6. CASE ScanEof(w)
  BY <1>6 DEF ScanEof
<1>7. CASE ScanNilConsole(w)
  BY <1>7 DEF ScanNilConsole
<1> QED
  BY <1>1, <1>2, <1>3, <1>4, <1>5, <1>6, <1>7 DEF Goroutine

\* The steps of main do.
LEMMA MainTypeInv ==
  ASSUME TypeInv, Main
  PROVE  TypeInv'
<1> USE DEF TypeInv, TypeOK, StopHasWorkers, mainVars, envVars, guestVars,
            gorVars, Goto, Selecting, BeginStop
<1>1. ASSUME NEW w \in Worker, RecvReport(w) PROVE TypeInv'
  <2>1. raw' \in [Worker -> Seq(Report)]
    BY <1>1 DEF RecvReport
  <2> QED
    BY <1>1, <2>1, NoReportType DEF RecvReport
<1>2. ASSUME NEW w \in Worker, RecvDone(w) PROVE TypeInv'
  BY <1>2 DEF RecvDone
<1>3. ASSUME NEW w \in Worker, StopOne(w) PROVE TypeInv'
  <2>1. /\ dom' \in [Worker -> {"none", "paused", "running", "exited", "destroyed"}]
        /\ tail' \in [Worker -> {"none", "unread", "read"}]
        /\ failed' \in [Worker -> BOOLEAN]
    <3>1. dom' \in [Worker -> {"none", "paused", "running", "exited", "destroyed"}]
      BY <1>3 DEF StopOne, Shutdown
    <3>2. failed' \in [Worker -> BOOLEAN]
      BY <1>3 DEF StopOne, Shutdown
    <3>3. tail' = tail \/ \E t \in TornLine(w) : tail' = [tail EXCEPT ![w] = t]
      BY <1>3 DEF StopOne, Shutdown
    <3>4. tail' \in [Worker -> {"none", "unread", "read"}]
      BY <3>3, TornLineType
    <3> QED
      BY <3>1, <3>2, <3>4
  <2> QED
    BY <1>3, <2>1 DEF StopOne
<1>4. CASE TakeTimeout
  BY <1>4 DEF TakeTimeout
<1>5. CASE TakeSignal
  BY <1>5 DEF TakeSignal
<1>6. CASE FinishStop
  BY <1>6 DEF FinishStop, ErrorOf, Completes
<1>7. CASE LoopExit
  BY <1>7 DEF LoopExit
<1> QED
  BY <1>1, <1>2, <1>3, <1>4, <1>5, <1>6, <1>7 DEF Main

\* The steps of guests, clock and user do.
LEMMA EnvironmentTypeInv ==
  ASSUME TypeInv, Environment
  PROVE  TypeInv'
<1> USE DEF TypeInv, TypeOK, StopHasWorkers, mainVars, envVars, guestVars, gorVars
<1>1. ASSUME NEW w \in Worker, GuestPrint(w) PROVE TypeInv'
  BY <1>1 DEF GuestPrint
<1>2. ASSUME NEW w \in Worker, GuestExit(w) PROVE TypeInv'
  BY <1>2, TornLineType DEF GuestExit
<1>3. CASE FireTimer
  BY <1>3 DEF FireTimer
<1>4. CASE SigintAlone
  BY <1>4 DEF SigintAlone, Sigint
<1>5. CASE CtrlC
  <2>1. 0 .. MaxReports + 1 \subseteq Nat
    BY BoundAssumption
  <2>2. printed' \in [Worker -> Nat]
    BY <1>5, <2>1 DEF CtrlC
  <2> QED
    BY <1>5, <2>2 DEF CtrlC, Sigint
<1> QED
  BY <1>1, <1>2, <1>3, <1>4, <1>5 DEF Environment

LEMMA NextTypeInv == TypeInv /\ [Next]_vars => TypeInv'
<1> SUFFICES ASSUME TypeInv, [Next]_vars PROVE TypeInv'
  OBVIOUS
<1>1. CASE UNCHANGED vars
  BY <1>1 DEF vars, mainVars, envVars, gorVars, guestVars, TypeInv, TypeOK, StopHasWorkers
<1> QED
  BY <1>1, GoroutineTypeInv, MainTypeInv, EnvironmentTypeInv DEF Next

LEMMA TypeInvariant == Spec => []TypeInv
  BY InitTypeInv, NextTypeInv, PTL DEF Spec

\* Every variable keeps its type; in particular the counter of the loop in
\* BenchmarkRun.Run (run.go:367-411) never goes below zero.
THEOREM TypeCorrect == Spec => []TypeOK
<1>1. TypeInv => TypeOK
  BY DEF TypeInv
<1> QED
  BY <1>1, TypeInvariant, PTL

-----------------------------------------------------------------------------
(***************************************************************************)
(* The control of main.  A Stop happens once, with a reason; before it the *)
(* verdict is open and no worker has been counted, after it the verdict is *)
(* one of three.                                                           *)
(***************************************************************************)
Settled ==
  \/ err = "early" /\ ~completed
  \/ err = "nil" /\ completed /\ timer = "taken"
  \/ err = "interrupted" /\ (completed <=> RuntimeSeconds = 0)

ControlInv ==
  /\ mainPc = "stopping" =>
       /\ ~stopped /\ Worker # {}
       /\ why # "none" /\ (why = "timeout" => timer = "taken")
  /\ ~stopped => err = "nil" /\ ~completed
  /\ stopped => Settled
  /\ mainPc = "select" /\ ~stopped => left = Cardinality(Worker)
  /\ mainPc = "returned" => stopped \/ Worker = {}

LEMMA InitControl == Init => ControlInv
BY DEF Init, ControlInv

LEMMA NextControl == TypeInv /\ ControlInv /\ [Next]_vars => ControlInv'
<1> SUFFICES ASSUME TypeInv, ControlInv, [Next]_vars PROVE ControlInv'
  OBVIOUS
<1>0. Cardinality(Worker) = 0 <=> Worker = {}
  BY WorkerAssumption, FS_EmptySet
<1> USE DEF TypeInv, TypeOK, ControlInv, Settled, mainVars, envVars, Selecting, BeginStop
<1>1. ASSUME NEW w \in Worker, Goroutine(w) PROVE ControlInv'
  BY <1>1 DEF Goroutine, Unpause, UnpauseFails, ScanStartJson, ScanReport,
     ScanTail, ScanEof, ScanNilConsole
<1>2. ASSUME NEW w \in Worker, RecvReport(w) \/ StopOne(w) PROVE ControlInv'
  BY <1>2 DEF RecvReport, StopOne
<1>3. ASSUME NEW w \in Worker, RecvDone(w) PROVE ControlInv'
  BY <1>3 DEF RecvDone
<1>4. CASE TakeTimeout
  BY <1>4, <1>0 DEF TakeTimeout
<1>5. CASE TakeSignal
  BY <1>5, <1>0 DEF TakeSignal
<1>6. CASE FinishStop
  BY <1>6 DEF FinishStop, ErrorOf, Completes
<1>7. CASE LoopExit
  BY <1>7, <1>0 DEF LoopExit
<1>8. CASE Environment
  BY <1>8 DEF Environment, GuestPrint, GuestExit, FireTimer, SigintAlone,
     CtrlC, Sigint
<1>9. CASE UNCHANGED vars
  BY <1>9 DEF vars
<1> QED
  BY <1>1, <1>2, <1>3, <1>4, <1>5, <1>6, <1>7, <1>8, <1>9 DEF Next, Main

LEMMA ControlInvariant == Spec => []ControlInv
BY TypeInvariant, InitControl, NextControl, PTL DEF Spec

\* What plan.Run may conclude from a run that returned: nil error means
\* completed, and completed means timed out, or ^C with RuntimeSeconds 0.
THEOREM VerdictCorrect == Spec => []Verdict
<1>1. ControlInv => Verdict
  BY DEF ControlInv, Settled, Verdict
<1> QED
  BY <1>1, ControlInvariant, PTL

\* Once stopped is set no step changes the results or the verdict.
THEOREM VerdictStable == Spec => VerdictIsFinal
<1>1. ControlInv /\ [Next]_vars => [stopped => UNCHANGED <<stopped, raw, completed, err>>]_vars
  <2> SUFFICES ASSUME ControlInv, Next, stopped
               PROVE  UNCHANGED <<stopped, raw, completed, err>>
    OBVIOUS
  <2> USE DEF ControlInv, mainVars, Selecting
  <2>1. CASE Main
    BY <2>1 DEF Main, RecvReport, RecvDone, StopOne, TakeTimeout, TakeSignal,
       FinishStop, LoopExit
  <2>2. ASSUME NEW w \in Worker, Goroutine(w)
        PROVE  UNCHANGED <<stopped, raw, completed, err>>
    BY <2>2 DEF Goroutine, Unpause, UnpauseFails, ScanStartJson, ScanReport,
       ScanTail, ScanEof, ScanNilConsole
  <2>3. CASE Environment
    BY <2>3 DEF Environment, GuestPrint, GuestExit, FireTimer, SigintAlone,
     CtrlC, Sigint
  <2> QED
    BY <2>1, <2>2, <2>3 DEF Next
<1> QED
  BY <1>1, ControlInvariant, PTL DEF Spec, VerdictIsFinal

-----------------------------------------------------------------------------
(* The counter of the loop against the goroutines.                         *)

\* Only RecvDone takes a worker out of Remaining.
LEMMA GoroutineRemaining ==
  ASSUME TypeOK, NEW w \in Worker, Goroutine(w)
  PROVE  Remaining' = Remaining
<1>1. gor[w] # "exited"
  BY DEF Goroutine, Unpause, UnpauseFails, ScanStartJson, ScanReport,
     ScanTail, ScanEof, ScanNilConsole
<1>2. \/ gor' = gor
      \/ \E pc \in {"scan", "send", "done", "silent"} : gor' = [gor EXCEPT ![w] = pc]
  BY DEF Goroutine, Unpause, UnpauseFails, ScanStartJson, ScanReport,
     ScanTail, ScanEof, ScanNilConsole, Goto, gorVars
<1> QED
  BY <1>1, <1>2 DEF TypeOK, Remaining

LEMMA InitCount == Init => LeftCountsWorkers
<1> SUFFICES ASSUME Init PROVE LeftCountsWorkers
  OBVIOUS
<1>1. Remaining = Worker
  BY DEF Init, Remaining
<1>2. Cardinality(Worker) \in Nat
  BY WorkerAssumption, FS_CardinalityType
<1> QED
  BY <1>1, <1>2 DEF Init, LeftCountsWorkers

LEMMA NextCount ==
  TypeInv /\ ControlInv /\ LeftCountsWorkers /\ [Next]_vars => LeftCountsWorkers'
<1> SUFFICES ASSUME TypeInv, ControlInv, LeftCountsWorkers, [Next]_vars
             PROVE  LeftCountsWorkers'
  OBVIOUS
<1>0. IsFiniteSet(Remaining) /\ Cardinality(Remaining) \in Nat
  BY WorkerAssumption, FS_Subset, FS_CardinalityType DEF Remaining
<1> USE <1>0 DEF TypeInv, TypeOK, ControlInv, LeftCountsWorkers, Up, mainVars,
               gorVars, Selecting, BeginStop
<1>1. ASSUME NEW w \in Worker, Goroutine(w) PROVE LeftCountsWorkers'
  <2>1. Up /\ (UNCHANGED mainVars \/ mainPc' = "panicked")
    BY <1>1 DEF Goroutine, Unpause, UnpauseFails, ScanStartJson, ScanReport,
       ScanTail, ScanEof, ScanNilConsole
  <2> QED
    BY <1>1, <2>1, GoroutineRemaining
<1>2. ASSUME NEW w \in Worker, RecvReport(w) PROVE LeftCountsWorkers'
  <2>1. Remaining' = Remaining
    BY <1>2 DEF RecvReport, Goto, Remaining
  <2> QED
    BY <1>2, <2>1 DEF RecvReport
<1>3. ASSUME NEW w \in Worker, RecvDone(w) PROVE LeftCountsWorkers'
  <2>1. w \in Remaining /\ Remaining' = Remaining \ {w}
    BY <1>3 DEF RecvDone, Goto, Remaining
  <2>2. Cardinality(Remaining') = Cardinality(Remaining) - 1
    BY <2>1, FS_RemoveElement
  <2> QED
    BY <1>3, <2>2 DEF RecvDone
<1> DEFINE Rest ==
      \/ \E w \in Worker : StopOne(w)
      \/ TakeTimeout \/ TakeSignal \/ FinishStop \/ LoopExit
      \/ Environment \/ UNCHANGED vars
<1>4. CASE Rest
  <2>1. UNCHANGED gor
    BY <1>4 DEF StopOne, TakeTimeout, TakeSignal, FinishStop, LoopExit,
       Environment, GuestPrint, GuestExit, FireTimer, SigintAlone,
     CtrlC, Sigint, vars
  <2>2. Remaining' = Remaining
    BY <2>1 DEF Remaining
  <2> QED
    BY <1>4, <2>2 DEF StopOne, TakeTimeout, TakeSignal, FinishStop, LoopExit,
       Environment, GuestPrint, GuestExit, FireTimer, SigintAlone,
     CtrlC, Sigint, vars
<1>5. \/ \E w \in Worker : Goroutine(w) \/ RecvReport(w) \/ RecvDone(w)
      \/ Rest
  BY DEF Next, Main
<1> HIDE DEF LeftCountsWorkers, Rest
<1> QED
  BY <1>1, <1>2, <1>3, <1>4, <1>5

\* i of the loop is the number of workers whose done is still to come.
THEOREM CountCorrect == Spec => []LeftCountsWorkers
BY TypeInvariant, ControlInvariant, InitCount, NextCount, PTL DEF Spec

-----------------------------------------------------------------------------
(* Who is behind an early end of the run.                                  *)

\* A Stop for an early leaver, and the error it leaves, have that leaver.
EarlyInv ==
  err = "early" \/ (mainPc = "stopping" /\ why = "early") => Remaining # Worker

LEMMA NextEarly == TypeInv /\ ControlInv /\ EarlyInv /\ [Next]_vars => EarlyInv'
<1> SUFFICES ASSUME TypeInv, ControlInv, EarlyInv, [Next]_vars PROVE EarlyInv'
  OBVIOUS
<1>1. ASSUME NEW w \in Worker, Goroutine(w) PROVE EarlyInv'
  <2>1. Remaining' = Remaining
    BY <1>1, GoroutineRemaining DEF TypeInv
  <2>2. err' = err /\ why' = why /\ (mainPc' = "stopping" => mainPc = "stopping")
    BY <1>1 DEF Goroutine, Unpause, UnpauseFails, ScanStartJson, ScanReport,
       ScanTail, ScanEof, ScanNilConsole, mainVars
  <2> QED
    BY <2>1, <2>2 DEF EarlyInv
<1>2. ASSUME NEW w \in Worker, RecvDone(w) PROVE EarlyInv'
  <2>1. gor'[w] = "exited"
    BY <1>2 DEF RecvDone, Goto, TypeInv, TypeOK
  <2> QED
    BY <2>1 DEF EarlyInv, Remaining
<1>3. ASSUME NEW w \in Worker, RecvReport(w) PROVE EarlyInv'
  <2>1. gor[w] = "send" /\ gor' = [gor EXCEPT ![w] = "scan"] /\ UNCHANGED mainVars
    BY <1>3 DEF RecvReport, Goto
  <2>2. Remaining' = Remaining
    BY <2>1 DEF Remaining, TypeInv, TypeOK
  <2> QED
    BY <2>1, <2>2 DEF EarlyInv, mainVars
<1>4. CASE TakeTimeout \/ TakeSignal
  BY <1>4 DEF TakeTimeout, TakeSignal, BeginStop, Selecting, EarlyInv, Remaining,
     gorVars, mainVars
<1>5. CASE FinishStop
  BY <1>5 DEF FinishStop, ErrorOf, EarlyInv, Remaining, gorVars, ControlInv
<1>6. CASE LoopExit \/ Environment \/ UNCHANGED vars \/ \E w \in Worker : StopOne(w)
  <2>1. UNCHANGED <<gor, err, why>> /\ (mainPc' = "stopping" => mainPc = "stopping")
    BY <1>6 DEF LoopExit, StopOne, Environment, GuestPrint, GuestExit, FireTimer,
       SigintAlone, CtrlC, Sigint, vars, gorVars, mainVars
  <2> QED
    BY <2>1 DEF EarlyInv, Remaining
<1> QED
  BY <1>1, <1>2, <1>3, <1>4, <1>5, <1>6 DEF Next, Main

\* With RuntimeSeconds 0 a run that returned is completed, unless a worker left
\* before ^C or the timer was noticed.
THEOREM InterruptionCompletes == Spec => []InterruptCompletes
<1>1. Init => EarlyInv
  BY DEF Init, EarlyInv
<1>2. ControlInv /\ EarlyInv => InterruptCompletes
  BY DEF ControlInv, Settled, EarlyInv, InterruptCompletes, Remaining
<1> QED
  BY <1>1, <1>2, NextEarly, TypeInvariant, ControlInvariant, PTL DEF Spec

-----------------------------------------------------------------------------
(* The guests against WorkerList.Stop.                                     *)

Handled(w) == DomainAlive(w) => failed[w]

StopInv ==
  /\ mainPc = "stopping" => \A w \in Worker \ toStop : Handled(w)
  /\ stopped => \A w \in Worker : Handled(w)

\* A worker once handled stays so: no step of anyone brings a domain to life.
LEMMA HandledStable ==
  ASSUME TypeOK, [Next]_vars, NEW w \in Worker, Handled(w)
  PROVE  Handled(w)'
<1> USE DEF TypeOK, Handled, DomainAlive, guestVars
<1>1. ASSUME NEW v \in Worker, Goroutine(v) PROVE Handled(w)'
  BY <1>1 DEF Goroutine, Unpause, UnpauseFails, ScanStartJson, ScanReport,
     ScanTail, ScanEof, ScanNilConsole, CanUnpause
<1>2. ASSUME NEW v \in Worker, RecvReport(v) \/ RecvDone(v) PROVE Handled(w)'
  BY <1>2 DEF RecvReport, RecvDone
<1>3. ASSUME NEW v \in Worker, StopOne(v) PROVE Handled(w)'
  BY <1>3 DEF StopOne, Shutdown
<1>4. CASE TakeTimeout \/ TakeSignal \/ FinishStop \/ LoopExit
  BY <1>4 DEF TakeTimeout, TakeSignal, FinishStop, LoopExit
<1>5. CASE Environment
  BY <1>5 DEF Environment, GuestPrint, GuestExit, FireTimer, SigintAlone,
     CtrlC, Sigint
<1>6. CASE UNCHANGED vars
  BY <1>6 DEF vars
<1> QED
  BY <1>1, <1>2, <1>3, <1>4, <1>5, <1>6 DEF Next, Main

LEMMA NextStop == TypeInv /\ StopInv /\ [Next]_vars => StopInv'
<1> SUFFICES ASSUME TypeInv, StopInv, [Next]_vars PROVE StopInv'
  OBVIOUS
<1>0. \A w \in Worker : Handled(w) => Handled(w)'
  BY HandledStable DEF TypeInv
<1> USE <1>0 DEF StopInv, mainVars, Selecting, BeginStop
<1>1. ASSUME NEW v \in Worker, Goroutine(v) PROVE StopInv'
  BY <1>1 DEF Goroutine, Unpause, UnpauseFails, ScanStartJson, ScanReport,
     ScanTail, ScanEof, ScanNilConsole
<1>2. ASSUME NEW v \in Worker, RecvReport(v) \/ RecvDone(v) PROVE StopInv'
  BY <1>2 DEF RecvReport, RecvDone
<1>3. ASSUME NEW v \in Worker, StopOne(v) PROVE StopInv'
  <2>1. Handled(v)'
    BY <1>3 DEF StopOne, Shutdown, Handled, DomainAlive, TypeInv, TypeOK
  <2> QED
    BY <1>3, <2>1 DEF StopOne
<1>4. CASE TakeTimeout \/ TakeSignal \/ FinishStop \/ LoopExit
  BY <1>4 DEF TakeTimeout, TakeSignal, FinishStop, LoopExit
<1>5. CASE Environment
  BY <1>5 DEF Environment, GuestPrint, GuestExit, FireTimer, SigintAlone,
     CtrlC, Sigint
<1>6. CASE UNCHANGED vars
  BY <1>6 DEF vars
<1> QED
  BY <1>1, <1>2, <1>3, <1>4, <1>5, <1>6 DEF Next, Main

LEMMA StopInvariant == Spec => []StopInv
<1>1. Init => StopInv
  BY DEF Init, StopInv
<1> QED
  BY <1>1, TypeInvariant, NextStop, PTL DEF Spec

\* However Run returns, every guest was shut down or its xl destroy failed.
THEOREM GuestsHandled == Spec => []NoGuestLeftBehind
<1>1. ControlInv /\ StopInv => NoGuestLeftBehind
  BY DEF ControlInv, StopInv, Handled, NoGuestLeftBehind
<1> QED
  BY <1>1, ControlInvariant, StopInvariant, PTL

-----------------------------------------------------------------------------
(***************************************************************************)
(* From the console to Results.Raw.  Until the stop, what main has of a    *)
(* worker is all its goroutine parsed, but for the report it is sending.   *)
(***************************************************************************)
Whole(w) == IF scanned[w] = 0 THEN 0 ELSE scanned[w] - 1
Torn(w)  == tail[w] = "read" /\ scanned[w] > 0
Parsed(w) == IF Torn(w) THEN Whole(w) + 1 ELSE Whole(w)

\* The lines of the console: only a dead guest or a dead console leaves an
\* unfinished one, and it is read last.
LinesInv(w) ==
  /\ gor[w] = "unpause" => scanned[w] = 0 /\ tail[w] # "read"
  /\ gor[w] \in {"send", "scan", "done", "exited"} => dom[w] \notin {"none", "paused"}
  /\ tail[w] # "none" => dom[w] \in {"exited", "destroyed"} \/ cut[w]
  /\ tail[w] = "read" => scanned[w] = printed[w]
  /\ ~stopped /\ mainPc = "select" => dom[w] # "destroyed"

\* The report being sent is the last one parsed.
SendInv(w) ==
  gor[w] = "send" =>
    /\ scanned[w] > 0
    /\ out[w].n = IF Torn(w) THEN 0 ELSE Whole(w)
    /\ ~Torn(w) => Whole(w) > 0
    /\ ~out[w].cpu => ~DomainAlive(w)

CollectedInv(w) ==
  /\ Len(raw[w]) = IF gor[w] = "send" THEN Parsed(w) - 1 ELSE Parsed(w)
  /\ \A k \in 1 .. Len(raw[w]) :
       \/ k <= Whole(w) /\ raw[w][k].n = k
       \/ k = Whole(w) + 1 /\ raw[w][k].n = 0 /\ Torn(w)

RawGood(w) ==
  \A k \in 1 .. Len(raw[w]) :
    /\ \/ raw[w][k].n = k
       \/ raw[w][k].n = 0 /\ k = Len(raw[w]) /\ (dom[w] = "exited" \/ cut[w])
    /\ ~raw[w][k].cpu => dom[w] = "exited"

WorkerInv(w) ==
  /\ LinesInv(w)
  /\ SendInv(w)
  /\ ~stopped => CollectedInv(w)
  /\ RawGood(w)

RawInv == \A w \in Worker : WorkerInv(w)

LEMMA InitRaw == Init => RawInv
BY DEF Init, RawInv, WorkerInv, LinesInv, SendInv, CollectedInv, RawGood,
   Whole, Torn, Parsed

\* A step that leaves a worker and its guest alone, and does not go back from
\* stopped to not stopped, preserves its part of the invariant.
LEMMA FrameRaw ==
  ASSUME NEW w \in Worker, WorkerInv(w),
         gor'[w] = gor[w], out'[w] = out[w], scanned'[w] = scanned[w],
         dom'[w] = dom[w], printed'[w] = printed[w], tail'[w] = tail[w],
         cut[w] => cut'[w], raw'[w] = raw[w], stopped => stopped',
         ~stopped' /\ mainPc' = "select" => ~stopped /\ mainPc = "select"
  PROVE  WorkerInv(w)'
BY DEF WorkerInv, LinesInv, SendInv, CollectedInv, RawGood, Whole, Torn, Parsed, DomainAlive

\* The steps of a worker's goroutine.
LEMMA GoroutineRaw ==
  ASSUME TypeOK, NEW w \in Worker, WorkerInv(w), Goroutine(w)
  PROVE  WorkerInv(w)'
<1> USE DEF TypeOK, Report, NoReport, WorkerInv, LinesInv, SendInv, CollectedInv,
            RawGood, Whole, Torn, Parsed, DomainAlive, Goto, mainVars, envVars,
            gorVars, guestVars, AllScanned, JsonStarted
<1>1. CASE Unpause(w)
  BY <1>1 DEF Unpause, CanUnpause
<1>2. CASE UnpauseFails(w)
  BY <1>2 DEF UnpauseFails
<1>3. CASE ScanStartJson(w)
  BY <1>3 DEF ScanStartJson
<1>4. CASE ScanReport(w)
  <2>1. /\ scanned[w] # printed[w] /\ scanned[w] > 0 /\ gor[w] = "scan"
        /\ scanned'[w] = scanned[w] + 1 /\ gor'[w] = "send"
        /\ out'[w].n = scanned[w] /\ (~out'[w].cpu => ~DomainAlive(w))
        /\ UNCHANGED <<printed, tail, cut, dom, raw, stopped, mainPc>>
    BY <1>4 DEF ScanReport
  <2>2. scanned[w] \in Nat /\ tail[w] # "read"
    BY <2>1
  <2> HIDE DEF TypeOK, Report, NoReport
  <2>3. /\ Whole(w) = scanned[w] - 1 /\ Whole(w)' = scanned[w]
        /\ ~Torn(w) /\ ~Torn(w)'
    BY <2>1, <2>2
  <2>4. LinesInv(w)' /\ SendInv(w)' /\ RawGood(w)'
    BY <2>1, <2>2, <2>3
  <2>5. ~stopped' => CollectedInv(w)'
    BY <2>1, <2>2, <2>3
  <2> QED
    BY <2>4, <2>5
<1>5. CASE ScanTail(w)
  <2>1. /\ scanned[w] = printed[w] /\ gor[w] = "scan" /\ tail[w] = "unread"
        /\ tail'[w] = "read"
        /\ UNCHANGED <<scanned, printed, dom, cut, raw, stopped, mainPc>>
    BY <1>5 DEF ScanTail
  <2>2. CASE scanned[w] > 0
    <3>1. gor'[w] = "send" /\ out'[w] = [n |-> 0, cpu |-> DomainAlive(w)]
      BY <1>5, <2>2 DEF ScanTail
    <3> QED
      BY <2>1, <2>2, <3>1
  <2>3. CASE scanned[w] = 0
    <3>1. gor'[w] = "scan" /\ out'[w] = out[w]
      BY <1>5, <2>3 DEF ScanTail
    <3> QED
      BY <2>1, <2>3, <3>1
  <2> QED
    BY <2>2, <2>3
<1>6. CASE ScanEof(w)
  BY <1>6 DEF ScanEof
<1>7. CASE ScanNilConsole(w)
  BY <1>7 DEF ScanNilConsole
<1> QED
  BY <1>1, <1>2, <1>3, <1>4, <1>5, <1>6, <1>7 DEF Goroutine

\* Main takes the report: it becomes the next entry, or is dropped.
LEMMA RecvReportRaw ==
  ASSUME TypeOK, NEW w \in Worker, WorkerInv(w), RecvReport(w)
  PROVE  WorkerInv(w)'
<1>1. /\ gor[w] = "send" /\ gor'[w] = "scan" /\ mainPc = "select"
      /\ raw' = IF stopped THEN raw ELSE [raw EXCEPT ![w] = Append(@, out[w])]
      /\ UNCHANGED <<mainPc, stopped, scanned, printed, dom, tail, cut>>
  BY DEF RecvReport, Selecting, Goto, mainVars, guestVars, TypeOK
<1>2. scanned[w] \in Nat /\ raw[w] \in Seq(Report) /\ out[w] \in Report
  BY DEF TypeOK
<1>3. LinesInv(w)' /\ SendInv(w)'
  BY <1>1 DEF WorkerInv, LinesInv, SendInv
<1>4. CASE stopped
  BY <1>1, <1>3, <1>4 DEF WorkerInv, RawGood
<1>5. CASE ~stopped
  <2>1. raw'[w] = Append(raw[w], out[w])
    BY <1>1, <1>5 DEF TypeOK
  <2>2. /\ Len(raw[w]) \in Nat /\ Len(raw'[w]) = Len(raw[w]) + 1
        /\ raw'[w][Len(raw[w]) + 1] = out[w]
        /\ \A k \in 1 .. Len(raw[w]) : raw'[w][k] = raw[w][k]
    BY <2>1, <1>2
  <2>3. Len(raw[w]) + 1 = Parsed(w) /\ Parsed(w)' = Parsed(w)
        /\ Whole(w)' = Whole(w) /\ Torn(w)' = Torn(w)
    BY <1>1, <1>2, <1>5, <2>2 DEF WorkerInv, CollectedInv, SendInv, Parsed, Whole, Torn
  <2>4. \A k \in 1 .. Len(raw[w]) : raw[w][k].n = k
    BY <1>1, <1>2, <1>5, <2>2, <2>3 DEF WorkerInv, CollectedInv, SendInv, Parsed, Whole, Torn
  <2>5. /\ Torn(w) => out[w].n = 0
        /\ ~Torn(w) => out[w].n = Parsed(w)
        /\ Parsed(w) = IF Torn(w) THEN Whole(w) + 1 ELSE Whole(w)
    BY <1>1 DEF WorkerInv, SendInv, Parsed
  <2>6. CollectedInv(w)'
    <3> SUFFICES ASSUME NEW k \in 1 .. Len(raw'[w])
                 PROVE  \/ k <= Whole(w) /\ raw'[w][k].n = k
                        \/ k = Whole(w) + 1 /\ raw'[w][k].n = 0 /\ Torn(w)
      BY <1>1, <2>2, <2>3 DEF CollectedInv
    <3>1. Whole(w) \in Nat
      BY <1>2 DEF Whole
    <3>2. CASE k = Len(raw[w]) + 1
      BY <2>2, <2>3, <2>5, <3>1, <3>2
    <3>3. CASE k # Len(raw[w]) + 1
      <4>1. k \in 1 .. Len(raw[w])
        BY <2>2, <3>3
      <4>2. Len(raw[w]) <= Whole(w)
        BY <2>2, <2>3, <2>5, <3>1
      <4> QED
        BY <2>2, <2>4, <3>1, <4>1, <4>2
    <3> QED
      BY <3>2, <3>3
  <2>7. RawGood(w)'
    <3>1. dom[w] \in {"running", "exited"} /\ (Torn(w) => dom[w] = "exited" \/ cut[w])
      BY <1>1, <1>5 DEF WorkerInv, LinesInv, Torn, TypeOK
    <3>2. ~out[w].cpu => dom[w] = "exited"
      BY <1>1, <3>1 DEF WorkerInv, SendInv, DomainAlive
    <3>3. \A k \in 1 .. Len(raw[w]) : ~raw[w][k].cpu => dom[w] = "exited"
      BY DEF WorkerInv, RawGood
    <3>4. \/ out[w].n = Len(raw[w]) + 1
          \/ out[w].n = 0 /\ (dom[w] = "exited" \/ cut[w])
      BY <2>3, <2>5, <3>1
    <3> SUFFICES ASSUME NEW k \in 1 .. Len(raw'[w])
                 PROVE  /\ \/ raw'[w][k].n = k
                           \/ /\ raw'[w][k].n = 0 /\ k = Len(raw'[w])
                              /\ dom[w] = "exited" \/ cut[w]
                        /\ ~raw'[w][k].cpu => dom[w] = "exited"
      BY <1>1 DEF RawGood
    <3>5. CASE k = Len(raw[w]) + 1
      BY <2>2, <3>2, <3>4, <3>5
    <3>6. CASE k # Len(raw[w]) + 1
      <4>1. k \in 1 .. Len(raw[w])
        BY <2>2, <3>6
      <4> QED
        BY <2>2, <2>4, <3>3, <4>1
    <3> QED
      BY <3>5, <3>6
  <2> QED
    BY <1>1, <1>3, <2>6, <2>7 DEF WorkerInv
<1> QED
  BY <1>4, <1>5

LEMMA NextRaw == TypeInv /\ ControlInv /\ RawInv /\ [Next]_vars => RawInv'
<1> SUFFICES ASSUME TypeOK, ControlInv, RawInv, [Next]_vars, NEW v \in Worker
             PROVE  WorkerInv(v)'
  BY DEF RawInv, TypeInv
<1>0. WorkerInv(v)
  BY DEF RawInv
<1> USE DEF mainVars, envVars, gorVars, guestVars, Selecting, BeginStop, Goto
<1>1. ASSUME NEW w \in Worker, Goroutine(w) PROVE WorkerInv(v)'
  <2>1. CASE v = w
    BY <1>0, <1>1, <2>1, GoroutineRaw
  <2>2. CASE v # w
    <3>1. /\ gor'[v] = gor[v] /\ out'[v] = out[v] /\ scanned'[v] = scanned[v]
          /\ dom'[v] = dom[v] /\ printed'[v] = printed[v] /\ tail'[v] = tail[v]
          /\ cut'[v] = cut[v] /\ raw'[v] = raw[v]
      BY <1>1, <2>2 DEF TypeOK, Goroutine, Unpause, UnpauseFails, ScanStartJson,
         ScanReport, ScanTail, ScanEof, ScanNilConsole
    <3>2. stopped' = stopped /\ (mainPc' = mainPc \/ mainPc' = "panicked")
      BY <1>1 DEF Goroutine, Unpause, UnpauseFails, ScanStartJson,
         ScanReport, ScanTail, ScanEof, ScanNilConsole
    <3> QED
      BY <1>0, <3>1, <3>2, FrameRaw
  <2> QED
    BY <2>1, <2>2
<1>2. ASSUME NEW w \in Worker, RecvReport(w) PROVE WorkerInv(v)'
  <2>1. CASE v = w
    BY <1>0, <1>2, <2>1, RecvReportRaw
  <2>2. CASE v # w
    BY <1>0, <1>2, <2>2, FrameRaw DEF RecvReport, TypeOK
  <2> QED
    BY <2>1, <2>2
<1>3. ASSUME NEW w \in Worker, RecvDone(w) PROVE WorkerInv(v)'
  <2>1. CASE v = w
    <3>1. /\ gor[w] = "done" /\ gor'[w] = "exited"
          /\ stopped' = stopped /\ mainPc = "select"
          /\ UNCHANGED <<raw, out, scanned, dom, printed, tail, cut>>
      BY <1>3 DEF RecvDone, TypeOK
    <3> QED
      BY <1>0, <2>1, <3>1 DEF WorkerInv, LinesInv, SendInv, CollectedInv, RawGood,
         Whole, Torn, Parsed, DomainAlive
  <2>2. CASE v # w
    BY <1>0, <1>3, <2>2, FrameRaw DEF RecvDone, TypeOK
  <2> QED
    BY <2>1, <2>2
<1>4. ASSUME NEW w \in Worker, StopOne(w) PROVE WorkerInv(v)'
  <2>1. mainPc = "stopping" /\ mainPc' = "stopping" /\ stopped' = stopped
        /\ UNCHANGED <<raw, gor, out, scanned, printed, cut>>
    BY <1>4 DEF StopOne
  <2>2. ~stopped
    BY <2>1 DEF ControlInv
  <2>3. CASE dom'[v] = dom[v] /\ tail'[v] = tail[v]
    BY <1>0, <2>1, <2>3, FrameRaw
  <2>4. CASE /\ dom[v] \in {"paused", "running"} /\ dom'[v] = "destroyed"
             /\ tail'[v] \in {tail[v], "unread"}
             /\ tail'[v] = tail[v] \/ tail[v] # "read"
    BY <1>0, <2>1, <2>4 DEF WorkerInv, LinesInv, SendInv, CollectedInv, RawGood,
       Whole, Torn, Parsed, DomainAlive
  <2> QED
    BY <1>0, <1>4, <2>3, <2>4 DEF StopOne, Shutdown, DomainAlive, TypeOK, TornLine,
       WorkerInv, LinesInv
<1>5. CASE TakeTimeout \/ TakeSignal \/ FinishStop \/ LoopExit
  BY <1>0, <1>5, FrameRaw DEF TakeTimeout, TakeSignal, FinishStop, LoopExit
<1>6. ASSUME NEW w \in Worker, GuestPrint(w) PROVE WorkerInv(v)'
  BY <1>0, <1>6 DEF GuestPrint, WorkerInv, LinesInv, SendInv, CollectedInv,
     RawGood, Whole, Torn, Parsed, DomainAlive, TypeOK
<1>7. ASSUME NEW w \in Worker, GuestExit(w) PROVE WorkerInv(v)'
  BY <1>0, <1>7 DEF GuestExit, TornLine, WorkerInv, LinesInv, SendInv, CollectedInv,
     RawGood, Whole, Torn, Parsed, DomainAlive, TypeOK
<1>8. CASE FireTimer \/ SigintAlone \/ UNCHANGED vars
  BY <1>0, <1>8, FrameRaw DEF FireTimer, SigintAlone, Sigint, vars
<1>9. CASE CtrlC
  <2>1. /\ UNCHANGED <<mainPc, stopped, raw, gor, out, scanned, dom>>
        /\ cut'[v] = TRUE /\ <<printed'[v], tail'[v]>> \in PassedOn(v)
    BY <1>9 DEF CtrlC
  <2>2. CASE cut[v] \/ tail[v] = "read"
    <3>1. printed'[v] = printed[v] /\ tail'[v] = tail[v]
      BY <2>1, <2>2 DEF PassedOn
    <3> QED
      BY <1>0, <2>1, <3>1, FrameRaw
  <2>3. CASE tail[v] # "read" /\ ~cut[v]
    <3>1. tail'[v] \in {"none", "unread"}
      BY <2>1, <2>3 DEF PassedOn
    <3> QED
      BY <1>0, <2>1, <2>3, <3>1 DEF WorkerInv, LinesInv, SendInv, CollectedInv,
         RawGood, Whole, Torn, Parsed, DomainAlive
  <2> QED
    BY <2>2, <2>3
<1> QED
  BY <1>1, <1>2, <1>3, <1>4, <1>5, <1>6, <1>7, <1>8, <1>9 DEF Next, Main, Environment

LEMMA RawInvariant == Spec => []RawInv
BY TypeInvariant, ControlInvariant, InitRaw, NextRaw, PTL DEF Spec

\* Each worker's reports are recorded in order, none lost, none twice.
THEOREM RawInOrder == Spec => []RawIsAPrefix
<1>1. RawInv => RawIsAPrefix
  BY DEF RawInv, WorkerInv, RawGood, RawIsAPrefix
<1> QED
  BY <1>1, RawInvariant, PTL

\* No recorded report lost its Cputime to a shutdown.
THEOREM CputimeKept == Spec => []CputimeLostOnlyByExit
<1>1. RawInv => CputimeLostOnlyByExit
  BY DEF RawInv, WorkerInv, RawGood, CputimeLostOnlyByExit
<1> QED
  BY <1>1, RawInvariant, PTL

-----------------------------------------------------------------------------
(* Run implements its contract.                                            *)

LEMMA InitContract == Init => Contract!Init
BY DEF Init, Contract!Init, Phase

LEMMA StepContract ==
  TypeInv /\ ControlInv /\ RawInv /\ [Next]_vars => [Contract!Next]_(Contract!vars)
<1> SUFFICES ASSUME TypeOK, ControlInv, RawInv, Next
             PROVE  Contract!Next \/ UNCHANGED Contract!vars
  BY DEF vars, mainVars, Phase, Contract!vars, TypeInv
<1>0. Cardinality(Worker) = 0 <=> Worker = {}
  BY WorkerAssumption, FS_EmptySet
<1> USE DEF mainVars, Selecting, Phase, Contract!vars
<1>1. ASSUME NEW w \in Worker, Goroutine(w)
      PROVE  Contract!Abort \/ UNCHANGED Contract!vars
  <2>1. CASE ScanNilConsole(w)
    <3>1. Phase' = "aborted" /\ Phase \in {"collecting", "stopped", "returned"}
      BY <2>1 DEF ScanNilConsole, Up, TypeOK
    <3> QED
      BY <2>1, <3>1 DEF ScanNilConsole, Contract!Abort
  <2>2. CASE ~ScanNilConsole(w)
    BY <1>1, <2>2 DEF Goroutine, Unpause, UnpauseFails, ScanStartJson,
       ScanReport, ScanTail, ScanEof
  <2> QED
    BY <2>1, <2>2
<1>2. ASSUME NEW w \in Worker, RecvReport(w)
      PROVE  Contract!Collect(w) \/ UNCHANGED Contract!vars
  <2>1. CASE stopped
    BY <1>2, <2>1 DEF RecvReport
  <2>2. CASE ~stopped
    <3>1. /\ gor[w] = "send" /\ mainPc = "select"
          /\ UNCHANGED <<mainPc, stopped, err, completed>>
          /\ raw' = [raw EXCEPT ![w] = Append(@, out[w])]
      BY <1>2, <2>2 DEF RecvReport
    <3>2. WorkerInv(w) /\ scanned[w] \in Nat /\ out[w] \in Report
      BY DEF RawInv, TypeOK
    <3>3. Contract!Open(w) /\ out[w].n \in {0, Len(raw[w]) + 1}
      <4>1. Len(raw[w]) \in Nat /\ Whole(w) \in Nat
        BY <3>2 DEF TypeOK, Whole
      <4>2. Len(raw[w]) + 1 = IF Torn(w) THEN Whole(w) + 1 ELSE Whole(w)
        BY <2>2, <3>1, <3>2, <4>1 DEF WorkerInv, CollectedInv, Parsed
      <4>3. out[w].n \in {0, Len(raw[w]) + 1}
        BY <3>1, <3>2, <4>2 DEF WorkerInv, SendInv
      <4>4. ASSUME NEW k \in 1 .. Len(raw[w]) PROVE raw[w][k].n # 0
        BY <2>2, <3>2, <4>1, <4>2 DEF WorkerInv, CollectedInv
      <4> QED
        BY <4>3, <4>4 DEF Contract!Open
    <3>4. out[w] = [n |-> out[w].n, cpu |-> out[w].cpu] /\ out[w].cpu \in BOOLEAN
      BY <3>2 DEF Report
    <3> QED
      BY <2>2, <3>1, <3>3, <3>4 DEF Contract!Collect
  <2> QED
    BY <2>1, <2>2
<1>3. ASSUME NEW w \in Worker, RecvDone(w) \/ StopOne(w)
      PROVE  UNCHANGED Contract!vars
  BY <1>3 DEF RecvDone, StopOne, BeginStop
<1>4. CASE TakeTimeout \/ TakeSignal
  BY <1>4 DEF TakeTimeout, TakeSignal, BeginStop, Contract!Next, Contract!Return
<1>5. CASE FinishStop
  <2>1. Worker # {} /\ ~stopped /\ why \in {"early", "timeout", "signal"}
        /\ err = "nil" /\ ~completed
    BY <1>5 DEF FinishStop, ControlInv, TypeOK
  <2>2. Phase = "collecting" /\ Phase' = "stopped" /\ UNCHANGED raw
    BY <1>5, <2>1 DEF FinishStop
  <2>3. [err |-> err', completed |-> completed'] \in Contract!Verdicts
    BY <1>5, <2>1 DEF FinishStop, ErrorOf, Completes, Contract!Verdicts, TypeOK
  <2> QED
    BY <2>1, <2>2, <2>3 DEF Contract!Next, Contract!Stop
<1>6. CASE LoopExit
  BY <1>6, <1>0 DEF LoopExit, ControlInv, Contract!Next, Contract!Return
<1>7. CASE Environment
  BY <1>7 DEF Environment, GuestPrint, GuestExit, FireTimer, SigintAlone,
     CtrlC, Sigint
<1> QED
  BY <1>1, <1>2, <1>3, <1>4, <1>5, <1>6, <1>7 DEF Next, Main, Contract!Next

\* BenchmarkRun.Run, with its goroutines, guests and signals, implements the
\* abstract run of RunContract.
THEOREM RunImplementsContract == Spec => ImplementsContract
BY InitContract, StepContract, TypeInvariant, ControlInvariant, RawInvariant, PTL
   DEF Spec, ImplementsContract, Contract!Spec

-----------------------------------------------------------------------------
(***************************************************************************)
(* Towards the end of a stopped run: what liveness rests on.  If every     *)
(* console has ended and no worker went silent (Drained), there is always  *)
(* a step to take, and every step but a ^C comes nearer to the end.        *)
(***************************************************************************)
Ended == mainPc \in {"returned", "panicked"}

\* The guards of Goroutine(w), of RecvReport(w) or RecvDone(w), and of LoopExit.
GoroutineCanMove(w) ==
  /\ Up
  /\ \/ gor[w] = "unpause"
     \/ /\ gor[w] = "scan" /\ setup[w] = "ok"
        /\ ~AllScanned(w) \/ tail[w] = "unread" \/ ~DomainAlive(w) \/ cut[w]
     \/ gor[w] = "scan" /\ setup[w] \in {"noconsole", "deadconsole"}
CanReceive(w) == Selecting /\ gor[w] \in {"send", "done"}
CanMove ==
  \/ \E w \in Worker : GoroutineCanMove(w) \/ CanReceive(w)
  \/ mainPc = "select" /\ left = 0

\* What is to be done until main has counted worker w: each line is read and
\* sent, then done.  And what the timer has to do.
ToDo(w) ==
  IF gor[w] = "exited" THEN 0 ELSE IF gor[w] = "done" THEN 1
  ELSE 2 + 2 * (printed[w] - scanned[w])
         + (IF tail[w] = "unread" THEN 2 ELSE 0) + (IF gor[w] = "send" THEN 1 ELSE 0)
TimerToDo == IF timer = "armed" THEN 2 ELSE IF timer = "fired" THEN 1 ELSE 0

\* A step of the user or of a guest adds nothing, one of the program takes away.
Nearer ==
  /\ Drained'
  /\ \A w \in Worker : ToDo(w) \in Nat /\ ToDo(w)' <= ToDo(w)
  /\ TimerToDo' <= TimerToDo
  /\ Main \/ (\E w \in Worker : Goroutine(w)) \/ FireTimer =>
       \/ Ended'
       \/ TimerToDo' < TimerToDo
       \/ \E w \in Worker : ToDo(w)' < ToDo(w)

NeverStuck  == stopped /\ Drained => Ended \/ CanMove
ComesNearer == [][stopped /\ Drained => Nearer]_vars


\* What Worker.Init left behind, against the goroutine and its guest; and no
\* goroutine reads more lines than there are.
SetupInv ==
  \A w \in Worker :
    /\ setup[w] = "nodomain" => dom[w] = "none"
    /\ setup[w] = "nodomid" => gor[w] \in {"unpause", "silent"}
    /\ scanned[w] <= printed[w]

LEMMA NextSetup == TypeOK /\ SetupInv /\ [Next]_vars => SetupInv'
<1> SUFFICES ASSUME TypeOK, SetupInv, [Next]_vars PROVE SetupInv'
  OBVIOUS
<1> USE DEF SetupInv, TypeOK, mainVars, envVars, gorVars, guestVars, Goto
<1>1. ASSUME NEW w \in Worker, Goroutine(w) PROVE SetupInv'
  <2>1. CASE Unpause(w)
    BY <2>1 DEF Unpause, CanUnpause
  <2>2. CASE UnpauseFails(w)
    BY <2>2 DEF UnpauseFails
  <2>3. CASE ScanStartJson(w)
    BY <2>3 DEF ScanStartJson, AllScanned, JsonStarted
  <2>4. CASE ScanReport(w)
    BY <2>4 DEF ScanReport, AllScanned, JsonStarted
  <2>5. CASE ScanTail(w) \/ ScanEof(w) \/ ScanNilConsole(w)
    BY <2>5 DEF ScanTail, ScanEof, ScanNilConsole
  <2> QED
    BY <1>1, <2>1, <2>2, <2>3, <2>4, <2>5 DEF Goroutine
<1>2. ASSUME NEW w \in Worker, RecvReport(w) \/ RecvDone(w) PROVE SetupInv'
  <2>1. gor[w] \in {"send", "done"} /\ UNCHANGED <<setup, scanned, dom, printed>>
        /\ \E pc \in {"scan", "exited"} : gor' = [gor EXCEPT ![w] = pc]
    BY <1>2 DEF RecvReport, RecvDone
  <2> QED
    BY <2>1
<1>3. ASSUME NEW w \in Worker, StopOne(w) PROVE SetupInv'
  BY <1>3 DEF StopOne, Shutdown, DomainAlive
<1>4. CASE TakeTimeout \/ TakeSignal \/ FinishStop \/ LoopExit
  BY <1>4 DEF TakeTimeout, TakeSignal, FinishStop, LoopExit
<1>5. ASSUME NEW w \in Worker, GuestPrint(w) \/ GuestExit(w) PROVE SetupInv'
  <2>1. CASE GuestPrint(w)
    BY <2>1 DEF GuestPrint
  <2>2. CASE GuestExit(w)
    <3>1. dom[w] = "running" /\ dom' = [dom EXCEPT ![w] = "exited"]
          /\ UNCHANGED <<gor, setup, scanned, printed>>
      BY <2>2 DEF GuestExit
    <3> QED
      BY <3>1
  <2> QED
    BY <1>5, <2>1, <2>2
<1>6. CASE FireTimer \/ SigintAlone \/ UNCHANGED vars
  BY <1>6 DEF FireTimer, SigintAlone, Sigint, vars
<1>7. CASE CtrlC
  <2>1. UNCHANGED <<gor, setup, dom, scanned>>
    BY <1>7 DEF CtrlC
  <2>2. ASSUME NEW w \in Worker PROVE scanned[w] <= printed'[w]
    <3>1. <<printed'[w], tail'[w]>> \in PassedOn(w)
      BY <1>7 DEF CtrlC
    <3>2. printed'[w] = printed[w] \/ printed'[w] \in scanned[w] .. printed[w]
      BY <3>1 DEF PassedOn
    <3> QED
      BY <3>2
  <2> QED
    BY <2>1, <2>2
<1> QED
  BY <1>1, <1>2, <1>3, <1>4, <1>5, <1>6, <1>7 DEF Next, Main, Environment

LEMMA SetupInvariant == Spec => []SetupInv
<1>1. Init => SetupInv
  BY DEF Init, SetupInv
<1>2. TypeInv => TypeOK
  BY DEF TypeInv
<1> QED
  BY <1>1, <1>2, NextSetup, TypeInvariant, PTL DEF Spec

\* Of a stopped run whose consoles have ended Run has returned, or some goroutine,
\* a receive or the end of the loop can go on: the channels of run.go and
\* xenworker.go never have everyone waiting on everyone.
THEOREM StoppedNeverStuck == Spec => []NeverStuck
<1>1. TypeInv /\ ControlInv /\ LeftCountsWorkers /\ RawInv /\ SetupInv => NeverStuck
  <2> SUFFICES ASSUME TypeOK, ControlInv, LeftCountsWorkers, RawInv, SetupInv,
                      stopped, Drained, ~Ended, left # 0
               PROVE  CanMove
    BY DEF NeverStuck, TypeInv, CanMove, ControlInv, TypeOK, Ended
  <2>1. mainPc = "select" /\ left > 0
    BY DEF ControlInv, TypeOK, Ended
  <2>2. PICK w \in Worker : gor[w] # "exited"
    <3>1. left = Cardinality(Remaining)
      BY <2>1, WorkerAssumption, FS_Subset, FS_CardinalityType
         DEF LeftCountsWorkers, Up, Remaining
    <3>2. Remaining # {}
      BY <2>1, <3>1, FS_EmptySet
    <3> QED
      BY <3>2 DEF Remaining
  <2>3. CASE gor[w] \in {"send", "done"}
    BY <2>1, <2>3 DEF CanMove, CanReceive, Selecting
  <2>4. CASE gor[w] = "scan"
    <3>1. dom[w] # "none" /\ setup[w] \notin {"nodomain", "nodomid"}
      BY <2>4 DEF RawInv, WorkerInv, LinesInv, SetupInv
    <3>2. setup[w] \in {"ok", "noconsole", "deadconsole"}
      BY <3>1 DEF TypeOK, Setup
    <3> QED
      BY <2>1, <2>4, <3>2 DEF CanMove, GoroutineCanMove, Drained, Up
  <2> QED
    BY <2>2, <2>3, <2>4 DEF Drained, TypeOK
<1> QED
  BY <1>1, TypeInvariant, ControlInvariant, CountCorrect, RawInvariant,
     SetupInvariant, PTL

LEMMA ToDoType ==
  ASSUME TypeOK, SetupInv, NEW w \in Worker
  PROVE  ToDo(w) \in Nat
<1>1. scanned[w] \in Nat /\ printed[w] \in Nat /\ printed[w] - scanned[w] \in Nat
  BY DEF TypeOK, SetupInv
<1> QED
  BY <1>1 DEF ToDo

\* A step of a goroutine has one line less to read, or one to send, or is done.
LEMMA GoroutineNearer ==
  ASSUME TypeOK, SetupInv, Drained, NEW w \in Worker, Goroutine(w)
  PROVE  Drained' /\ ((Ended' /\ UNCHANGED <<gorVars, guestVars>>) \/ ToDo(w)' < ToDo(w))
<1>1. /\ scanned[w] \in Nat /\ printed[w] \in Nat /\ scanned[w] <= printed[w]
      /\ gor[w] \notin {"unpause", "silent"}
  BY DEF TypeOK, SetupInv, Drained
<1>2. Drained'
  <2>1. UNCHANGED <<dom, cut>>
    BY <1>1 DEF Goroutine, Unpause, UnpauseFails, ScanStartJson, ScanReport,
       ScanTail, ScanEof, ScanNilConsole, guestVars
  <2>2. \/ gor' = gor
        \/ \E pc \in {"send", "done"} : gor' = [gor EXCEPT ![w] = pc]
    BY <1>1 DEF Goroutine, Unpause, UnpauseFails, ScanStartJson, ScanReport,
       ScanTail, ScanEof, ScanNilConsole, Goto, gorVars
  <2> QED
    BY <2>1, <2>2 DEF Drained, DomainAlive, TypeOK
<1> USE DEF TypeOK, mainVars, envVars, gorVars, guestVars, Goto, ToDo, AllScanned
<1>3. CASE Unpause(w) \/ UnpauseFails(w)
  BY <1>1, <1>3 DEF Unpause, UnpauseFails
<1>4. CASE ScanStartJson(w)
  <2>1. /\ gor[w] = "scan" /\ gor' = gor /\ tail' = tail /\ printed' = printed
        /\ scanned[w] = 0 /\ scanned'[w] = 1
    BY <1>4 DEF ScanStartJson, JsonStarted
  <2> QED
    BY <1>1, <1>2, <2>1
<1>5. CASE ScanReport(w)
  <2>1. /\ gor[w] = "scan" /\ gor'[w] = "send" /\ tail' = tail /\ printed' = printed
        /\ scanned'[w] = scanned[w] + 1
    BY <1>5 DEF ScanReport
  <2> QED
    BY <1>1, <1>2, <2>1
<1>6. CASE ScanTail(w)
  <2>1. /\ gor[w] = "scan" /\ gor'[w] \in {"scan", "send"}
        /\ tail[w] = "unread" /\ tail'[w] = "read"
        /\ UNCHANGED <<scanned, printed>>
    BY <1>6 DEF ScanTail
  <2> QED
    BY <1>1, <1>2, <2>1
<1>7. CASE ScanEof(w)
  <2>1. gor[w] = "scan" /\ gor'[w] = "done" /\ UNCHANGED <<scanned, printed, tail>>
    BY <1>7 DEF ScanEof
  <2> QED
    BY <1>1, <1>2, <2>1
<1>8. CASE ScanNilConsole(w)
  BY <1>2, <1>8 DEF ScanNilConsole, Ended
<1> QED
  BY <1>3, <1>4, <1>5, <1>6, <1>7, <1>8 DEF Goroutine

\* Main takes something off what is to be done; it cannot be shutting down.
LEMMA MainNearer ==
  ASSUME TypeOK, ControlInv, SetupInv, stopped, Drained, Main
  PROVE  Nearer
<1> USE DEF TypeOK, mainVars, envVars, gorVars, guestVars, Goto
<1>1. ASSUME NEW w \in Worker, RecvReport(w) \/ RecvDone(w) PROVE Nearer
  <2>1. /\ UNCHANGED <<scanned, printed, tail, dom, cut, timer>>
        /\ \/ gor[w] = "send" /\ gor' = [gor EXCEPT ![w] = "scan"]
           \/ gor[w] = "done" /\ gor' = [gor EXCEPT ![w] = "exited"]
    BY <1>1 DEF RecvReport, RecvDone
  <2>2. Drained'
    BY <2>1 DEF Drained, DomainAlive
  <2>3. ToDo(w)' < ToDo(w)
    <3>1. scanned[w] \in Nat /\ printed[w] \in Nat /\ scanned[w] <= printed[w]
      BY DEF SetupInv
    <3> QED
      BY <2>1, <3>1 DEF ToDo
  <2>4. \A v \in Worker \ {w} : ToDo(v)' = ToDo(v)
    BY <2>1 DEF ToDo
  <2>5. \A v \in Worker : ToDo(v) \in Nat /\ (v = w \/ ToDo(v)' = ToDo(v))
    BY <2>4, ToDoType
  <2>6. \A v \in Worker : ToDo(v) \in Nat /\ ToDo(v)' <= ToDo(v)
    <3> SUFFICES ASSUME NEW v \in Worker
                 PROVE  ToDo(v) \in Nat /\ ToDo(v)' <= ToDo(v)
      OBVIOUS
    <3>1. CASE v = w
      <4>1. ToDo(w) \in Nat /\ ToDo(w)' < ToDo(w) /\ ToDo(w)' \in Int
        BY <2>1, <2>3, ToDoType DEF ToDo
      <4> QED
        BY <3>1, <4>1
    <3>2. CASE v # w
      BY <2>5, <3>2
    <3> QED
      BY <3>1, <3>2
  <2>7. TimerToDo' <= TimerToDo
    BY <2>1 DEF TimerToDo
  <2> QED
    BY <2>2, <2>3, <2>6, <2>7 DEF Nearer
<1>2. ASSUME TakeTimeout \/ TakeSignal \/ LoopExit
      PROVE  Nearer
  <2>1. UNCHANGED <<gor, scanned, printed, tail, dom, cut>>
    BY <1>2 DEF TakeTimeout, TakeSignal, LoopExit
  <2>2. \/ Ended' /\ timer' = timer
        \/ timer = "fired" /\ timer' = "taken"
    BY <1>2 DEF TakeTimeout, TakeSignal, LoopExit, Ended
  <2>3. Drained' /\ \A w \in Worker : ToDo(w)' = ToDo(w)
    BY <2>1 DEF Drained, DomainAlive, ToDo
  <2>4. TimerToDo' <= TimerToDo /\ (Ended' \/ TimerToDo' < TimerToDo)
    BY <2>2 DEF TimerToDo
  <2>5. \A w \in Worker : ToDo(w) \in Nat /\ ToDo(w)' <= ToDo(w)
    BY <2>3, ToDoType
  <2> QED
    BY <2>3, <2>4, <2>5 DEF Nearer
<1>3. ~ \E w \in Worker : StopOne(w)
  BY DEF ControlInv, StopOne
<1>4. ~ FinishStop
  BY DEF ControlInv, FinishStop
<1> QED
  BY <1>1, <1>2, <1>3, <1>4 DEF Main

\* A guest that still runs has lost its console and adds no line to read; ^C
\* takes lines away, or puts the part of one in place of a whole one.
LEMMA EnvironmentNearer ==
  ASSUME TypeOK, SetupInv, Drained, Environment
  PROVE  /\ Drained'
         /\ \A w \in Worker : ToDo(w)' <= ToDo(w)
         /\ TimerToDo' <= TimerToDo /\ (FireTimer => TimerToDo' < TimerToDo)
<1> USE DEF TypeOK, mainVars, envVars, gorVars, guestVars
<1>1. ASSUME NEW w \in Worker, GuestPrint(w) PROVE FALSE
  BY <1>1 DEF GuestPrint, Drained, DomainAlive
<1>2. ASSUME NEW w \in Worker, GuestExit(w)
      PROVE  /\ Drained' /\ UNCHANGED <<gor, scanned, printed, tail>>
             /\ UNCHANGED timer /\ ~FireTimer
  <2>1. cut[w] /\ tail' = tail /\ dom' = [dom EXCEPT ![w] = "exited"]
    BY <1>2 DEF GuestExit, TornLine, Drained, DomainAlive
  <2>2. UNCHANGED <<gor, scanned, printed, cut, timer>>
    BY <1>2 DEF GuestExit
  <2> QED
    BY <2>1, <2>2 DEF Drained, DomainAlive, FireTimer
<1>3. CASE FireTimer \/ SigintAlone
  <2>1. /\ UNCHANGED <<gor, scanned, printed, tail, dom, cut>>
        /\ \/ timer' = timer /\ ~FireTimer
           \/ timer = "armed" /\ timer' = "fired"
    BY <1>3 DEF FireTimer, SigintAlone, Sigint
  <2>2. Drained' /\ \A w \in Worker : ToDo(w)' = ToDo(w)
    BY <2>1 DEF Drained, DomainAlive, ToDo
  <2>3. TimerToDo' <= TimerToDo /\ (FireTimer => TimerToDo' < TimerToDo)
    BY <2>1 DEF TimerToDo
  <2>4. \A w \in Worker : ToDo(w)' <= ToDo(w)
    BY <2>2, ToDoType
  <2> QED
    BY <2>2, <2>3, <2>4
<1>4. CASE CtrlC
  <2>1. /\ UNCHANGED <<gor, scanned, dom, timer>>
        /\ cut' = [w \in Worker |-> TRUE]
        /\ \A w \in Worker : <<printed'[w], tail'[w]>> \in PassedOn(w)
    BY <1>4 DEF CtrlC
  <2>2. Drained' /\ TimerToDo' = TimerToDo /\ ~FireTimer
    BY <2>1 DEF Drained, TimerToDo, FireTimer
  <2>3. ASSUME NEW w \in Worker PROVE ToDo(w)' <= ToDo(w)
    <3>1. scanned[w] \in Nat /\ printed[w] \in Nat /\ scanned[w] <= printed[w]
      BY DEF SetupInv
    <3>2. CASE cut[w] \/ tail[w] = "read"
      <4>1. printed'[w] = printed[w] /\ tail'[w] = tail[w]
        BY <2>1, <3>2 DEF PassedOn
      <4> QED
        BY <2>1, <3>1, <4>1 DEF ToDo
    <3>3. CASE ~cut[w] /\ tail[w] # "read"
      <4>1. dom[w] # "running"
        BY <3>3 DEF Drained, DomainAlive
      <4>2. /\ printed'[w] \in scanned[w] .. printed[w]
            /\ tail'[w] \in {"none", "unread"}
            /\ printed'[w] = printed[w] /\ tail'[w] = "unread" => tail[w] = "unread"
        BY <2>1, <3>3, <4>1 DEF PassedOn
      <4>3. CASE printed'[w] = printed[w]
        BY <2>1, <3>1, <4>2, <4>3 DEF ToDo
      <4>4. CASE printed'[w] # printed[w]
        <5>1. /\ printed'[w] \in Nat /\ printed'[w] + 1 <= printed[w]
              /\ scanned[w] <= printed'[w]
          BY <3>1, <4>2, <4>4
        <5>2. gor'[w] = gor[w] /\ scanned'[w] = scanned[w] /\ tail'[w] \in {"none", "unread"}
          BY <2>1, <4>2
        <5> DEFINE p == printed[w]
                   q == printed'[w]
                   s == scanned[w]
        <5>3. p \in Nat /\ q \in Nat /\ s \in Nat /\ s <= q /\ q + 1 <= p
          BY <3>1, <5>1
        <5> HIDE DEF p, q, s
        <5>4. 2 * (q - s) + 2 <= 2 * (p - s) /\ 2 * (q - s) \in Nat /\ 2 * (p - s) \in Nat
          BY <5>3
        <5>5. ToDo(w) = IF gor[w] = "exited" THEN 0 ELSE IF gor[w] = "done" THEN 1
                        ELSE 2 + 2 * (p - s) + (IF tail[w] = "unread" THEN 2 ELSE 0)
                             + (IF gor[w] = "send" THEN 1 ELSE 0)
          BY Zenon DEF ToDo, p, s
        <5>6. ToDo(w)' = IF gor[w] = "exited" THEN 0 ELSE IF gor[w] = "done" THEN 1
                         ELSE 2 + 2 * (q - s) + (IF tail'[w] = "unread" THEN 2 ELSE 0)
                              + (IF gor[w] = "send" THEN 1 ELSE 0)
          BY Zenon, <5>2 DEF ToDo, q, s
        <5> HIDE DEF TypeOK
        <5> QED
          BY <5>4, <5>5, <5>6
      <4> QED
        BY <4>3, <4>4
    <3> QED
      BY <3>2, <3>3
  <2>4. TimerToDo \in Nat
    BY DEF TimerToDo
  <2> QED
    BY <2>2, <2>3, <2>4
<1>5. ASSUME NEW w \in Worker, GuestExit(w)
      PROVE  /\ Drained' /\ \A v \in Worker : ToDo(v)' <= ToDo(v)
             /\ TimerToDo' <= TimerToDo /\ ~FireTimer
  <2>1. \A v \in Worker : ToDo(v)' = ToDo(v)
    BY <1>2, <1>5 DEF ToDo
  <2>2. TimerToDo' = TimerToDo /\ TimerToDo \in Nat
    BY <1>2, <1>5 DEF TimerToDo
  <2> QED
    BY <1>2, <1>5, <2>1, <2>2, ToDoType
<1> QED
  BY <1>1, <1>3, <1>4, <1>5 DEF Environment

\* Of a stopped run whose consoles have ended every step of the program takes
\* something off what is left to do, and no step of a guest or a user adds to
\* it: with StoppedNeverStuck, what the return of Run rests on.
THEOREM StoppedComesNearer == Spec => ComesNearer
<1>1. TypeInv /\ ControlInv /\ SetupInv /\ [Next]_vars => [stopped /\ Drained => Nearer]_vars
  <2> SUFFICES ASSUME TypeInv, TypeOK, ControlInv, SetupInv, stopped, Drained, Next
               PROVE  Nearer
    BY DEF TypeInv
  <2>0. \A w \in Worker : ToDo(w) \in Nat
    BY ToDoType
  <2>1. CASE Main
    BY <2>1, MainNearer
  <2>2. ASSUME NEW w \in Worker, Goroutine(w) PROVE Nearer
    <3>1. Drained' /\ ((Ended' /\ UNCHANGED <<gorVars, guestVars>>) \/ ToDo(w)' < ToDo(w))
      BY <2>2, GoroutineNearer
    <3>2. timer' = timer
      BY <2>2 DEF Goroutine, Unpause, UnpauseFails, ScanStartJson, ScanReport,
         ScanTail, ScanEof, ScanNilConsole, envVars
    <3>3. TimerToDo' = TimerToDo /\ TimerToDo \in Nat
      BY <3>2 DEF TimerToDo
    <3>4. \A v \in Worker \ {w} : ToDo(v)' = ToDo(v)
      BY <2>2 DEF TypeOK, Goroutine, Unpause, UnpauseFails, ScanStartJson,
         ScanReport, ScanTail, ScanEof, ScanNilConsole, Goto, ToDo, gorVars, guestVars
    <3>5. ToDo(w)' <= ToDo(w)
      <4>1. ToDo(w)' \in Int
        <5>1. scanned'[w] \in Nat /\ printed'[w] \in Nat
          BY <2>2, GoroutineTypeInv DEF TypeInv, TypeOK
        <5> QED
          BY <5>1 DEF ToDo
      <4>2. CASE ToDo(w)' < ToDo(w)
        BY <2>0, <4>1, <4>2
      <4>3. CASE UNCHANGED <<gorVars, guestVars>>
        BY <2>0, <4>3 DEF ToDo, gorVars, guestVars
      <4> QED
        BY <3>1, <4>2, <4>3
    <3>6. \A v \in Worker : ToDo(v)' <= ToDo(v)
      BY <2>0, <3>4, <3>5
    <3> QED
      BY <2>0, <3>1, <3>3, <3>6 DEF Nearer
  <2>3. ASSUME Environment, ~Main, ~ \E w \in Worker : Goroutine(w)
        PROVE  Nearer
    BY <2>0, <2>3, EnvironmentNearer DEF Nearer
  <2> QED
    BY <2>1, <2>2, <2>3 DEF Next
<1> QED
  BY <1>1, TypeInvariant, ControlInvariant, SetupInvariant, PTL DEF Spec, ComesNearer
=============================================================================
