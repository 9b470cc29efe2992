---------------------------- MODULE RunContract ----------------------------
(***************************************************************************)
(* What BenchmarkRun.Run promises its caller, plan.Run, without channels,  *)
(* goroutines or guests.  A run collects reports; then it stops, once, for *)
(* a reason that settles its verdict; then it returns, or never does.      *)
(* From the stop on, neither the results nor the verdict change.           *)
(***************************************************************************)
EXTENDS Naturals, Sequences

CONSTANTS
  Worker,          \* the workers of the run
  RuntimeSeconds   \* 0: the user decides when the run is over

VARIABLES
  phase,     \* "collecting", "stopped", "returned" or "aborted"
  raw,       \* the results, worker by worker
  err,       \* what Run returns
  completed  \* what it leaves in run.Completed

vars == <<phase, raw, err, completed>>

Init ==
  /\ phase = "collecting"
  /\ raw = [w \in Worker |-> <<>>]
  /\ err = "nil"
  /\ completed = FALSE

\* No report follows a torn one: its worker is gone.
Open(w) == \A k \in 1 .. Len(raw[w]) : raw[w][k].n # 0

\* The next report of w is the one after the last, or a torn one.
Collect(w) ==
  /\ phase = "collecting" /\ Open(w)
  /\ \E n \in {0, Len(raw[w]) + 1}, cpu \in BOOLEAN :
       raw' = [raw EXCEPT ![w] = Append(@, [n |-> n, cpu |-> cpu])]
  /\ UNCHANGED <<phase, err, completed>>

\* The reason of the stop is the verdict.
Verdicts ==
  {[err |-> "early", completed |-> FALSE],
   [err |-> "nil", completed |-> TRUE],
   [err |-> "interrupted", completed |-> RuntimeSeconds = 0]}

Stop ==
  /\ phase = "collecting" /\ Worker # {}
  /\ phase' = "stopped"
  /\ \E v \in Verdicts : err' = v.err /\ completed' = v.completed
  /\ UNCHANGED raw

\* A run without workers has nothing to collect, and returns at once.
Return ==
  /\ phase = "stopped" \/ (phase = "collecting" /\ Worker = {})
  /\ phase' = "returned"
  /\ UNCHANGED <<raw, err, completed>>

Abort ==
  /\ phase \in {"collecting", "stopped", "returned"}
  /\ phase' = "aborted"
  /\ UNCHANGED <<raw, err, completed>>

Next == (\E w \in Worker : Collect(w)) \/ Stop \/ Return \/ Abort

Spec == Init /\ [][Next]_vars
=============================================================================
