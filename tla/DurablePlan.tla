---------------------------- MODULE DurablePlan ----------------------------
(***************************************************************************)
(* What a benchmark file promises the user of schedbench across commands,  *)
(* failed writes and kills: once it is planned it stays planned, and a     *)
(* result once saved stays, unless the user asks for a new plan made from  *)
(* a template; results arrive one at a time.                               *)
(***************************************************************************)
EXTENDS Naturals

CONSTANT Runs       \* the runs of the plan

VARIABLES
  planned,          \* whether the plan's runs have been laid out
  result,           \* per run: 0, or the attempt whose results are saved
  replacing         \* a template is being made into a new plan for the file

vars == <<planned, result, replacing>>

None == [i \in Runs |-> 0]

Init ==
  /\ planned = FALSE /\ result = None
  /\ replacing = FALSE

Plan ==
  /\ ~planned
  /\ planned' = TRUE
  /\ UNCHANGED <<result, replacing>>

Record(i) ==
  /\ ~replacing /\ planned /\ result[i] = 0
  /\ result'[i] # 0
  /\ result' = [result EXCEPT ![i] = result'[i]]
  /\ UNCHANGED <<planned, replacing>>

\* The user asks for a new plan; the command ends, however it does.
BeginReplacing ==
  /\ replacing' = TRUE
  /\ UNCHANGED <<planned, result>>

EndReplacing ==
  /\ replacing' = FALSE
  /\ UNCHANGED <<planned, result>>

\* The new plan takes the place of the old one and of its results.
Replace ==
  /\ replacing
  /\ planned' = TRUE /\ result' = None
  /\ UNCHANGED replacing

\* It is not there yet, and the old one can no longer be read.
Lose ==
  /\ replacing
  /\ planned' = FALSE /\ result' = None
  /\ UNCHANGED replacing

Next ==
  \/ Plan \/ BeginReplacing \/ EndReplacing \/ Replace \/ Lose
  \/ \E i \in Runs : Record(i)

Spec == Init /\ [][Next]_vars
=============================================================================
