----------------------------- MODULE MCSummary -----------------------------
(* An instance of Summary for TLC. *)
EXTENDS Summary

CONSTANTS w1, w2

Step(t, ops, cpu) == [Now |-> t, Kops |-> ops, Cputime |-> cpu]

MCStarts == {[Now |-> 2, Cputime |-> 1]}

\* A window without work (a job of 0 kops); a fast and a slow one; and a clock
\* that steps back.
MCSteps == {Step(1, 0, 0), Step(1, 2, 1), Step(2, 1, 1), Step(-1, 1, 1)}
=============================================================================
