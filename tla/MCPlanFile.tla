----------------------------- MODULE MCPlanFile -----------------------------
(* Instances of PlanFile for TLC: the cfgs give the plan by its sets of runs. *)
EXTENDS PlanFile
=============================================================================
