---------------------------- MODULE MCPlanExpand ----------------------------
(* An instance of PlanExpand for TLC. *)
EXTENDS PlanExpand

MCBuiltin == [n \in Preset |-> IF n = "P001" THEN "builtin" ELSE NoArgs]

\* The lists of a SimpleMatrix: none, empty, one, several.
MCMatrices ==
  [Schedulers : {Default, <<>>, <<"credit", "credit2">>},
   Workers : {<<"A">>, <<"A", "P001">>},
   Count : {<<>>, <<0, 2>>},
   NumaDisable : {<<>>, <<TRUE, FALSE>>}]

File(own, args, m) ==
  [hasRuns |-> FALSE, hasInput |-> TRUE, hasMatrix |-> TRUE, own |-> own,
   WorkerPresets |-> [n \in Preset |-> args], SimpleMatrix |-> m]

\* Files with presets of their own, and one for each way to be refused.
MCInputs ==
  LET some == CHOOSE m \in MCMatrices : m.Count # <<>>
  IN  {File({"A"}, "x", m) : m \in MCMatrices}
      \cup {File(own, "y", some) : own \in {{}, {"A"}, {"A", "P001"}}}
      \cup {[File({"A"}, "x", some) EXCEPT !.hasRuns = TRUE],
            [File({"A"}, "x", some) EXCEPT !.hasInput = FALSE],
            [File({"A"}, "x", some) EXCEPT !.hasMatrix = FALSE],
            File({"A"}, NoArgs, some)}
=============================================================================
