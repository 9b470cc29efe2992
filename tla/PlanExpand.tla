----------------------------- MODULE PlanExpand -----------------------------
(***************************************************************************)
(* What ExpandInput of controller/plan.go makes of the input of a plan:    *)
(* the runs that PlanFile numbers from 1 to N.  One process may be given   *)
(* several plan commands (main.go:18), which share the global              *)
(* WorkerPresets: a preset of one file is there for the next.              *)
(***************************************************************************)
EXTENDS Integers, SequencesExt

CONSTANTS
  Preset,  \* names of worker presets
  Args,    \* what their Args may be
  NoArgs,  \* a preset without Args, or no such preset
  Default, \* Schedulers or NumaDisable nil: use what there is
  Builtin, \* WorkerPresets as the program has them
  Inputs   \* data: the plan files it is given

Presets == [Preset -> Args \cup {NoArgs}]
Matrix  == [Schedulers : Seq(STRING) \cup {Default}, Workers : Seq(Preset),
            Count : Seq(Nat), NumaDisable : Seq(BOOLEAN)]
Input   == [hasRuns : BOOLEAN, hasInput : BOOLEAN, hasMatrix : BOOLEAN,
            own : SUBSET Preset, WorkerPresets : Presets, SimpleMatrix : Matrix]

ASSUME ExpandAssumption ==
  NoArgs \notin Args /\ Builtin \in Presets /\ Inputs \subseteq Input

VARIABLES
  presets, \* WorkerPresets
  input,   \* the file of the last plan command, with -t or not
  runs,    \* plan.Runs, <<>> before
  ended    \* "ok", or how ExpandInput refused; the process is then over

vars == <<presets, input, runs, ended>>

Init ==
  /\ presets = Builtin /\ input \in Inputs
  /\ runs = <<>> /\ ended = "no command"

\* Mutant of Merged: a preset that is there is kept.
Merged_KeepsFirst(in) ==
  [n \in Preset |-> IF n \in in.own /\ presets[n] = NoArgs THEN in.WorkerPresets[n]
                    ELSE presets[n]]

\* The file's own presets replace those that are there.
Merged(in) ==
  [n \in Preset |-> IF n \in in.own THEN in.WorkerPresets[n] ELSE presets[n]]

-----------------------------------------------------------------------------
(* The slices a and b of ExpandInput.                                      *)

WorkerSet(p, n, count) == [Params |-> p[n], Count |-> count]

Baselines(m, p) ==
  [x \in DOMAIN m.Workers |->
     [Label |-> <<"baseline", x>>, WorkerSets |-> <<WorkerSet(p, m.Workers[x], 1)>>,
      Scheduler |-> "", NumaDisable |-> Default]]

Counts(m, p) ==
  [x \in DOMAIN m.Count |->
     [Label |-> <<"count", x>>,
      WorkerSets |-> [y \in DOMAIN m.Workers |-> WorkerSet(p, m.Workers[y], m.Count[x])],
      Scheduler |-> "", NumaDisable |-> Default]]

\* b of the crossings: for each base one run after the other.  No options, no
\* crossing.
BySchedulers(a, schedulers) ==
  IF schedulers = <<>> THEN a
  ELSE FlattenSeq([x \in DOMAIN a |-> [y \in DOMAIN schedulers |->
         [Label |-> a[x].Label, WorkerSets |-> a[x].WorkerSets,
          Scheduler |-> schedulers[y], NumaDisable |-> a[x].NumaDisable]]])

ByNumaDisable(a, options) ==
  IF options = <<>> THEN a
  ELSE FlattenSeq([x \in DOMAIN a |-> [y \in DOMAIN options |->
         [Label |-> a[x].Label, WorkerSets |-> a[x].WorkerSets,
          Scheduler |-> a[x].Scheduler, NumaDisable |-> options[y]]]])

Schedulers(m) == IF m.Schedulers = Default THEN <<"">> ELSE m.Schedulers

Expanded(m, p) ==
  ByNumaDisable(BySchedulers(Baselines(m, p) \o Counts(m, p), Schedulers(m)), m.NumaDisable)

Refusal(in, template, p) ==
  IF in.hasRuns /\ ~template THEN "runs"
  ELSE IF ~in.hasInput THEN "no input"
  ELSE IF ~in.hasMatrix THEN "no matrix"
  ELSE IF \E x \in DOMAIN in.SimpleMatrix.Workers : p[in.SimpleMatrix.Workers[x]] = NoArgs
       THEN "preset"
  ELSE "ok"

\* schedbench plan, or with -t, which clears the runs of the template first.
PlanCommand(in, template) ==
  LET p == Merged(in) IN
  /\ ended \in {"no command", "ok"}
  /\ input' = in
  /\ ended' = Refusal(in, template, p)
  /\ presets' = IF ended' \in {"ok", "preset"} THEN p ELSE presets
  /\ runs' = IF ended' = "ok" THEN Expanded(in.SimpleMatrix, p) ELSE runs

\* A process of its own for the next command.
NewProcess ==
  /\ presets' = Builtin /\ runs' = <<>> /\ ended' = "no command"
  /\ UNCHANGED input

Next == NewProcess \/ \E in \in Inputs, template \in BOOLEAN : PlanCommand(in, template)

Spec == Init /\ [][Next]_vars

-----------------------------------------------------------------------------
(* Properties.                                                             *)

\* The lists of the matrix: the bases, and one that changes nothing for none.
Labels(m)     == [x \in DOMAIN m.Workers |-> <<"baseline", x>>]
                 \o [x \in DOMAIN m.Count |-> <<"count", x>>]
AllScheds(m)  == IF m.Schedulers \in {Default, <<>>} THEN <<"">> ELSE m.Schedulers
AllNumas(m)   == IF m.NumaDisable = <<>> THEN <<Default>> ELSE m.NumaDisable

\* The run of base x under scheduler y and NumaDisable z.
IsRunOf(run, m, args, x, y, z) ==
  /\ run.Label = Labels(m)[x]
  /\ run.Scheduler = AllScheds(m)[y] /\ run.NumaDisable = AllNumas(m)[z]
  /\ x <= Len(m.Workers) =>
       run.WorkerSets = <<[Params |-> args[m.Workers[x]], Count |-> 1]>>
  /\ x > Len(m.Workers) =>
       /\ Len(run.WorkerSets) = Len(m.Workers)
       /\ \A w \in DOMAIN m.Workers :
            run.WorkerSets[w] = [Params |-> args[m.Workers[w]],
                                 Count |-> m.Count[x - Len(m.Workers)]]

\* Names that mean what an earlier file of the process said: neither this file
\* nor the program defines them so.
Leaked == {n \in Preset \ input.own : presets[n] # Builtin[n]}

\* The expanded plan has a run for every worker alone and for every count of all
\* of them, under every scheduler and every NumaDisable listed, and no more runs
\* than there are such combinations, in whatever order; and each runs with the
\* Args that the file itself gives a worker, or the program if the file does not,
\* as long as it names no worker of an earlier file only.
PlanIsTheMatrix ==
  LET m    == input.SimpleMatrix
      args == [n \in Preset |-> IF n \in input.own THEN input.WorkerPresets[n] ELSE Builtin[n]]
  IN  ended = "ok" /\ ToSet(m.Workers) \cap Leaked = {} =>
        /\ Len(runs) = Len(Labels(m)) * Len(AllScheds(m)) * Len(AllNumas(m))
        /\ \A x \in DOMAIN Labels(m), y \in DOMAIN AllScheds(m), z \in DOMAIN AllNumas(m) :
             \E i \in DOMAIN runs : IsRunOf(runs[i], m, args, x, y, z)
=============================================================================
