----------------------------- MODULE MCCpupools -----------------------------
(***************************************************************************)
(* Instances of Cpupools for TLC: families of RunConfigs, as a plan has    *)
(* them.                                                                   *)
(***************************************************************************)
EXTENDS Cpupools

Configs(pools, scheds, cpuLists, numas) ==
  [pool : pools, sched : scheds, given : {TRUE}, cpus : cpuLists, numa : numas]
OpenConfigs(pools, scheds) ==
  [pool : pools, sched : scheds, given : {FALSE}, cpus : {{}}, numa : {TRUE}]

MCName == {PoolZero, Ours, "mine"}

\* A plan that lets schedbench manage its pool, and one on a pool of the
\* user's and on Pool-0.
MCManaged == Configs({Ours}, {"credit", "credit2"}, {{1, 2}, {2}}, {TRUE})
MCOdd     == Configs({Ours}, {Unset, "bogus"}, {{1}}, {TRUE})
               \cup Configs({Ours}, {"credit"}, {{}, {1, 9}}, {TRUE})
MCGiven   == OpenConfigs({Unset, "mine", Ours}, {Unset, "credit2"})
               \cup Configs({Unset, PoolZero}, {Unset, "credit"}, {{0, 1}}, {TRUE})

MCMixed   == MCManaged \cup MCOdd \cup MCGiven
=============================================================================
