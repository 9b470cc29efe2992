------------------------------ MODULE Cpupools ------------------------------
(***************************************************************************)
(* BenchmarkRun.Prep and GetCpumap (controller/run.go) and the cpupool     *)
(* calls they make (controller/libxl.go), over the plan's runs one after   *)
(* the other.                                                              *)
(*                                                                         *)
(* Prep looks at the host's cpupools once, decides, and then changes them  *)
(* with a series of libxl calls, each a step that may fail: destroy the    *)
(* named pool, take the wanted cpus out of every pool that has one, create *)
(* the pool.  The administrator may use `xl cpupool-cpu-add` and -remove   *)
(* between any two.  A failing call and a closed Context (CheckOpen) look  *)
(* the same to Prep.                                                       *)
(*                                                                         *)
(* A Bitmap is the set of its bits; the length of its byte array matters   *)
(* in one place, the loop up to Max in Prep, and appears there as the set  *)
(* of bits the array has.                                                  *)
(***************************************************************************)
EXTENDS Naturals

CONSTANTS
  Cpu,          \* cpu numbers anybody mentions
  Host,         \* the cpus the machine has
  InMap,        \* the bits of the cpumaps libxl returns
  PoolId,       \* cpupool ids, 0 being Pool-0; bound: the pools there can be
  Name,         \* cpupool names
  Scheduler,    \* names libxl_scheduler_from_string knows
  RunConfigs,   \* the RunConfigs of the plan's runs, all fields propagated
  MaxRuns,      \* bound: runs prepared
  MaxFaults,    \* bound: libxl calls that fail for no reason seen here
  MaxMisreads,  \* bound: failing libxl_list_cpupool and libxl_cpupool_info
  MaxAdmin,     \* bound: cpus the administrator moves
  MaxLeftBehind \* bound: runs that leave a guest in their pool

Unset    == ""           \* Pool or Scheduler not given
PoolZero == "Pool-0"     \* the name Xen gives pool 0
Ours     == "schedbench" \* the name in Prep's call of CpupoolCreate

(***************************************************************************)
(* given: Cpus is not nil.  numa: NumaDisable is true.                     *)
(***************************************************************************)
RunConfig == [pool : Name \cup {Unset}, sched : STRING, given : BOOLEAN,
              cpus : SUBSET Cpu, numa : BOOLEAN]

ASSUME HostAssumption ==
  /\ Host \subseteq InMap /\ InMap \subseteq Cpu
  /\ PoolId \subseteq Nat /\ 0 \in PoolId
  /\ {PoolZero, Ours} \subseteq Name /\ Name \subseteq STRING \ {Unset}
  /\ Scheduler \subseteq STRING \ {Unset, "unknown"}
ASSUME ConfigAssumption == RunConfigs \subseteq RunConfig
ASSUME BoundAssumption ==
  /\ MaxRuns \in Nat /\ MaxFaults \in Nat /\ MaxMisreads \in Nat
  /\ MaxAdmin \in Nat /\ MaxLeftBehind \in Nat

VARIABLES
  \* the host
  live,       \* ids of the pools there are
  name, sched, cpus, \* of each pool
  guests,     \* pools the guests of the current run are in
  busy,       \* pools with any other domain in them; Pool-0 has domain 0
  \* the controller
  pc,
  run,        \* the RunConfig being prepared
  pool,       \* Prep's variables pool and poolPresent
  toFree,     \* MakeFree's plist: what it has yet to take from each pool
  \* history and bounds
  disturbed,  \* the administrator moved a cpu since Prep began
  misreads, faults, admins, leftBehind, runs

host    == <<live, name, sched, cpus, guests, busy>>
control == <<pc, run, pool, toFree>>
bounds  == <<disturbed, misreads, faults, admins, leftBehind, runs>>
vars    == <<host, control, bounds>>

-----------------------------------------------------------------------------
(* What libxl shows of the host.                                           *)

\* A CpupoolInfo, with the bits its Cpumap has (Max) and poolPresent.
PoolInfo == [present : BOOLEAN, id : PoolId, sched : Scheduler \cup {"unknown"},
             cpus : SUBSET Cpu, bits : SUBSET Cpu]

\* The Go zero value: what CpupoolInfo returns when libxl_cpupool_info fails,
\* its error being dropped, and CpupoolFindByName when nothing is found.
ZeroInfo(present) ==
  [present |-> present, id |-> 0, sched |-> "unknown", cpus |-> {}, bits |-> {}]

Info(p) == [present |-> TRUE, id |-> p, sched |-> sched[p], cpus |-> cpus[p],
            bits |-> InMap]

Named(n, list)      == {p \in list : name[p] = n}
FirstNamed(n, list) == {p \in Named(n, list) : \A q \in Named(n, list) : p <= q}

\* The pool Prep and GetCpumap use, in a list of pools: a set of one.
Lookup(list) ==
  IF run.pool = Unset
  THEN {IF 0 \in list THEN Info(0) ELSE ZeroInfo(TRUE)}
  ELSE {Info(p) : p \in FirstNamed(run.pool, list)}
         \cup {s \in {ZeroInfo(FALSE)} : Named(run.pool, list) = {}}

Free == {c \in Host : \A p \in live : c \notin cpus[p]}

\* A libxl read: a failing libxl_list_cpupool is an empty list to ListCpupool.
Read(list) ==
  \/ list = live /\ UNCHANGED misreads
  \/ list = {} /\ misreads < MaxMisreads /\ misreads' = misreads + 1

Fault   == faults < MaxFaults /\ faults' = faults + 1
NoFault == UNCHANGED faults

Disjoint ==
  /\ \A p, q \in live : p # q => cpus[p] \cap cpus[q] = {}
  /\ \A p \in PoolId \ live : cpus[p] = {}

\* Prep of the first run, on any pools with names of their own.
Init ==
  /\ live \in SUBSET PoolId /\ 0 \in live
  /\ name \in [PoolId -> Name] /\ name[0] = PoolZero
  /\ \A p, q \in live : name[p] = name[q] => p = q
  /\ sched \in [PoolId -> Scheduler]
  /\ cpus \in [PoolId -> SUBSET Host] /\ cpus[0] # {}
  /\ Disjoint
  /\ \A p \in PoolId \ live :
       name[p] = PoolZero /\ sched[p] = sched[0]
  /\ guests = {} /\ busy = {0}
  /\ pc = "prep" /\ run \in RunConfigs
  /\ pool = ZeroInfo(FALSE)
  /\ toFree = [p \in PoolId |-> {}]
  /\ disturbed = FALSE
  /\ misreads = 0 /\ faults = 0 /\ admins = 0 /\ leftBehind = 0 /\ runs = 1

-----------------------------------------------------------------------------
(* Prep: look, and decide.                                                 *)

\* plan.Run reaches a run that is not Completed, in this command or the next.
NextRun ==
  /\ pc \in {"idle", "skipped", "panicked"} /\ runs < MaxRuns
  /\ run' \in RunConfigs
  /\ pc' = "prep" /\ runs' = runs + 1 /\ disturbed' = FALSE
  /\ UNCHANGED <<host, pool, toFree, misreads, faults, admins, leftBehind>>

\* Mutants of CpuMatches and IsPoolZero: one direction of the comparison is
\* lost, and Pool-0 is known only when no Pool is given.
CpuMatches_Contains(s) ==
  run.given => s.present /\ \A c \in s.bits : c \in s.cpus => c \in run.cpus
IsPoolZero_Unset(s) == s.present /\ run.pool = Unset

SchedMatches(s) == run.sched = Unset \/ ~s.present \/ s.sched = run.sched

CpuMatches(s) ==
  run.given => s.present /\ \A c \in s.bits : c \in s.cpus <=> c \in run.cpus

IsPoolZero(s)   == s.present /\ s.id = 0
Matches(s)      == SchedMatches(s) /\ CpuMatches(s)
EmptyList       == run.given /\ run.cpus = {}

\* The pool is used as it is.
Accepts(s) ==
  /\ ~EmptyList
  /\ IF IsPoolZero(s) THEN Matches(s)
     ELSE ~run.given /\ s.present /\ SchedMatches(s)

\* A pool is made for the run, and may be.
Constructs(s) ==
  ~EmptyList /\ ~IsPoolZero(s) /\ run.given /\ run.sched \in Scheduler

\* What Prep decides to do about the pool it sees.
Decision(s) ==
  IF Accepts(s) THEN "ready"
  ELSE IF ~Constructs(s) THEN "skipped"
  ELSE IF s.present THEN "destroy" ELSE "list"

Look ==
  /\ pc = "prep"
  /\ \E list \in {live, {}} :
       /\ Read(list)
       /\ \E s \in Lookup(list) : pool' = s /\ pc' = Decision(s)
  /\ UNCHANGED <<host, run, toFree, disturbed, faults, admins, leftBehind, runs>>

-----------------------------------------------------------------------------
(* Prep: change the pools.  An error ends it with "skipped".               *)

\* Ctx.CpupoolDestroy: Xen refuses while a domain is in the pool.
Destroy ==
  /\ pc = "destroy" /\ pool.id \notin busy
  /\ live' = live \ {pool.id}
  /\ cpus' = [cpus EXCEPT ![pool.id] = {}]
  /\ pc' = "list"
  /\ UNCHANGED <<name, sched, guests, busy, run, pool, toFree, bounds>>

\* Mutant of DestroyFails: the error is printed and Prep goes on.
DestroyFails_GoesOn ==
  /\ pc = "destroy"
  /\ IF pool.id \in busy THEN NoFault ELSE Fault
  /\ pc' = "list"
  /\ UNCHANGED <<host, run, pool, toFree, disturbed, misreads, admins, leftBehind, runs>>

DestroyFails ==
  /\ pc = "destroy"
  /\ IF pool.id \in busy THEN NoFault ELSE Fault
  /\ pc' = "skipped"
  /\ UNCHANGED <<host, run, pool, toFree, disturbed, misreads, admins, leftBehind, runs>>

\* Mutant of ListPools: the loop starts after Pool-0.
ListPools_SkipsZero ==
  /\ pc = "list"
  /\ \E list \in {live, {}} :
       /\ Read(list)
       /\ toFree' = [p \in PoolId |->
                       IF p \in list \ {0} THEN run.cpus \cap cpus[p] ELSE {}]
  /\ pc' = "free"
  /\ UNCHANGED <<host, run, pool, disturbed, faults, admins, leftBehind, runs>>

\* CpupoolMakeFree lists the pools and intersects each with the wanted cpus.
ListPools ==
  /\ pc = "list"
  /\ \E list \in {live, {}} :
       /\ Read(list)
       /\ toFree' = [p \in PoolId |-> IF p \in list THEN run.cpus \cap cpus[p] ELSE {}]
  /\ pc' = "free"
  /\ UNCHANGED <<host, run, pool, disturbed, faults, admins, leftBehind, runs>>

\* The loop of MakeFree is at pool p.
Freeing(p) ==
  /\ pc = "free" /\ p \in PoolId /\ toFree[p] # {}
  /\ \A q \in PoolId : toFree[q] # {} => p <= q

\* A pool with a domain keeps a cpu.
Removable(p, gone) == p \in busy \cup guests => cpus[p] \ gone # {}

\* Mutant of FreeFrom: the pool's cpus are removed, not the intersection.
FreeFrom_All(p) ==
  /\ Freeing(p) /\ Removable(p, cpus[p])
  /\ cpus' = [cpus EXCEPT ![p] = {}]
  /\ toFree' = [toFree EXCEPT ![p] = {}]
  /\ UNCHANGED <<live, name, sched, guests, busy, pc, run, pool, bounds>>

\* Ctx.CpupoolCpuremoveCpumap of the intersection listed before.
FreeFrom(p) ==
  /\ Freeing(p) /\ Removable(p, toFree[p])
  /\ cpus' = [cpus EXCEPT ![p] = @ \ toFree[p]]
  /\ toFree' = [toFree EXCEPT ![p] = {}]
  /\ UNCHANGED <<live, name, sched, guests, busy, pc, run, pool, bounds>>

\* It fails, with some of the cpus removed.
FreeFails(p) ==
  /\ Freeing(p)
  /\ IF Removable(p, toFree[p]) THEN Fault ELSE NoFault
  /\ \E gone \in SUBSET toFree[p] :
       /\ Removable(p, gone)
       /\ cpus' = [cpus EXCEPT ![p] = @ \ gone]
  /\ pc' = "skipped"
  /\ UNCHANGED <<live, name, sched, guests, busy, run, pool, toFree,
                 disturbed, misreads, admins, leftBehind, runs>>

FreeDone ==
  /\ pc = "free" /\ \A p \in PoolId : toFree[p] = {}
  /\ pc' = "create"
  /\ UNCHANGED <<host, run, pool, toFree, bounds>>

CanCreate == run.cpus \subseteq Free /\ PoolId \ live # {}

\* Ctx.CpupoolCreate("schedbench", Scheduler, Cpumap): under an id not in use.
Create ==
  /\ pc = "create" /\ CanCreate
  /\ \E p \in PoolId \ live :
       /\ live' = live \cup {p}
       /\ name' = [name EXCEPT ![p] = Ours]
       /\ sched' = [sched EXCEPT ![p] = run.sched]
       /\ cpus' = [cpus EXCEPT ![p] = run.cpus]
  /\ pc' = "ready"
  /\ UNCHANGED <<guests, busy, run, pool, toFree, bounds>>

CreateFails ==
  /\ pc = "create"
  /\ IF CanCreate THEN Fault ELSE NoFault
  /\ pc' = "skipped"
  /\ UNCHANGED <<host, run, pool, toFree, disturbed, misreads, admins, leftBehind, runs>>

-----------------------------------------------------------------------------
(* BenchmarkRun.Run, as far as it uses the pool.                           *)

\* The pools of that name now, by id.
Target == IF run.pool = Unset THEN {0} ELSE FirstNamed(run.pool, live)

\* GetCpumap for NumaDisable finds no pool of that name.
GetCpumapPanics ==
  /\ pc = "ready" /\ run.numa
  /\ run.pool # Unset
  /\ \/ Target = {} /\ UNCHANGED misreads
     \/ misreads < MaxMisreads /\ misreads' = misreads + 1
  /\ pc' = "panicked"
  /\ UNCHANGED <<host, run, pool, toFree, disturbed, faults, admins, leftBehind, runs>>

\* xl create puts the guests into the pool of that name, if there is one.
StartGuests ==
  /\ pc = "ready" /\ (run.numa => Target # {})
  /\ guests' = Target
  /\ pc' = "running"
  /\ UNCHANGED <<live, name, sched, cpus, busy, run, pool, toFree, bounds>>

\* Run returns and its guests are gone.
RunEnds ==
  /\ pc = "running"
  /\ guests' = {}
  /\ pc' = "idle"
  /\ UNCHANGED <<live, name, sched, cpus, busy, run, pool, toFree, bounds>>

\* A failed xl destroy or a second ^C leaves a guest behind (RunLoop).
RunLeavesGuest ==
  /\ pc = "running" /\ leftBehind < MaxLeftBehind
  /\ leftBehind' = leftBehind + 1
  /\ guests' = {} /\ busy' = busy \cup guests
  /\ pc' = "idle"
  /\ UNCHANGED <<live, name, sched, cpus, run, pool, toFree,
                 disturbed, misreads, faults, admins, runs>>

-----------------------------------------------------------------------------
(* The administrator, at any time.                                         *)

AdminRemoves(p, c) ==
  /\ admins < MaxAdmin /\ c \in cpus[p] /\ Removable(p, {c})
  /\ cpus' = [cpus EXCEPT ![p] = @ \ {c}]
  /\ admins' = admins + 1 /\ disturbed' = TRUE
  /\ UNCHANGED <<live, name, sched, guests, busy, control, misreads, faults, leftBehind, runs>>

AdminAdds(p, c) ==
  /\ admins < MaxAdmin /\ p \in live /\ c \in Free
  /\ cpus' = [cpus EXCEPT ![p] = @ \cup {c}]
  /\ admins' = admins + 1 /\ disturbed' = TRUE
  /\ UNCHANGED <<live, name, sched, guests, busy, control, misreads, faults, leftBehind, runs>>

AdminDestroysGuest(p) ==
  /\ admins < MaxAdmin /\ p \in busy \ {0}
  /\ busy' = busy \ {p}
  /\ admins' = admins + 1
  /\ UNCHANGED <<live, name, sched, cpus, guests, control,
                 disturbed, misreads, faults, leftBehind, runs>>

-----------------------------------------------------------------------------
PrepStep ==
  \/ NextRun \/ Look \/ Destroy \/ DestroyFails \/ ListPools
  \/ \E p \in PoolId : FreeFrom(p) \/ FreeFails(p)
  \/ FreeDone \/ Create \/ CreateFails

RunStep == GetCpumapPanics \/ StartGuests \/ RunEnds \/ RunLeavesGuest

AdminStep ==
  \E p \in PoolId :
    \/ AdminDestroysGuest(p)
    \/ \E c \in Host : AdminRemoves(p, c) \/ AdminAdds(p, c)

Next == PrepStep \/ RunStep \/ AdminStep

Spec == Init /\ [][Next]_vars

-----------------------------------------------------------------------------
(* What must hold.                                                         *)

PcOK == pc \in {"idle", "prep", "destroy", "list", "free", "create", "ready",
                "running", "skipped", "panicked"}

(***************************************************************************)
(* The state is well formed; and, whatever fails on the way, Pool-0 is     *)
(* there and has a cpu, a cpu is in one pool at most, and the pool Prep    *)
(* (run.go:286) is about to destroy is not Pool-0.                         *)
(***************************************************************************)
TypeOK ==
  /\ live \in SUBSET PoolId /\ 0 \in live
  /\ name \in [PoolId -> Name] /\ name[0] = PoolZero
  /\ sched \in [PoolId -> Scheduler]
  /\ cpus \in [PoolId -> SUBSET Host] /\ cpus[0] # {}
  /\ Disjoint
  /\ guests \subseteq live /\ (pc # "running" => guests = {})
  /\ busy \subseteq live /\ 0 \in busy
  /\ PcOK /\ run \in RunConfigs
  /\ pool \in PoolInfo /\ toFree \in [PoolId -> SUBSET Cpu]
  /\ pc = "destroy" => pool.id \in live \ {0}
  /\ disturbed \in BOOLEAN
  /\ misreads \in Nat /\ faults \in Nat /\ admins \in Nat
  /\ leftBehind \in Nat /\ runs \in Nat

\* The pool names a plan may give together with Cpus so that the pool Prep
\* creates, always "schedbench" (run.go:305), is the pool of that name.
OwnPoolsOnly ==
  \A r \in RunConfigs : r.given => r.pool \in {Unset, PoolZero, Ours}

(***************************************************************************)
(* Ready means configured: when Prep says ready, the pool its run will use *)
(* exists, runs the scheduler the run names, and has exactly the cpus it   *)
(* names (as far as libxl's cpumap reaches), after any history of skipped, *)
(* half-done and failed Preps.  It is what makes the results of a run mean *)
(* what its label says.  Reads must not have failed, and the administrator *)
(* must have kept his hands off since this Prep began.                     *)
(***************************************************************************)
ReadyIsConfigured ==
  pc = "ready" /\ misreads = 0 /\ ~disturbed =>
    /\ Target # {}
    /\ \A p \in Target :
         /\ p \in live
         /\ run.sched # Unset => sched[p] = run.sched
         /\ run.given => \A c \in InMap : c \in cpus[p] <=> c \in run.cpus

(***************************************************************************)
(* CpupoolMakeFree does its work: when Prep calls CpupoolCreate no pool    *)
(* has a wanted cpu, although the list of pools was read once and then     *)
(* worked off call by call.                                                *)
(***************************************************************************)
WantedCpusAreFree ==
  pc = "create" /\ misreads = 0 /\ ~disturbed =>
    \A p \in live : run.cpus \cap cpus[p] = {}

(***************************************************************************)
(* Pool names stay unique, which libxl_cpupool_create does not see to and  *)
(* CpupoolFindByName and xl create rely on: one pool called "schedbench",  *)
(* however many Preps fail half-way, as long as reads do not fail.         *)
(***************************************************************************)
OnePoolOfAName ==
  misreads = 0 => \A p, q \in live : name[p] = name[q] => p = q

(***************************************************************************)
(* Prep takes what its run asks for and no more: a cpu leaves a pool only  *)
(* for a run that gives Cpus and a Pool that is not Pool-0, and only when  *)
(* it is one of those Cpus or the pool is the one the run names (README    *)
(* 162-166: a pool one manages oneself, or the default pool, is used as it *)
(* is).  A failed read can hide Pool-0 from a run that names it.           *)
(***************************************************************************)
TakesOnlyItsOwn ==
  [][admins' = admins =>
       \A p \in PoolId : \A c \in cpus[p] \ cpus'[p] :
         /\ run.given /\ run.pool # Unset /\ (run.pool = PoolZero => misreads > 0)
         /\ c \in run.cpus \/ name[p] = run.pool]_vars
=============================================================================
