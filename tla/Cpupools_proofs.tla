-------------------------- MODULE Cpupools_proofs --------------------------
(***************************************************************************)
(* Proofs about Cpupools, for every machine, every set of run              *)
(* configurations, every start and every value of the bounds.              *)
(***************************************************************************)
EXTENDS Cpupools, TLAPS

-----------------------------------------------------------------------------
(* What a look at the pools can show.                                      *)

\* Lookup returns one of: pool 0 as it is, the zero value for a read that
\* failed, the zero value for a name there is not, a pool of the run's name.
LEMMA LookupCases ==
  ASSUME NEW list, NEW s \in Lookup(list)
  PROVE  \/ run.pool = Unset /\ 0 \in list /\ s = Info(0)
         \/ run.pool = Unset /\ 0 \notin list /\ s = ZeroInfo(TRUE)
         \/ run.pool # Unset /\ Named(run.pool, list) = {} /\ s = ZeroInfo(FALSE)
         \/ run.pool # Unset /\ \E p \in FirstNamed(run.pool, list) : s = Info(p)
BY DEF Lookup

\* Fields of the two kinds of CpupoolInfo.
LEMMA InfoFields ==
  ASSUME NEW p
  PROVE  /\ Info(p).present = TRUE /\ Info(p).id = p /\ Info(p).sched = sched[p]
         /\ Info(p).cpus = cpus[p] /\ Info(p).bits = InMap
         /\ ZeroInfo(TRUE).present = TRUE /\ ZeroInfo(TRUE).id = 0
         /\ ZeroInfo(FALSE).present = FALSE
BY DEF Info, ZeroInfo

LEMMA LookupTyped ==
  ASSUME TypeOK, NEW list, list \subseteq live, NEW s \in Lookup(list)
  PROVE  s \in PoolInfo
<1>1. ASSUME NEW p \in live PROVE Info(p) \in PoolInfo
  BY <1>1, HostAssumption DEF TypeOK, Info, PoolInfo
<1>2. ASSUME NEW b \in BOOLEAN PROVE ZeroInfo(b) \in PoolInfo
  BY HostAssumption DEF ZeroInfo, PoolInfo
<1>3. CASE s \in {ZeroInfo(TRUE), ZeroInfo(FALSE)}
  BY <1>2, <1>3
<1>4. ASSUME NEW p \in live, s = Info(p) PROVE s \in PoolInfo
  BY <1>1, <1>4
<1>5. \/ s \in {ZeroInfo(TRUE), ZeroInfo(FALSE)}
      \/ \E p \in list : s = Info(p)
  BY DEF Lookup, FirstNamed, Named
<1> QED
  BY <1>3, <1>4, <1>5

\* Prep sets out to change pools only for a run with Cpus, a valid Scheduler
\* and a Pool, and it destroys only a pool of that name that is not Pool-0.
LEMMA DecisionToChange ==
  ASSUME TypeOK, NEW list, list \subseteq live, NEW s \in Lookup(list),
         Decision(s) \in {"destroy", "list"}
  PROVE  /\ run.given /\ run.pool # Unset /\ run.sched \in Scheduler
         /\ Decision(s) = "destroy" =>
              s.id \in FirstNamed(run.pool, list) /\ s.id # 0
         /\ Decision(s) = "list" => Named(run.pool, list) = {}
<1>1. /\ Constructs(s)
      /\ Decision(s) = IF s.present THEN "destroy" ELSE "list"
  BY DEF Decision
<1>2. CASE run.pool = Unset
  <2>1. s = Info(0) \/ s = ZeroInfo(TRUE)
    BY <1>2, LookupCases
  <2>2. s.present /\ s.id = 0
    BY <2>1, InfoFields
  <2> QED
    BY <1>1, <2>2 DEF Constructs, IsPoolZero
<1>4. ASSUME NEW p \in FirstNamed(run.pool, list), s = Info(p), run.pool # Unset
      PROVE  Decision(s) = "destroy" /\ s.id = p /\ p # 0
  BY <1>1, <1>4, InfoFields DEF Constructs, IsPoolZero
<1>5. \/ run.pool = Unset
      \/ Named(run.pool, list) = {} /\ s = ZeroInfo(FALSE) /\ run.pool # Unset
      \/ run.pool # Unset /\ \E p \in FirstNamed(run.pool, list) : s = Info(p)
  BY DEF Lookup
<1>6. run.given /\ run.sched \in Scheduler
  BY <1>1 DEF Constructs
<1>7. CASE run.pool # Unset /\ \E p \in FirstNamed(run.pool, list) : s = Info(p)
  <2>1. PICK p \in FirstNamed(run.pool, list) : s = Info(p)
    BY <1>7
  <2> QED
    BY <1>4, <1>6, <1>7, <2>1
<1>8. CASE Named(run.pool, list) = {} /\ s = ZeroInfo(FALSE) /\ run.pool # Unset
  BY <1>1, <1>6, <1>8, InfoFields
<1> QED
  BY <1>2, <1>5, <1>7, <1>8

\* Prep finds a pool ready only if the pool it sees fits the run.
LEMMA DecisionReady ==
  ASSUME NEW s, Decision(s) = "ready"
  PROVE  /\ s.present /\ SchedMatches(s) /\ CpuMatches(s)
<1>1. Accepts(s)
  BY DEF Decision
<1> QED
  BY <1>1 DEF Accepts, Matches, IsPoolZero, CpuMatches

LEMMA DecisionPc ==
  ASSUME NEW s
  PROVE  Decision(s) \in {"skipped", "ready", "destroy", "list"}
BY DEF Decision

-----------------------------------------------------------------------------
(* The state is well formed.                                               *)

LEMMA ConfigType ==
  ASSUME TypeOK
  PROVE  run \in RunConfig /\ run.cpus \subseteq Cpu
BY ConfigAssumption DEF TypeOK, RunConfig

\* Between its decision and the last call, Prep works for a run it may make a
\* pool for; without this Create could give a pool any string as a scheduler.
Building ==
  pc \in {"destroy", "list", "free", "create"} =>
    run.given /\ run.pool # Unset /\ run.sched \in Scheduler

TypeInv == TypeOK /\ Building

LEMMA InitTypeInv == Init => TypeInv
<1> SUFFICES ASSUME Init PROVE TypeInv
  OBVIOUS
<1>1. pool \in PoolInfo
  BY HostAssumption DEF Init, ZeroInfo, PoolInfo
<1>2. toFree \in [PoolId -> SUBSET Cpu]
  BY DEF Init
<1>3. /\ live \in SUBSET PoolId /\ 0 \in live
      /\ name \in [PoolId -> Name] /\ name[0] = PoolZero
      /\ sched \in [PoolId -> Scheduler]
      /\ cpus \in [PoolId -> SUBSET Host] /\ cpus[0] # {}
      /\ Disjoint
  BY DEF Init
<1>4. /\ guests = {} /\ busy \subseteq live /\ 0 \in busy
      /\ pc = "prep" /\ run \in RunConfigs /\ disturbed = FALSE
      /\ misreads = 0 /\ faults = 0 /\ admins = 0 /\ leftBehind = 0 /\ runs = 1
  BY DEF Init
<1> QED
  BY <1>1, <1>2, <1>3, <1>4 DEF TypeInv, TypeOK, PcOK, Building

\* Taking cpus out of pools leaves the host well formed.
LEMMA RemovalKeepsHost ==
  ASSUME TypeOK, NEW p \in PoolId, NEW gone, Removable(p, gone),
         cpus' = [cpus EXCEPT ![p] = @ \ gone],
         UNCHANGED <<live, busy>>
  PROVE  /\ cpus' \in [PoolId -> SUBSET Host] /\ cpus'[0] # {}
         /\ Disjoint'
<1>1. cpus' \in [PoolId -> SUBSET Host]
  BY DEF TypeOK
<1>2. cpus'[0] # {}
  BY HostAssumption DEF TypeOK, Removable
<1>3. \A q \in live : cpus'[q] \subseteq cpus[q]
  BY DEF TypeOK
<1>4. Disjoint'
  BY <1>3 DEF Disjoint, TypeOK
<1> QED
  BY <1>1, <1>2, <1>4

LEMMA NextTypeOK == TypeInv /\ [Next]_vars => TypeOK'
<1> SUFFICES ASSUME TypeOK, Building, [Next]_vars PROVE TypeOK'
  BY DEF TypeInv
<1> USE DEF host, bounds, control
<1>1. CASE UNCHANGED vars
  BY <1>1 DEF vars, TypeOK, PcOK, Disjoint
<1>2. CASE NextRun
  <2>1. runs' \in Nat /\ run' \in RunConfigs
    BY <1>2 DEF NextRun, TypeOK
  <2> QED
    BY <1>2, <2>1 DEF NextRun, TypeOK, PcOK, Disjoint
<1>3. CASE Look
  <2>1. PICK list \in {live, {}} : Read(list) /\ \E s \in Lookup(list) :
                                      pool' = s /\ pc' = Decision(s)
    BY <1>3 DEF Look
  <2>2. PICK s \in Lookup(list) : pool' = s /\ pc' = Decision(s)
    BY <2>1
  <2>3. /\ pool' \in PoolInfo
        /\ pc' \in {"skipped", "ready", "destroy", "list"}
    BY <2>2, LookupTyped, DecisionPc
  <2>4. pc' = "destroy" => pool'.id \in live \ {0}
    BY <2>2, DecisionToChange DEF FirstNamed, Named
  <2>5. misreads' \in Nat
    BY <2>1 DEF Read, TypeOK
  <2>6. /\ UNCHANGED <<host, run, toFree, disturbed, faults, admins, leftBehind, runs>>
        /\ pc = "prep"
    BY <1>3 DEF Look
  <2> QED
    BY <2>3, <2>4, <2>5, <2>6 DEF TypeOK, PcOK, Disjoint
<1>4. CASE Destroy
  BY <1>4 DEF Destroy, TypeOK, PcOK, Disjoint
<1>5. CASE DestroyFails
  BY <1>5 DEF DestroyFails, Fault, NoFault, TypeOK, PcOK, Disjoint
<1>6. CASE ListPools
  <2>1. toFree' \in [PoolId -> SUBSET Cpu]
    BY <1>6, ConfigType DEF ListPools
  <2>2. misreads' \in Nat
    BY <1>6 DEF ListPools, Read, TypeOK
  <2> QED
    BY <1>6, <2>1, <2>2 DEF ListPools, TypeOK, PcOK, Disjoint
<1>7. ASSUME NEW p \in PoolId, FreeFrom(p) PROVE TypeOK'
  <2>1. /\ cpus' \in [PoolId -> SUBSET Host] /\ cpus'[0] # {}
        /\ Disjoint'
    BY <1>7, RemovalKeepsHost DEF FreeFrom
  <2> QED
    BY <1>7, <2>1 DEF FreeFrom, Freeing, TypeOK, PcOK
<1>8. ASSUME NEW p \in PoolId, FreeFails(p) PROVE TypeOK'
  <2>1. PICK gone \in SUBSET toFree[p] :
          Removable(p, gone) /\ cpus' = [cpus EXCEPT ![p] = @ \ gone]
    BY <1>8 DEF FreeFails
  <2>2. UNCHANGED <<live, busy>>
    BY <1>8 DEF FreeFails
  <2>3. /\ cpus' \in [PoolId -> SUBSET Host] /\ cpus'[0] # {}
        /\ Disjoint'
    BY <2>1, <2>2, RemovalKeepsHost
  <2> QED
    BY <1>8, <2>3 DEF FreeFails, Freeing, Fault, NoFault, TypeOK, PcOK
<1>9. CASE FreeDone
  BY <1>9 DEF FreeDone, TypeOK, PcOK, Disjoint
<1>10. CASE Create
  <2>1. PICK p \in PoolId \ live :
          /\ live' = live \cup {p}
          /\ name' = [name EXCEPT ![p] = Ours]
          /\ sched' = [sched EXCEPT ![p] = run.sched]
          /\ cpus' = [cpus EXCEPT ![p] = run.cpus]
    BY <1>10 DEF Create
  <2>2. run.cpus \subseteq Free /\ run.cpus \subseteq Host
    BY <1>10 DEF Create, CanCreate, Free
  <2>3. /\ pc = "create" /\ pc' = "ready"
        /\ UNCHANGED <<guests, busy, run, pool, toFree, bounds>>
    BY <1>10 DEF Create
  <2>4. /\ sched' \in [PoolId -> Scheduler]
        /\ name' \in [PoolId -> Name] /\ name'[0] = PoolZero
    BY <2>1, <2>3, HostAssumption DEF TypeOK, Building
  <2>5. cpus' \in [PoolId -> SUBSET Host] /\ cpus'[0] # {}
    BY <2>1, <2>2 DEF TypeOK
  <2>6. Disjoint'
    BY <2>1, <2>2 DEF Disjoint, TypeOK, Free
  <2> QED
    BY <2>1, <2>3, <2>4, <2>5, <2>6 DEF TypeOK, PcOK
<1>11. CASE CreateFails
  BY <1>11 DEF CreateFails, Fault, NoFault, TypeOK, PcOK, Disjoint
<1>12. CASE RunStep
  <2>1. Target \subseteq live
    BY DEF Target, FirstNamed, Named, TypeOK
  <2>2. CASE GetCpumapPanics
    BY <2>2 DEF GetCpumapPanics, TypeOK, PcOK, Disjoint
  <2>3. CASE StartGuests
    BY <2>1, <2>3 DEF StartGuests, TypeOK, PcOK, Disjoint
  <2>4. CASE RunEnds
    BY <2>4 DEF RunEnds, TypeOK, PcOK, Disjoint
  <2>5. CASE RunLeavesGuest
    BY <2>5 DEF RunLeavesGuest, TypeOK, PcOK, Disjoint
  <2> QED
    BY <1>12, <2>2, <2>3, <2>4, <2>5 DEF RunStep
<1>13. ASSUME NEW p \in PoolId, AdminDestroysGuest(p) PROVE TypeOK'
  BY <1>13 DEF AdminDestroysGuest, TypeOK, PcOK, Disjoint
<1>14. ASSUME NEW p \in PoolId, NEW c \in Host, AdminRemoves(p, c) PROVE TypeOK'
  <2>1. /\ cpus' \in [PoolId -> SUBSET Host] /\ cpus'[0] # {}
        /\ Disjoint'
    BY <1>14, RemovalKeepsHost DEF AdminRemoves
  <2> QED
    BY <1>14, <2>1 DEF AdminRemoves, TypeOK, PcOK
<1>15. ASSUME NEW p \in PoolId, NEW c \in Host, AdminAdds(p, c) PROVE TypeOK'
  BY <1>15 DEF AdminAdds, TypeOK, PcOK, Disjoint, Free
<1> QED
  BY <1>1, <1>2, <1>3, <1>4, <1>5, <1>6, <1>7, <1>8, <1>9, <1>10, <1>11, <1>12,
     <1>13, <1>14, <1>15 DEF Next, PrepStep, AdminStep

LEMMA NextBuilding == TypeInv /\ [Next]_vars => Building'
<1> SUFFICES ASSUME TypeOK, Building, [Next]_vars PROVE Building'
  BY DEF TypeInv
<1> USE DEF host, bounds, control
<1>1. CASE Look
  <2>1. PICK list \in {live, {}} : \E s \in Lookup(list) : pc' = Decision(s)
    BY <1>1 DEF Look
  <2>2. PICK s \in Lookup(list) : pc' = Decision(s)
    BY <2>1
  <2> QED
    BY <1>1, <2>2, DecisionToChange, DecisionPc DEF Look, Building
<1>2. CASE NextRun
  BY <1>2 DEF NextRun, Building
<1>3. CASE UNCHANGED <<pc, run>>
  BY <1>3 DEF Building
<1>4. CASE /\ pc \in {"destroy", "list", "free", "create"}
           /\ UNCHANGED run
  BY <1>4 DEF Building
<1>5. CASE pc' \notin {"destroy", "list", "free", "create"}
  BY <1>5 DEF Building
<1>6. PrepStep => \/ Look \/ NextRun
                  \/ pc \in {"destroy", "list", "free", "create"} /\ UNCHANGED run
  BY DEF PrepStep, Destroy, DestroyFails, ListPools, FreeFrom, FreeFails, Freeing,
         FreeDone, Create, CreateFails
<1>7. RunStep => pc' \notin {"destroy", "list", "free", "create"}
  BY DEF RunStep, GetCpumapPanics, StartGuests, RunEnds, RunLeavesGuest
<1>8. AdminStep => UNCHANGED <<pc, run>>
  BY DEF AdminStep, AdminDestroysGuest, AdminRemoves, AdminAdds
<1>9. UNCHANGED vars => UNCHANGED <<pc, run>>
  BY DEF vars
<1> QED
  BY <1>1, <1>2, <1>3, <1>4, <1>5, <1>6, <1>7, <1>8, <1>9 DEF Next

\* The state is well formed in every reachable state: whatever fails, Pool-0
\* survives with a cpu, no cpu is in two pools, and Prep (run.go:286) never
\* sets out to destroy Pool-0.
THEOREM TypeCorrect == Spec => []TypeOK
<1>1. Init => TypeInv
  BY InitTypeInv
<1>2. TypeInv /\ [Next]_vars => TypeInv'
  BY NextTypeOK, NextBuilding DEF TypeInv
<1>3. TypeInv => TypeOK
  BY DEF TypeInv
<1> QED
  BY <1>1, <1>2, <1>3, PTL DEF Spec

\* TypeInv is kept, for the proofs below.
LEMMA NextTypeInv == TypeInv /\ [Next]_vars => TypeInv'
BY NextTypeOK, NextBuilding DEF TypeInv

-----------------------------------------------------------------------------
(* Prep takes only what its run asks for.                                  *)

\* The pool about to be destroyed has the run's name; a run that names Pool-0
\* gets here only because a read failed to show it; and what MakeFree has
\* listed to be removed are cpus of the run.
DestroyNamed == pc = "destroy" => name[pool.id] = run.pool
NotPoolZero  == pc \in {"destroy", "list", "free", "create"} =>
                  (run.pool = PoolZero => misreads > 0)
ListedWanted == pc = "free" => \A p \in PoolId : toFree[p] \subseteq run.cpus

TakeInv == TypeInv /\ DestroyNamed /\ NotPoolZero /\ ListedWanted

\* A look that does not fail shows Pool-0 to a run that names it.
LEMMA PoolZeroIsSeen ==
  ASSUME TypeOK, NEW p \in FirstNamed(PoolZero, live)
  PROVE  p = 0
<1>1. 0 \in Named(PoolZero, live) /\ p \in PoolId
  BY DEF TypeOK, FirstNamed, Named
<1>2. p <= 0
  BY <1>1 DEF FirstNamed
<1> QED
  BY <1>1, <1>2, HostAssumption

LEMMA InitTakeInv == Init => TakeInv
<1> SUFFICES ASSUME Init PROVE TakeInv
  OBVIOUS
<1>1. pc = "prep"
  BY DEF Init
<1> QED
  BY <1>1, InitTypeInv DEF TakeInv, DestroyNamed, NotPoolZero, ListedWanted

LEMMA NextTakeInv == TakeInv /\ [Next]_vars => TakeInv'
<1> SUFFICES ASSUME TakeInv, [Next]_vars
             PROVE  DestroyNamed' /\ NotPoolZero' /\ ListedWanted'
  BY NextTypeInv DEF TakeInv
<1>0. TypeOK
  BY DEF TakeInv, TypeInv
<1> USE DEF TakeInv, DestroyNamed, NotPoolZero, ListedWanted, host, bounds, control
<1>1. CASE UNCHANGED vars
  BY <1>1 DEF vars
<1>2. CASE NextRun
  BY <1>2 DEF NextRun
<1>3. CASE Look
  <2>1. PICK list \in {live, {}} : Read(list) /\ \E s \in Lookup(list) :
                                      pool' = s /\ pc' = Decision(s)
    BY <1>3 DEF Look
  <2>2. PICK s \in Lookup(list) : pool' = s /\ pc' = Decision(s)
    BY <2>1
  <2>3. UNCHANGED <<live, name, run>>
    BY <1>3 DEF Look
  <2>4. pc' = "destroy" => /\ s.id \in FirstNamed(run.pool, list)
                           /\ s.id # 0 /\ name[s.id] = run.pool
    BY <1>0, <2>2, DecisionToChange DEF FirstNamed, Named
  <2>5. pc' = "list" => Named(run.pool, list) = {}
    BY <1>0, <2>2, DecisionToChange
  <2>6. pc' \in {"skipped", "ready", "destroy", "list"}
    BY <2>2, DecisionPc
  <2>7. list # live => misreads' > 0
    BY <1>0, <2>1 DEF Read, TypeOK
  <2>8. ASSUME list = live, run.pool = PoolZero, pc' \in {"destroy", "list"}
        PROVE  FALSE
    <3>1. 0 \in Named(PoolZero, live)
      BY <1>0 DEF Named, TypeOK
    <3> QED
      BY <1>0, <2>4, <2>5, <2>8, <3>1, PoolZeroIsSeen
  <2> QED
    BY <2>2, <2>3, <2>4, <2>6, <2>7, <2>8
<1>4. CASE Destroy
  BY <1>4 DEF Destroy
<1>5. CASE DestroyFails \/ CreateFails
  BY <1>5 DEF DestroyFails, CreateFails
<1>6. CASE ListPools
  <2>1. misreads > 0 => misreads' > 0
    BY <1>0, <1>6 DEF ListPools, Read, TypeOK
  <2>2. \A p \in PoolId : toFree'[p] \subseteq run.cpus
    BY <1>6 DEF ListPools
  <2> QED
    BY <1>6, <2>1, <2>2 DEF ListPools
<1>7. ASSUME NEW p \in PoolId, FreeFrom(p)
      PROVE  DestroyNamed' /\ NotPoolZero' /\ ListedWanted'
  <2>1. \A q \in PoolId : toFree'[q] \subseteq toFree[q]
    BY <1>0, <1>7 DEF FreeFrom, TypeOK
  <2> QED
    BY <1>7, <2>1 DEF FreeFrom, Freeing
<1>8. ASSUME NEW p \in PoolId, FreeFails(p)
      PROVE  DestroyNamed' /\ NotPoolZero' /\ ListedWanted'
  BY <1>8 DEF FreeFails
<1>9. CASE FreeDone
  BY <1>9 DEF FreeDone
<1>10. CASE Create
  BY <1>10 DEF Create
<1>11. CASE RunStep
  BY <1>11 DEF RunStep, GetCpumapPanics, StartGuests, RunEnds, RunLeavesGuest
<1>12. CASE AdminStep
  BY <1>12 DEF AdminStep, AdminDestroysGuest, AdminRemoves, AdminAdds
<1> QED
  BY <1>1, <1>2, <1>3, <1>4, <1>5, <1>6, <1>7, <1>8, <1>9, <1>10, <1>11, <1>12
     DEF Next, PrepStep

\* The step part of TakesOnlyItsOwn.
Takes ==
  admins' = admins =>
    \A p \in PoolId : \A c \in cpus[p] \ cpus'[p] :
      /\ run.given /\ run.pool # Unset /\ (run.pool = PoolZero => misreads > 0)
      /\ c \in run.cpus \/ name[p] = run.pool

LEMMA StepTakes == TakeInv /\ [Next]_vars => Takes
<1> SUFFICES ASSUME TakeInv, [Next]_vars, admins' = admins,
                    NEW p \in PoolId, NEW c \in cpus[p] \ cpus'[p]
             PROVE  /\ run.given /\ run.pool # Unset
                    /\ run.pool = PoolZero => misreads > 0
                    /\ c \in run.cpus \/ name[p] = run.pool
  BY DEF Takes
<1>0. TypeOK /\ Building /\ cpus' # cpus
  BY DEF TakeInv, TypeInv
<1>a. pc \in {"destroy", "list", "free", "create"} =>
        /\ run.given /\ run.pool # Unset
        /\ run.pool = PoolZero => misreads > 0
  BY <1>0 DEF TakeInv, NotPoolZero, Building
<1>1. CASE Destroy
  <2>1. p = pool.id /\ pc = "destroy"
    BY <1>0, <1>1 DEF Destroy, TypeOK
  <2> QED
    BY <1>a, <2>1 DEF TakeInv, DestroyNamed
<1>2. ASSUME NEW q \in PoolId, FreeFrom(q) \/ FreeFails(q)
      PROVE  /\ run.given /\ run.pool # Unset
             /\ run.pool = PoolZero => misreads > 0
             /\ c \in run.cpus \/ name[p] = run.pool
  <2>1. pc = "free" /\ \E gone \in SUBSET toFree[q] :
                          cpus' = [cpus EXCEPT ![q] = @ \ gone]
    BY <1>2 DEF FreeFrom, FreeFails, Freeing
  <2>2. PICK gone \in SUBSET toFree[q] : cpus' = [cpus EXCEPT ![q] = @ \ gone]
    BY <2>1
  <2>3. c \in toFree[q]
    BY <1>0, <2>2 DEF TypeOK
  <2> QED
    BY <1>a, <2>1, <2>3 DEF TakeInv, ListedWanted
<1>3. CASE Create
  <2>1. PICK q \in PoolId \ live : cpus' = [cpus EXCEPT ![q] = run.cpus]
    BY <1>3 DEF Create
  <2>2. p = q /\ pc = "create"
    BY <1>0, <1>3, <2>1 DEF TypeOK, Create
  <2> QED
    BY <1>0, <2>1, <2>2 DEF TypeOK, Disjoint
<1>4. CASE AdminStep
  <2>1. admins' = admins + 1
    BY <1>4 DEF AdminStep, AdminDestroysGuest, AdminRemoves, AdminAdds
  <2> QED
    BY <1>0, <2>1 DEF TypeOK
<1>5. \/ Destroy \/ Create \/ AdminStep
      \/ \E q \in PoolId : FreeFrom(q) \/ FreeFails(q)
  BY <1>0 DEF Next, PrepStep, RunStep, vars, host, control, NextRun, Look, DestroyFails,
       ListPools, FreeDone, CreateFails, GetCpumapPanics, StartGuests, RunEnds,
       RunLeavesGuest
<1> QED
  BY <1>1, <1>2, <1>3, <1>4, <1>5

\* Prep takes cpus out of pools only for a run that gives Cpus and a Pool that
\* is not Pool-0, and only those Cpus or the cpus of the pool it names, for
\* every plan, every administrator and every failure of a call.
THEOREM NothingElseTaken == Spec => TakesOnlyItsOwn
<1>1. Init => TakeInv
  BY InitTakeInv
<1>2. TakeInv /\ [Next]_vars => TakeInv'
  BY NextTakeInv
<1>3. TakeInv /\ [Next]_vars => [Takes]_vars
  BY StepTakes
<1>4. Spec => [][Takes]_vars
  BY <1>1, <1>2, <1>3, PTL DEF Spec
<1> QED
  BY <1>4 DEF Takes, TakesOnlyItsOwn

-----------------------------------------------------------------------------
(* Ready means configured.                                                 *)

\* Once the pool of the run's name is destroyed, or was not there, no pool has
\* that name until Create gives it; and what MakeFree has yet to remove covers
\* every wanted cpu that is still in a pool.
NoneNamed     == pc \in {"list", "free", "create"} /\ misreads = 0 =>
                   Named(run.pool, live) = {}
WantedListed  == pc = "free" /\ misreads = 0 /\ ~disturbed =>
                   \A p \in live : run.cpus \cap cpus[p] \subseteq toFree[p]

PoolInv == /\ TakeInv /\ OnePoolOfAName /\ NoneNamed
           /\ WantedListed /\ WantedCpusAreFree

LEMMA InitPoolInv == Init => PoolInv
<1> SUFFICES ASSUME Init PROVE PoolInv
  OBVIOUS
<1>1. /\ pc = "prep"
      /\ \A p, q \in live : name[p] = name[q] => p = q
  BY DEF Init
<1> QED
  BY <1>1, InitTakeInv
     DEF PoolInv, OnePoolOfAName, NoneNamed, WantedListed, WantedCpusAreFree

\* The name Create gives is the one of the run.
LEMMA CreatesItsName ==
  ASSUME OwnPoolsOnly, TakeInv, misreads = 0,
         pc \in {"destroy", "list", "free", "create"}
  PROVE  run.pool = Ours
BY DEF TakeInv, TypeInv, TypeOK, Building, NotPoolZero, OwnPoolsOnly

\* A failed read is never forgotten.
LEMMA MisreadsStay == TypeOK /\ [Next]_vars /\ misreads' = 0 => misreads = 0
<1> SUFFICES ASSUME TypeOK, [Next]_vars
             PROVE  misreads' = misreads \/ misreads' = misreads + 1
  BY DEF TypeOK
<1> QED
  BY DEF Next, PrepStep, RunStep, AdminStep, vars, bounds, NextRun, Look, Read, Destroy,
       DestroyFails, ListPools, FreeFrom, FreeFails, FreeDone, Create, CreateFails,
       GetCpumapPanics, StartGuests, RunEnds, RunLeavesGuest,
       AdminDestroysGuest, AdminRemoves, AdminAdds

LEMMA NextPoolInv ==
  ASSUME OwnPoolsOnly, PoolInv, [Next]_vars
  PROVE  PoolInv'
<1> SUFFICES OnePoolOfAName' /\ NoneNamed' /\ WantedListed' /\ WantedCpusAreFree'
  BY NextTakeInv DEF PoolInv
<1>0. TypeOK /\ TakeInv
  BY DEF PoolInv, TakeInv, TypeInv
<1>m. misreads' = 0 => misreads = 0
  BY <1>0, MisreadsStay
<1> USE DEF PoolInv, OnePoolOfAName, NoneNamed, WantedListed, WantedCpusAreFree,
            Named, host, bounds, control
<1>1. CASE UNCHANGED vars
  BY <1>1 DEF vars
<1>2. CASE NextRun
  BY <1>2 DEF NextRun
<1>3. CASE Look
  <2>1. PICK list \in {live, {}} : Read(list) /\ \E s \in Lookup(list) :
                                      pool' = s /\ pc' = Decision(s)
    BY <1>3 DEF Look
  <2>2. PICK s \in Lookup(list) : pool' = s /\ pc' = Decision(s)
    BY <2>1
  <2>3. pc' = "list" => Named(run.pool, list) = {}
    BY <1>0, <2>2, DecisionToChange
  <2>4. pc' \in {"skipped", "ready", "destroy", "list"}
    BY <2>2, DecisionPc
  <2>5. misreads' = 0 => list = live
    BY <1>0, <2>1 DEF Read, TypeOK
  <2>6. UNCHANGED <<live, name, run>>
    BY <1>3 DEF Look
  <2> QED
    BY <1>m, <2>3, <2>4, <2>5, <2>6
<1>4. CASE Destroy
  <2>1. name[pool.id] = run.pool /\ pool.id \in live
    BY <1>0, <1>4 DEF Destroy, TakeInv, DestroyNamed, TypeOK
  <2>2. live' = live \ {pool.id} /\ pc' = "list" /\ UNCHANGED <<name, run, misreads>>
    BY <1>4 DEF Destroy
  <2>3. misreads = 0 => Named(run.pool, live') = {}
    BY <2>1, <2>2
  <2> QED
    BY <2>2, <2>3
<1>5. CASE DestroyFails \/ CreateFails
  BY <1>5 DEF DestroyFails, CreateFails
<1>6. CASE ListPools
  <2>1. PICK list \in {live, {}} :
          /\ Read(list)
          /\ toFree' = [p \in PoolId |-> IF p \in list THEN run.cpus \cap cpus[p] ELSE {}]
    BY <1>6 DEF ListPools
  <2>2. misreads' = 0 => list = live
    BY <1>0, <2>1 DEF Read, TypeOK
  <2>3. misreads' = 0 => \A p \in live : toFree'[p] = run.cpus \cap cpus[p]
    BY <1>0, <2>1, <2>2 DEF TypeOK
  <2>4. pc = "list" /\ pc' = "free" /\ UNCHANGED <<live, name, cpus, run>>
    BY <1>6 DEF ListPools
  <2> QED
    BY <1>m, <2>3, <2>4
<1>7. ASSUME NEW p \in PoolId, FreeFrom(p)
      PROVE  OnePoolOfAName' /\ NoneNamed' /\ WantedListed' /\ WantedCpusAreFree'
  <2>1. /\ cpus' = [cpus EXCEPT ![p] = @ \ toFree[p]]
        /\ toFree' = [toFree EXCEPT ![p] = {}]
        /\ pc = "free" /\ UNCHANGED <<live, name, pc, run, misreads, disturbed>>
    BY <1>7 DEF FreeFrom, Freeing
  <2>2. ASSUME NEW q \in live, misreads = 0, ~disturbed
        PROVE  run.cpus \cap cpus'[q] \subseteq toFree'[q]
    <3>1. run.cpus \cap cpus[q] \subseteq toFree[q]
      BY <2>1, <2>2
    <3> QED
      BY <1>0, <2>1, <3>1 DEF TypeOK
  <2> QED
    BY <2>1, <2>2
<1>8. ASSUME NEW p \in PoolId, FreeFails(p)
      PROVE  OnePoolOfAName' /\ NoneNamed' /\ WantedListed' /\ WantedCpusAreFree'
  BY <1>8 DEF FreeFails
<1>9. CASE FreeDone
  <2>1. misreads = 0 /\ ~disturbed => \A p \in live : run.cpus \cap cpus[p] = {}
    BY <1>0, <1>9 DEF FreeDone, TypeOK
  <2>2. pc = "free" /\ pc' = "create"
        /\ UNCHANGED <<live, name, cpus, run, misreads, disturbed>>
    BY <1>9 DEF FreeDone
  <2> QED
    BY <2>1, <2>2
<1>10. CASE Create
  <2>1. PICK p \in PoolId \ live :
          live' = live \cup {p} /\ name' = [name EXCEPT ![p] = Ours]
    BY <1>10 DEF Create
  <2>2. pc = "create" /\ pc' = "ready" /\ UNCHANGED misreads
    BY <1>10 DEF Create
  <2>3. misreads = 0 => Named(Ours, live) = {}
    BY <1>0, <2>2, CreatesItsName
  <2>4. misreads = 0 => \A q \in live : name[q] # Ours /\ name'[q] = name[q]
    BY <1>0, <2>1, <2>3 DEF TypeOK
  <2>5. name'[p] = Ours
    BY <1>0, <2>1 DEF TypeOK
  <2>6. OnePoolOfAName'
    BY <2>1, <2>2, <2>4, <2>5
  <2> QED
    BY <2>2, <2>6
<1>11. CASE RunStep
  BY <1>m, <1>11 DEF RunStep, GetCpumapPanics, StartGuests, RunEnds, RunLeavesGuest
<1>12. CASE AdminStep
  <2>1. UNCHANGED <<live, name, pc, run, toFree, misreads>>
    BY <1>12 DEF AdminStep, AdminDestroysGuest, AdminRemoves, AdminAdds
  <2>2. disturbed' = TRUE \/ UNCHANGED <<cpus, disturbed>>
    BY <1>12 DEF AdminStep, AdminDestroysGuest, AdminRemoves, AdminAdds
  <2> QED
    BY <2>1, <2>2
<1> QED
  BY <1>1, <1>2, <1>3, <1>4, <1>5, <1>6, <1>7, <1>8, <1>9, <1>10, <1>11, <1>12
     DEF Next, PrepStep

\* When Prep creates its pool no other pool has a wanted cpu.
THEOREM WantedCpusFreed ==
  ASSUME OwnPoolsOnly
  PROVE  Spec => []WantedCpusAreFree
<1>1. Init => PoolInv
  BY InitPoolInv
<1>2. PoolInv /\ [Next]_vars => PoolInv'
  BY NextPoolInv
<1>3. PoolInv => WantedCpusAreFree
  BY DEF PoolInv
<1> QED
  BY <1>1, <1>2, <1>3, PTL DEF Spec

\* As long as no read fails there is one pool of a name, for every plan that
\* gives Cpus only with the default pool or the pool "schedbench".
THEOREM NamesUnique ==
  ASSUME OwnPoolsOnly
  PROVE  Spec => []OnePoolOfAName
<1>1. Init => PoolInv
  BY InitPoolInv
<1>2. PoolInv /\ [Next]_vars => PoolInv'
  BY NextPoolInv
<1>3. PoolInv => OnePoolOfAName
  BY DEF PoolInv
<1> QED
  BY <1>1, <1>2, <1>3, PTL DEF Spec

ReadyInv == PoolInv /\ ReadyIsConfigured

\* A look that finds the pool ready finds the pool the run will use.
LEMMA LookReady ==
  ASSUME TypeOK, Look, misreads' = 0, pc' = "ready"
  PROVE  ReadyIsConfigured'
<1>1. PICK list \in {live, {}} : Read(list) /\ \E s \in Lookup(list) :
                                    pool' = s /\ pc' = Decision(s)
  BY DEF Look
<1>2. PICK s \in Lookup(live) : Decision(s) = "ready"
  BY <1>1 DEF Read, TypeOK
<1>3. s.present /\ SchedMatches(s) /\ CpuMatches(s)
  BY <1>2, DecisionReady
<1>4. UNCHANGED <<live, name, sched, cpus, run>>
  BY DEF Look, host
<1>5. PICK p \in live : s = Info(p) /\ Target = {p}
  <2>1. CASE run.pool = Unset
    <3>1. s = Info(0) /\ 0 \in live
      BY <2>1 DEF Lookup, TypeOK
    <3> QED
      BY <2>1, <3>1 DEF Target
  <2>2. CASE run.pool # Unset
    <3>1. \/ s = ZeroInfo(FALSE)
          \/ \E p \in FirstNamed(run.pool, live) : s = Info(p)
      BY <2>2 DEF Lookup
    <3>2. PICK p \in FirstNamed(run.pool, live) : s = Info(p)
      BY <1>3, <3>1, InfoFields
    <3>3. \A q \in FirstNamed(run.pool, live) : q = p
      <4> SUFFICES ASSUME NEW q \in FirstNamed(run.pool, live) PROVE q = p
        OBVIOUS
      <4>1. p <= q /\ q <= p /\ p \in Nat /\ q \in Nat
        BY <3>2, HostAssumption DEF FirstNamed, Named, TypeOK
      <4> QED
        BY <4>1
    <3> QED
      BY <2>2, <3>2, <3>3 DEF Target, FirstNamed, Named
  <2> QED
    BY <2>1, <2>2
<1>6. Target' = {p}
  BY <1>4, <1>5 DEF Target, FirstNamed, Named
<1>7. run.sched # Unset => sched[p] = run.sched
  BY <1>3, <1>5, InfoFields DEF SchedMatches
<1>8. run.given => \A c \in InMap : c \in cpus[p] <=> c \in run.cpus
  BY <1>3, <1>5, InfoFields DEF CpuMatches
<1> QED
  BY <1>4, <1>5, <1>6, <1>7, <1>8 DEF ReadyIsConfigured

\* A pool that was created is the one of the run's name, as the run wants it.
LEMMA CreateReady ==
  ASSUME OwnPoolsOnly, PoolInv, Create, misreads = 0
  PROVE  ReadyIsConfigured'
<1>0. TypeOK /\ TakeInv /\ pc = "create" /\ run.pool # Unset
  BY DEF PoolInv, TakeInv, TypeInv, Building, Create
<1>1. PICK p \in PoolId \ live :
        /\ live' = live \cup {p}
        /\ name' = [name EXCEPT ![p] = Ours]
        /\ sched' = [sched EXCEPT ![p] = run.sched]
        /\ cpus' = [cpus EXCEPT ![p] = run.cpus]
  BY DEF Create
<1>2. run.pool = Ours
  BY <1>0, CreatesItsName
<1>3. \A q \in live : name[q] # Ours
  BY <1>0, <1>2 DEF PoolInv, NoneNamed, Named
<1>4. UNCHANGED run
  BY DEF Create
<1>5. Named(Ours, live)' = {p}
  BY <1>0, <1>1, <1>3 DEF Named, TypeOK
<1>6. FirstNamed(Ours, live)' = {p}
  <2>1. p <= p
    BY HostAssumption
  <2> QED
    BY <1>5, <2>1 DEF FirstNamed
<1>7. Target' = {p}
  BY <1>0, <1>2, <1>4, <1>6 DEF Target
<1>8. sched'[p] = run.sched /\ cpus'[p] = run.cpus /\ p \in live'
  BY <1>0, <1>1 DEF TypeOK
<1> QED
  BY <1>4, <1>7, <1>8 DEF ReadyIsConfigured

LEMMA NextReadyInv ==
  ASSUME OwnPoolsOnly, ReadyInv, [Next]_vars
  PROVE  ReadyInv'
<1>0. TypeOK /\ PoolInv
  BY DEF ReadyInv, PoolInv, TakeInv, TypeInv
<1>1. PoolInv'
  BY <1>0, NextPoolInv
<1> SUFFICES ASSUME pc' = "ready", misreads' = 0, disturbed' = FALSE
             PROVE  ReadyIsConfigured'
  BY <1>0, <1>1, NextTypeInv DEF ReadyInv, ReadyIsConfigured, PoolInv, TakeInv, TypeInv, TypeOK
<1>m. misreads = 0
  BY <1>0, MisreadsStay
<1>2. CASE Look
  BY <1>0, <1>2, LookReady
<1>3. CASE Create
  BY <1>0, <1>m, <1>3, CreateReady
<1>4. CASE UNCHANGED <<live, name, sched, cpus, pc, run, disturbed>>
  BY <1>m, <1>4 DEF ReadyInv, ReadyIsConfigured, Target, FirstNamed, Named
<1>5. PrepStep => Look \/ Create
  BY <1>0 DEF PrepStep, TypeOK, PcOK, NextRun, Destroy, DestroyFails, ListPools, FreeFrom,
       FreeFails, Freeing, FreeDone, CreateFails
<1>6. ~RunStep
  BY DEF RunStep, GetCpumapPanics, StartGuests, RunEnds, RunLeavesGuest
<1>7. AdminStep => UNCHANGED <<live, name, sched, cpus, pc, run, disturbed>>
  BY DEF AdminStep, AdminDestroysGuest, AdminRemoves, AdminAdds, control
<1>8. UNCHANGED vars => UNCHANGED <<live, name, sched, cpus, pc, run, disturbed>>
  BY DEF vars, host, control, bounds
<1> QED
  BY <1>2, <1>3, <1>4, <1>5, <1>6, <1>7, <1>8 DEF Next

\* When Prep reports ready, the pool the run will use exists and is as its
\* RunConfig says, whatever Preps failed half-way before, for every plan that
\* gives Cpus only with the default pool or the pool "schedbench".
THEOREM ReadyMeansConfigured ==
  ASSUME OwnPoolsOnly
  PROVE  Spec => []ReadyIsConfigured
<1>1. Init => ReadyInv
  BY InitPoolInv DEF ReadyInv, ReadyIsConfigured, Init
<1>2. ReadyInv /\ [Next]_vars => ReadyInv'
  BY NextReadyInv
<1>3. ReadyInv => ReadyIsConfigured
  BY DEF ReadyInv
<1> QED
  BY <1>1, <1>2, <1>3, PTL DEF Spec
=============================================================================
