--------------------------- MODULE Session_proofs ---------------------------
(***************************************************************************)
(* Safety of Session for any plan, any number of workers, commands, faults *)
(* and ^Cs.  Types is TypeOK with the bounds that each phase adds.         *)
(* WorkerInv follows a worker from Init's steps to the end of its          *)
(* goroutine: how its set-up ended says whether it has a domid, and until  *)
(* it is unpaused what its guest is.  LeftInv says whose guests may be on  *)
(* the host.                                                               *)
(***************************************************************************)
EXTENDS Session, TLAPS

USE DEF Name, Runs, NoGuest, Guest

Settings == {"none", "ok", "nodomain", "nodomid", "noconsole", "deadconsole"}

Control ==
  /\ pc \in {"down", "next", "running", "waiting", "save"} \cup DOMAIN FailureAt
  /\ i \in 1 .. N + 1 /\ k \in Name
  /\ InSetup \/ InRun \/ pc = "save" => i \in Runs /\ attempt > 0
  /\ InSetup => k \in Workers

Flags ==
  /\ notified \in BOOLEAN /\ pending \in BOOLEAN /\ hard \in BOOLEAN /\ completed \in BOOLEAN

Locals ==
  /\ err \in {"nil", "early", "interrupted"}
  /\ setup \in [Name -> Settings] /\ domid \in [Name -> 0 .. attempt]
  /\ gor \in [Name -> {"idle", "unpause", "scan", "silent", "done"}]

Guests ==
  /\ guest \in [Name -> Guest] /\ \A w \in Name : guest[w].run \in 0 .. attempt

Results ==
  /\ result \in [Runs -> [saved : BOOLEAN, made : SUBSET Name, ran : SUBSET Name,
                         hard : BOOLEAN]]

History ==
  /\ attempt \in Nat /\ ran \subseteq Name /\ excused \subseteq 0 .. attempt
  /\ commands \in Nat /\ faults \in Nat /\ sigints \in Nat

\* TypeOK, and what i, k and the guests may be in each phase.
Types == Control /\ Flags /\ Locals /\ Guests /\ Results /\ History

\* What the way Init ended says of a worker's domid,
KnownAs(state, d) ==
  /\ state \in {"ok", "deadconsole", "noconsole"} => d = attempt
  /\ state \in {"nodomid", "nodomain"} => d = 0

\* and of its guest, until it is unpaused or destroyed.
FreshAs(state, g) ==
  /\ state \in {"ok", "deadconsole"} =>
       g = [run |-> attempt, up |-> FALSE, args |-> attempt]
  /\ state = "noconsole" => g.run = attempt /\ ~g.up

SetUpAs(state, d, g) == state # "none" /\ KnownAs(state, d) /\ FreshAs(state, g)

\* While Init is at worker k: those before it are set up, it is half-way.
SetupInv ==
  InSetup =>
    /\ \A w \in Name : w < k => SetUpAs(setup[w], domid[w], guest[w])
    /\ \A w \in Name : w >= k => setup[w] = "none"
    /\ \A w \in Name : w > k => domid[w] = 0
    /\ pc \in {"create", "domid"} => domid[k] = 0
    /\ pc \in {"xenstore", "console"} => domid[k] = attempt
    /\ pc # "create" =>
         guest[k] = [run |-> attempt, up |-> FALSE,
                     args |-> IF pc = "console" THEN attempt ELSE 0]
    /\ ran = {}

\* A worker in a run: a goroutine that is done had a console, and a worker that
\* had a console and is unpaused ran its own guest.
InRunAs(w) ==
  /\ setup[w] # "none" /\ KnownAs(setup[w], domid[w])
  /\ gor[w] # "idle"
  /\ gor[w] = "unpause" /\ Own(w) => FreshAs(setup[w], guest[w])
  /\ gor[w] = "done" => setup[w] \in {"ok", "deadconsole"}
  /\ gor[w] \in {"scan", "done"} /\ setup[w] \in {"ok", "deadconsole"} => w \in ran

RunInv ==
  InRun =>
    /\ \A w \in Workers : InRunAs(w)
    /\ \A w \in Name : w \notin Workers => gor[w] = "idle"
    /\ ran \subseteq Workers

SaveInv == pc = "save" => ran \subseteq Workers /\ (hard \/ Workers \subseteq ran)

WorkerInv == SetupInv /\ RunInv /\ SaveInv

\* A guest that is there and not excused belongs to the run at hand, as one of
\* those that Init has come to.
AtHand(w) == (InSetup /\ w <= k) \/ (pc = "running" /\ w \in Workers)

LeftInv ==
  \A w \in Name : guest[w] # NoGuest =>
    guest[w].run \in excused \/ (guest[w].run = attempt /\ AtHand(w))

-----------------------------------------------------------------------------
(* Types.                                                                  *)

\* The four steps of Init and what their failures are called.
LEMMA Failures ==
  /\ DOMAIN FailureAt = {"create", "domid", "xenstore", "console"}
  /\ FailureAt["create"] = "nodomain" /\ FailureAt["domid"] = "nodomid"
  /\ FailureAt["xenstore"] = "noconsole" /\ FailureAt["console"] = "deadconsole"
  /\ \A x \in DOMAIN FailureAt :
       FailureAt[x] \in {"nodomain", "nodomid", "noconsole", "deadconsole"}
  /\ {FailureAt[x] : x \in DOMAIN FailureAt}
       = {"nodomain", "nodomid", "noconsole", "deadconsole"}
  BY DEF FailureAt

LEMMA TypesInit == Init => Types
  <1> SUFFICES ASSUME Init PROVE Types
    OBVIOUS
  <1>1. Control
    BY Failures, SessionAssumption DEF Init, Control, InSetup, InRun
  <1>2. Flags
    BY Zenon DEF Init, Flags
  <1>3. Locals
    BY DEF Init, Locals, Settings
  <1>4. Guests
    BY DEF Init, Guests
  <1>5. Results
    BY DEF Init, NotSaved, Results
  <1>6. History
    BY DEF Init, History
  <1> QED BY <1>1, <1>2, <1>3, <1>4, <1>5, <1>6 DEF Types

\* What the end of an Init does to the control.
LEMMA SettledStep ==
  ASSUME Control, Flags, Locals, InSetup, NEW states \in [Name -> Settings], Settled(states)
  PROVE  /\ pc' \in {"create", "running"} /\ i' = i /\ k' \in 1 .. Size[i]
         /\ notified' \in BOOLEAN /\ setup' = states
         /\ gor' \in [Name -> {"idle", "unpause", "scan", "silent", "done"}]
         /\ UNCHANGED <<pending, err, completed, hard, domid>>
  <1>1. i \in Runs /\ k \in 1 .. Size[i] /\ Size[i] \in 1 .. Names
    BY SessionAssumption DEF Control, Workers
  <1>2. /\ gor \in [Name -> {"idle", "unpause", "scan", "silent", "done"}]
        /\ notified \in BOOLEAN
    BY DEF Locals, Flags
  <1>3. CASE k < Size[i]
    <2>1. k + 1 \in 1 .. Size[i]
      BY <1>1, <1>3
    <2> QED BY <1>2, <1>3, <2>1 DEF Settled
  <1>4. CASE ~(k < Size[i])
    BY <1>1, <1>2, <1>4 DEF Settled
  <1> QED BY <1>3, <1>4

\* The set-up after a failure, alone or with the consoles.
LEMMA FailedSetup ==
  ASSUME Locals, InSetup
  PROVE  /\ [setup EXCEPT ![k] = FailureAt[pc]] \in [Name -> Settings]
         /\ ConsolesDie \in [Name -> Settings]
         /\ [ConsolesDie EXCEPT ![k] = FailureAt[pc]] \in [Name -> Settings]
  <1>1. FailureAt[pc] \in Settings
    BY Failures DEF InSetup, Settings
  <1>2. ConsolesDie \in [Name -> Settings]
    BY DEF ConsolesDie, Locals, Settings
  <1> QED BY <1>1, <1>2 DEF Locals

\* A guest that xl create has made is one, even if it was killed then.
LEMMA KilledStep ==
  ASSUME Guests, History, NEW g \in [Name -> Guest], g = guest \/ g = [guest EXCEPT ![k] = Made]
  PROVE  \A w \in Name : g[w].run \in 0 .. attempt
  <1>1. Made.run = attempt
    BY DEF Made
  <1> QED BY <1>1 DEF Guests, History

LEMMA KilledType ==
  ASSUME Guests, History, KilledCreate
  PROVE  guest' \in [Name -> Guest] /\ \A w \in Name : guest'[w].run \in 0 .. attempt
  <1>1. Made \in Guest
    BY DEF Made, History
  <1>2. guest' \in [Name -> Guest]
    BY <1>1 DEF KilledCreate, Guests
  <1> QED BY <1>2, KilledStep DEF KilledCreate

\* What a stop does to the guests and to the history.
LEMMA StopStep ==
  ASSUME Control, Guests, History, InRun, Stop
  PROVE  /\ guest' \in [Name -> Guest] /\ \A w \in Name : guest'[w].run \in 0 .. attempt
         /\ attempt' = attempt /\ ran' = ran /\ excused' \subseteq 0 .. attempt
         /\ commands' \in Nat /\ faults' \in Nat /\ sigints' \in Nat
  <1>1. NoGuest \in Guest /\ NoGuest.run \in 0 .. attempt
    BY DEF History
  <1>2. PICK stay \in Left :
          /\ IF stay = {} THEN NoFault ELSE Fault
          /\ guest' = [w \in Name |-> IF w \in ToDestroy \ stay THEN NoGuest ELSE guest[w]]
          /\ excused' = excused \cup {guest[w].run : w \in stay}
    BY DEF Stop
  <1>3. /\ guest' \in [Name -> Guest] /\ \A w \in Name : guest'[w].run \in 0 .. attempt
        /\ excused' \subseteq 0 .. attempt
        /\ commands' \in Nat /\ faults' \in Nat /\ sigints' \in Nat
    <2>1. stay \subseteq Name
      BY SessionAssumption DEF Left, ToDestroy, Control, Workers
    <2>2. /\ guest' \in [Name -> Guest] /\ \A w \in Name : guest'[w].run \in 0 .. attempt
      BY <1>1, <1>2 DEF Guests
    <2>3. excused' \subseteq 0 .. attempt
      BY <1>2, <2>1 DEF Guests, History
    <2>4. commands' \in Nat /\ faults' \in Nat /\ sigints' \in Nat
      BY <1>2 DEF Fault, NoFault, bounds, History
    <2> QED BY <2>2, <2>3, <2>4
  <1>4. attempt' = attempt /\ ran' = ran
    BY DEF Stop
  <1> QED BY <1>3, <1>4

LEMMA ControlStep == Types /\ Next => Control'
  <1> SUFFICES ASSUME Types, Next PROVE Control'
    OBVIOUS
  <1> USE DEF Types
  <1>1. CASE Command
    BY <1>1, SessionAssumption, Failures
       DEF Control, InSetup, InRun, Workers, inRun, host, history, Command
  <1>2. CASE PassOver
    BY <1>2, SessionAssumption, Failures
       DEF Control, InSetup, InRun, Workers, NextRun, Exit, inRun, host, history, PassOver
  <1>3. CASE BeginRun
    BY <1>3, SessionAssumption, Failures DEF History, Control, InSetup, InRun, Workers, host, BeginRun
  <1>4. CASE AllDone
    BY <1>4, SessionAssumption, Failures
       DEF Control, InSetup, InRun, Workers, Exit, inRun, host, history, AllDone
  <1>5. CASE Create
    BY <1>5, SessionAssumption, Failures
       DEF Control, InSetup, InRun, Workers, inRun, history, Create
  <1>6. CASE NameTaken
    BY <1>6, SessionAssumption, Failures
       DEF Control, InSetup, InRun, Workers, Settled, host, history, NameTaken
  <1>7. CASE GetDomid
    BY <1>7, SessionAssumption, Failures
       DEF Control, InSetup, InRun, Workers, host, history, GetDomid
  <1>8. CASE WriteArgs
    BY <1>8, SessionAssumption, Failures
       DEF Control, InSetup, InRun, Workers, inRun, history, WriteArgs
  <1>9. CASE StartConsole
    BY <1>9, SessionAssumption, Failures
       DEF Control, InSetup, InRun, Workers, Settled, host, history, StartConsole
  <1>10. CASE StepFails
    <2>1. /\ i \in Runs /\ attempt > 0 /\ attempt' = attempt
          /\ Size[i] \in 1 .. Names
      BY <1>10, SessionAssumption DEF StepFails, Control, history
    <2>2. pc' \in {"create", "running"} /\ i' = i /\ k' \in 1 .. Size[i]
      BY <1>10, FailedSetup, SettledStep DEF StepFails
    <2>3. i' \in 1 .. N + 1 /\ k' \in Name /\ k' \in Workers' /\ i' \in Runs /\ attempt' > 0
      BY <2>1, <2>2, SessionAssumption DEF Workers
    <2> QED BY <2>2, <2>3, Failures DEF Control
  <1>11. CASE Timeout
    BY <1>11, SessionAssumption, Failures DEF Control, InSetup, InRun, Workers, Stop, Timeout
  <1>12. CASE AllLeft
    BY <1>12, SessionAssumption, Failures
       DEF Control, InSetup, InRun, Workers, Returned, inRun, host, history, AllLeft
  <1>13. CASE TakeInterrupt
    BY <1>13, SessionAssumption, Failures
       DEF Control, InSetup, InRun, Workers, Stop, TakeInterrupt
  <1>14. CASE HardExit
    BY <1>14, SessionAssumption, Failures
       DEF Control, InSetup, InRun, Workers, Returned, host, history, HardExit
  <1>15. CASE Save
    <2>1. /\ i \in Runs /\ i + 1 \in 1 .. N + 1 /\ pc' \in {"next", "down"} /\ k' = k
          /\ i' \in {i, i + 1}
      BY <1>15, SessionAssumption DEF Save, Control, NextRun, Exit
    <2> QED BY <2>1, Failures DEF Control, InSetup, InRun
  <1>16. CASE Dies
    BY <1>16, SessionAssumption, Failures
       DEF Control, InSetup, InRun, Workers, Exit, inRun, Dies
  <1>17. CASE InterruptSetup
    <2>1. /\ i \in Runs /\ attempt > 0 /\ attempt' = attempt
          /\ Size[i] \in 1 .. Names
      BY <1>17, SessionAssumption DEF InterruptSetup, Control, history
    <2>2. CASE UNCHANGED <<pc, i, k>>
      BY <2>1, <2>2, Failures DEF Control, InSetup, InRun, Workers
    <2>3. CASE Settled([ConsolesDie EXCEPT ![k] = FailureAt[pc]])
      <3>1. pc' \in {"create", "running"} /\ i' = i /\ k' \in 1 .. Size[i]
        BY <1>17, <2>3, FailedSetup, SettledStep DEF InterruptSetup
      <3>2. i' \in 1 .. N + 1 /\ k' \in Name /\ k' \in Workers' /\ i' \in Runs /\ attempt' > 0
        BY <2>1, <3>1, SessionAssumption DEF Workers
      <3> QED BY <3>1, <3>2, Failures DEF Control
    <2> QED BY <1>17, <2>2, <2>3 DEF InterruptSetup
  <1>18. ASSUME NEW w \in Name, NilConsole(w) PROVE Control'
    BY <1>18, SessionAssumption, Failures
       DEF Control, InSetup, InRun, Workers, Exit, inRun, host, NilConsole
  <1>19. ASSUME NEW w \in Name, LeavesEarly(w) PROVE Control'
    BY <1>19, SessionAssumption, Failures
       DEF Control, InSetup, InRun, Workers, Stop, LeavesEarly
  <1>20. CASE InterruptRun \/ InterruptLost
    BY <1>20, SessionAssumption, Failures
       DEF Control, InSetup, InRun, Workers, inRun, host, history, InterruptRun, InterruptLost
  <1>21. ASSUME NEW w \in Name,
                Unpause(w) \/ UnpauseFails(w) \/ LeavesAfterStop(w) \/ GuestExits(w)
         PROVE  Control'
    BY <1>21, SessionAssumption, Failures
       DEF Control, InSetup, InRun, Workers, inRun, host, history, Unpause, UnpauseFails,
           LeavesAfterStop, GuestExits
  <1> QED BY <1>1, <1>2, <1>3, <1>4, <1>5, <1>6, <1>7, <1>8, <1>9, <1>10, <1>11, <1>12, <1>13,
             <1>14, <1>15, <1>16, <1>17, <1>18, <1>19, <1>20, <1>21
             DEF Next, Goroutine, Done, SetupStep, PlanStep

LEMMA FlagsStep == Types /\ Next => Flags'
  <1> SUFFICES ASSUME Types, Next PROVE Flags'
    OBVIOUS
  <1> USE DEF Types
  <1>1. CASE Command
    BY <1>1, Zenon DEF Flags, inRun, history, host, Command
  <1>2. CASE BeginRun
    BY <1>2, Zenon DEF Flags, host, BeginRun
  <1>3. CASE NameTaken
    BY <1>3, Zenon DEF Flags, history, host, Settled, NameTaken
  <1>4. CASE StartConsole
    BY <1>4, Zenon DEF Flags, history, host, Settled, StartConsole
  <1>5. CASE StepFails
    BY <1>5, Zenon DEF Flags, history, host, Settled, StepFails
  <1>6. CASE Timeout
    BY <1>6, Zenon DEF Flags, Stop, Timeout
  <1>7. CASE TakeInterrupt
    BY <1>7, Zenon DEF Flags, Stop, TakeInterrupt
  <1>8. CASE HardExit
    BY <1>8, Zenon DEF Flags, history, host, Returned, HardExit
  <1>9. CASE InterruptSetup
    BY <1>9, Zenon DEF Flags, history, Settled, InterruptSetup
  <1>10. CASE InterruptRun
    BY <1>10, Zenon DEF Flags, history, host, InterruptRun
  <1>11. CASE \/ PassOver \/ AllDone \/ Create \/ GetDomid \/ WriteArgs \/ AllLeft \/ Save
              \/ Dies \/ InterruptLost
    BY <1>11, Zenon DEF Flags, inRun, history, host, Returned, NextRun, Exit, PassOver, AllDone,
                        Create, GetDomid, WriteArgs, AllLeft, Save, Dies, InterruptLost
  <1>12. ASSUME NEW w \in Name,
                Unpause(w) \/ UnpauseFails(w) \/ NilConsole(w) \/ LeavesEarly(w)
                \/ LeavesAfterStop(w) \/ GuestExits(w)
         PROVE  Flags'
    BY <1>12, Zenon DEF Flags, inRun, history, host, Exit, Stop, Unpause, UnpauseFails,
                        NilConsole, LeavesEarly, LeavesAfterStop, GuestExits
  <1> QED BY <1>1, <1>2, <1>3, <1>4, <1>5, <1>6, <1>7, <1>8, <1>9, <1>10, <1>11, <1>12
             DEF Next, Goroutine, Done, SetupStep, PlanStep

LEMMA LocalsStep == Types /\ Next => Locals'
  <1> SUFFICES ASSUME Types, Next PROVE Locals'
    OBVIOUS
  <1> USE DEF Types
  <1>1. CASE BeginRun
    BY <1>1, SessionAssumption, Failures DEF History, Guests, Locals, host, Settings, BeginRun
  <1>2. CASE NameTaken
    BY <1>2, SessionAssumption, Failures DEF Locals, host, history, Settings, Settled, NameTaken
  <1>3. CASE GetDomid
    BY <1>3, SessionAssumption, Failures DEF History, Guests, Locals, host, history, Settings, GetDomid
  <1>4. CASE StartConsole
    BY <1>4, SessionAssumption, Failures
       DEF Locals, host, history, Settings, Settled, StartConsole
  <1>5. CASE StepFails
    BY <1>5, SessionAssumption, Failures
       DEF Locals, host, history, Settings, Settled, InSetup, StepFails
  <1>6. CASE Timeout
    BY <1>6, SessionAssumption, Failures DEF Locals, Settings, Stop, Timeout
  <1>7. CASE TakeInterrupt
    BY <1>7, SessionAssumption, Failures DEF Locals, Settings, Stop, TakeInterrupt
  <1>8. CASE InterruptSetup
    <2>1. CASE Settled([ConsolesDie EXCEPT ![k] = FailureAt[pc]])
      BY <1>8, <2>1, FailedSetup, SettledStep DEF InterruptSetup, Locals, history
    <2>2. CASE setup' = ConsolesDie /\ UNCHANGED <<err, domid, gor>>
      BY <1>8, <2>2, FailedSetup DEF InterruptSetup, Locals, history
    <2> QED BY <1>8, <2>1, <2>2 DEF InterruptSetup
  <1>9. CASE InterruptRun
    BY <1>9, SessionAssumption, Failures
       DEF Locals, host, history, Settings, ConsolesDie, InterruptRun
  <1>10. ASSUME NEW w \in Name, Unpause(w) PROVE Locals'
    BY <1>10, SessionAssumption, Failures DEF Locals, Settings, Unpause
  <1>11. ASSUME NEW w \in Name, UnpauseFails(w) PROVE Locals'
    BY <1>11, SessionAssumption, Failures DEF Locals, host, history, Settings, UnpauseFails
  <1>12. ASSUME NEW w \in Name, LeavesEarly(w) PROVE Locals'
    BY <1>12, SessionAssumption, Failures DEF Locals, Settings, Stop, LeavesEarly
  <1>13. ASSUME NEW w \in Name, LeavesAfterStop(w) PROVE Locals'
    BY <1>13, SessionAssumption, Failures DEF Locals, host, history, Settings, LeavesAfterStop
  <1>14. CASE \/ Command \/ PassOver \/ AllDone \/ Create \/ WriteArgs \/ AllLeft \/ HardExit
              \/ Save \/ Dies \/ InterruptLost
    BY <1>14, SessionAssumption, Failures
       DEF Locals, inRun, host, history, Settings, Command, PassOver, AllDone, Create,
           WriteArgs, AllLeft, HardExit, Save, Dies, InterruptLost
  <1>15. ASSUME NEW w \in Name, NilConsole(w) \/ GuestExits(w) PROVE Locals'
    BY <1>15, SessionAssumption, Failures
       DEF Locals, inRun, host, history, Settings, NilConsole, GuestExits
  <1> QED BY <1>1, <1>2, <1>3, <1>4, <1>5, <1>6, <1>7, <1>8, <1>9, <1>10, <1>11, <1>12, <1>13,
             <1>14, <1>15
             DEF Next, Goroutine, Done, SetupStep, PlanStep

LEMMA GuestsStep == Types /\ Next => Guests'
  <1> SUFFICES ASSUME Types, Next PROVE Guests'
    OBVIOUS
  <1> USE DEF Types
  <1>1. CASE BeginRun
    BY <1>1, SessionAssumption DEF History, Guests, host, BeginRun
  <1>2. CASE Create
    <2>1. Made \in Guest
      BY DEF Made, History
    <2>2. attempt' = attempt /\ guest' = [guest EXCEPT ![k] = Made] /\ guest' \in [Name -> Guest]
      BY <1>2, <2>1 DEF Create, SetGuest, history, Guests
    <2> QED BY <2>2, KilledStep DEF Guests
  <1>3. CASE WriteArgs
    BY <1>3, SessionAssumption DEF History, Guests, inRun, history, SetGuest, WriteArgs
  <1>4. CASE Timeout
    BY <1>4, SessionAssumption, StopStep DEF InRun, Guests, Timeout
  <1>5. CASE TakeInterrupt
    BY <1>5, SessionAssumption, StopStep DEF InRun, Guests, TakeInterrupt
  <1>6. CASE Dies
    BY <1>6, KilledType DEF Dies, Guests
  <1>7. CASE InterruptSetup
    <2>1. guest' = guest \/ KilledCreate
      BY <1>7 DEF InterruptSetup
    <2>2. attempt' = attempt
      BY <1>7 DEF InterruptSetup, history
    <2> QED BY <2>1, <2>2, KilledType DEF Guests
  <1>8. ASSUME NEW w \in Name, Unpause(w) PROVE Guests'
    BY <1>8, SessionAssumption DEF Guests, Unpause
  <1>9. ASSUME NEW w \in Name, LeavesEarly(w) PROVE Guests'
    BY <1>9, SessionAssumption, StopStep DEF InRun, Guests, LeavesEarly, LeavesEarly
  <1>10. ASSUME NEW w \in Name, GuestExits(w) PROVE Guests'
    BY <1>10, SessionAssumption DEF History, Guests, inRun, history, GuestExits
  <1>11. CASE \/ Command \/ PassOver \/ AllDone \/ NameTaken \/ GetDomid \/ StartConsole
              \/ StepFails \/ AllLeft \/ HardExit \/ Save \/ InterruptRun \/ InterruptLost
    BY <1>11, SessionAssumption
       DEF Guests, inRun, host, history, Command, PassOver, AllDone, NameTaken, GetDomid,
           StartConsole, StepFails, AllLeft, HardExit, Save, InterruptRun, InterruptLost
  <1>12. ASSUME NEW w \in Name, UnpauseFails(w) \/ NilConsole(w) \/ LeavesAfterStop(w)
         PROVE  Guests'
    BY <1>12, SessionAssumption
       DEF Guests, inRun, host, history, UnpauseFails, NilConsole, LeavesAfterStop
  <1> QED BY <1>1, <1>2, <1>3, <1>4, <1>5, <1>6, <1>7, <1>8, <1>9, <1>10, <1>11, <1>12
             DEF Next, Goroutine, Done, SetupStep, PlanStep

LEMMA ResultsStep == Types /\ Next => Results'
  <1> SUFFICES ASSUME Types, Next PROVE Results'
    OBVIOUS
  <1> USE DEF Types
  <1>1. CASE Save
    <2>1. hard \in BOOLEAN /\ ran \subseteq Name
      BY DEF Flags, History
    <2>2. Workers \subseteq Name
      BY <1>1, SessionAssumption DEF Control, Save, Workers
    <2> DEFINE new == [saved |-> TRUE, made |-> {w \in Workers : setup[w] # "nodomain"},
                       ran |-> ran, hard |-> hard]
    <2>3. new \in [saved : BOOLEAN, made : SUBSET Name, ran : SUBSET Name, hard : BOOLEAN]
      BY <2>1, <2>2
    <2>4. result' = result \/ result' = [result EXCEPT ![i] = new]
      BY <1>1 DEF Save
    <2> HIDE DEF new
    <2> QED BY <2>3, <2>4 DEF Results
  <1>2. CASE \/ Command \/ PassOver \/ BeginRun \/ AllDone \/ Create \/ NameTaken \/ GetDomid
             \/ WriteArgs \/ StartConsole \/ StepFails \/ Timeout \/ AllLeft \/ TakeInterrupt
             \/ HardExit \/ Dies \/ InterruptSetup \/ InterruptRun \/ InterruptLost
    BY <1>2, SessionAssumption
       DEF Results, host, history, inRun, Stop, SetGuest, Workers, Command, PassOver, BeginRun,
           AllDone, Create, NameTaken, GetDomid, WriteArgs, StartConsole, StepFails, Timeout,
           AllLeft, TakeInterrupt, HardExit, Dies, InterruptSetup, InterruptRun, InterruptLost
  <1>3. ASSUME NEW w \in Name,
               Unpause(w) \/ UnpauseFails(w) \/ NilConsole(w) \/ LeavesEarly(w)
               \/ LeavesAfterStop(w) \/ GuestExits(w)
        PROVE  Results'
    BY <1>3, SessionAssumption
       DEF Results, host, history, inRun, Stop, Unpause, UnpauseFails, NilConsole, LeavesEarly,
           LeavesAfterStop, GuestExits
  <1> QED BY <1>1, <1>2, <1>3 DEF Next, Goroutine, Done, SetupStep, PlanStep

LEMMA HistoryStep == Types /\ Next => History'
  <1> SUFFICES ASSUME Types, Next PROVE History'
    OBVIOUS
  <1> USE DEF Types
  <1>1. CASE BeginRun
    BY <1>1 DEF History, bounds, NoFault, BeginRun
  <1>2. CASE Timeout
    BY <1>2, StopStep DEF History, InRun, Timeout
  <1>3. CASE TakeInterrupt
    BY <1>3, StopStep DEF History, InRun, TakeInterrupt
  <1>4. CASE Save
    BY <1>4 DEF History, history, bounds, Fault, NoFault, Save
  <1>5. CASE Dies
    BY <1>5 DEF History, Fault, Press, Dies
  <1>6. ASSUME NEW w \in Name, Unpause(w) PROVE History'
    BY <1>6 DEF History, bounds, NoFault, Unpause
  <1>7. ASSUME NEW w \in Name, NilConsole(w) PROVE History'
    BY <1>7 DEF History, bounds, NoFault, NilConsole
  <1>8. ASSUME NEW w \in Name, LeavesEarly(w) PROVE History'
    BY <1>8, StopStep DEF History, InRun, LeavesEarly
  <1>9. CASE Command \/ AllDone \/ Create \/ NameTaken \/ GetDomid \/ StartConsole \/ WriteArgs
    <2>1. UNCHANGED <<attempt, ran, excused>>
      BY <1>9, Zenon
         DEF history, Command, AllDone, Create, NameTaken, GetDomid, StartConsole, WriteArgs
    <2>2. commands' \in Nat /\ faults' \in Nat /\ sigints' \in Nat
      BY <1>9 DEF History, bounds, NoFault, Command, AllDone, Create, NameTaken, GetDomid,
                  StartConsole, WriteArgs
    <2> QED BY <2>1, <2>2, Zenon DEF History
  <1>10. CASE PassOver \/ StepFails
    <2>1. UNCHANGED <<attempt, ran, excused>>
      BY <1>10, Zenon DEF history, PassOver, StepFails
    <2>2. commands' \in Nat /\ faults' \in Nat /\ sigints' \in Nat
      BY <1>10 DEF History, bounds, NoFault, Fault, Press, PassOver, StepFails
    <2> QED BY <2>1, <2>2, Zenon DEF History
  <1>11. CASE AllLeft \/ HardExit \/ InterruptRun \/ InterruptLost
    <2>1. UNCHANGED <<attempt, ran, excused>>
      BY <1>11, Zenon DEF history, AllLeft, HardExit, InterruptRun, InterruptLost
    <2>2. commands' \in Nat /\ faults' \in Nat /\ sigints' \in Nat
      BY <1>11 DEF History, bounds, NoFault, Press, AllLeft, HardExit, InterruptRun,
                   InterruptLost
    <2> QED BY <2>1, <2>2, Zenon DEF History
  <1>12. CASE InterruptSetup
    <2>1. UNCHANGED <<attempt, ran, excused>>
      BY <1>12, Zenon DEF history, InterruptSetup
    <2>2. commands' \in Nat /\ faults' \in Nat /\ sigints' \in Nat
      BY <1>12 DEF History, bounds, NoFault, Fault, Press, InterruptSetup
    <2> QED BY <2>1, <2>2, Zenon DEF History
  <1>13. ASSUME NEW w \in Name, UnpauseFails(w) \/ LeavesAfterStop(w) \/ GuestExits(w)
         PROVE  History'
    <2>1. UNCHANGED <<attempt, ran, excused>>
      BY <1>13, Zenon DEF history, UnpauseFails, LeavesAfterStop, GuestExits
    <2>2. CASE UnpauseFails(w)
      <3>1. NoFault \/ Fault
        BY <2>2 DEF UnpauseFails
      <3>2. commands' \in Nat /\ faults' \in Nat /\ sigints' \in Nat
        BY <3>1 DEF History, bounds, Fault, NoFault
      <3> QED BY <2>1, <3>2, Zenon DEF History
    <2>3. CASE LeavesAfterStop(w) \/ GuestExits(w)
      <3>1. commands' \in Nat /\ faults' \in Nat /\ sigints' \in Nat
        BY <2>3 DEF History, bounds, NoFault, LeavesAfterStop, GuestExits
      <3> QED BY <2>1, <3>1, Zenon DEF History
    <2> QED BY <1>13, <2>2, <2>3
  <1> QED BY <1>1, <1>2, <1>3, <1>4, <1>5, <1>6, <1>7, <1>8, <1>9, <1>10, <1>11, <1>12, <1>13
             DEF Next, Goroutine, Done, SetupStep, PlanStep

LEMMA TypesStep == Types /\ [Next]_vars => Types'
  <1>1. ASSUME Types, UNCHANGED vars PROVE Types'
    BY <1>1 DEF Types, vars, inRun, host, history, bounds, Control, Flags, Locals, Guests,
                Results, History, InSetup, InRun, Workers
  <1>2. ASSUME Types, Next PROVE Types'
    BY <1>2, ControlStep, FlagsStep, LocalsStep, GuestsStep, ResultsStep, HistoryStep DEF Types
  <1> QED BY <1>1, <1>2

LEMMA TypesInvariant == Spec => []Types
  BY TypesInit, TypesStep, PTL DEF Spec

\* Every variable keeps its type, for any plan, faults and ^Cs: the worker that
\* Init is at is a worker of the run, and no guest is of a run yet to come.
THEOREM TypeCorrect == Spec => []TypeOK
  <1>1. Types => TypeOK
    BY Failures DEF Types, TypeOK, Control, Flags, Locals, Guests, Results, History, Settings
  <1> QED BY <1>1, TypesInvariant, PTL

-----------------------------------------------------------------------------
(* Workers, from Init to done.                                             *)

\* The end of an Init keeps the invariants if it sets up worker k, and the
\* workers before it stay so.
LEMMA SettledWorkers ==
  ASSUME Types, SetupInv, InSetup, attempt' = attempt, ran' = ran,
         NEW states \in [Name -> Settings], Settled(states),
         \A w \in Name : w <= k => SetUpAs(states[w], domid[w], guest'[w]),
         \A w \in Name : w > k => states[w] = "none"
  PROVE  SetupInv' /\ RunInv' /\ SaveInv'
  <1>1. i \in Runs /\ k \in 1 .. Size[i] /\ Size[i] \in 1 .. Names
    BY SessionAssumption DEF Types, Control, Workers
  <1>2. setup' = states /\ domid' = domid /\ i' = i /\ ran' = {}
    BY DEF Settled, SetupInv
  <1>3. \A w \in Name : /\ w <= k => SetUpAs(setup[w], domid[w], guest[w])'
                        /\ w > k => setup'[w] = "none" /\ domid'[w] = 0
    BY <1>2 DEF SetupInv, SetUpAs, KnownAs, FreshAs
  <1>4. CASE k < Size[i]
    <2>1. pc' = "create" /\ k' = k + 1 /\ k' \in Name
      BY <1>1, <1>4, SessionAssumption DEF Settled
    <2>2. \A w \in Name : /\ w < k' => w <= k
                          /\ w >= k' => w > k
      BY <1>1, <2>1
    <2>3. SetupInv'
      BY <1>1, <1>2, <1>3, <2>1, <2>2 DEF SetupInv
    <2> QED BY <2>1, <2>3 DEF RunInv, SaveInv, InRun
  <1>5. CASE ~(k < Size[i])
    <2>1. pc' = "running" /\ k = Size[i]
      BY <1>1, <1>5 DEF Settled
    <2>2. gor' = [w \in Name |-> IF w \in Workers THEN "unpause" ELSE "idle"]
      BY <1>5 DEF Settled
    <2>3. Workers' = Workers /\ Workers = 1 .. k /\ Workers \subseteq Name
      BY <1>1, <1>2, <2>1, SessionAssumption DEF Workers
    <2>4. \A w \in Workers : InRunAs(w)'
      BY <1>3, <2>2, <2>3 DEF InRunAs, SetUpAs
    <2>5. \A w \in Name : w \notin Workers => gor'[w] = "idle"
      BY <2>2
    <2>6. RunInv'
      BY <1>2, <2>3, <2>4, <2>5 DEF RunInv
    <2> QED BY <2>1, <2>6, Failures DEF SetupInv, SaveInv, InSetup
  <1> QED BY <1>4, <1>5

\* What a killed xl create may have done leaves the other guests alone.
LEMMA KilledOthers ==
  ASSUME Types, KilledCreate
  PROVE  /\ \A w \in Name : w # k => guest'[w] = guest[w]
         /\ pc # "create" => guest' = guest
  BY DEF Types, Guests, KilledCreate

\* So do the consoles: a worker is set up as before.
LEMMA ConsolesKeep ==
  ASSUME Types
  PROVE  /\ \A w \in Name : \A d, g : SetUpAs(setup[w], d, g) => SetUpAs(ConsolesDie[w], d, g)
         /\ \A w \in Name : setup[w] = "none" => ConsolesDie[w] = "none"
         /\ \A w \in Name : ConsolesDie[w] # setup[w] => setup[w] = "ok" /\ ConsolesDie[w] = "deadconsole"
  BY DEF ConsolesDie, SetUpAs, KnownAs, FreshAs

\* Worker k after a failure: it has a domid and a paused guest if it had them.
LEMMA FailedWorker ==
  ASSUME Types, SetupInv, InSetup, NEW g, pc \notin {"create", "domid"} => g = guest[k]
  PROVE  SetUpAs(FailureAt[pc], domid[k], g)
  <1>1. CASE pc \in {"create", "domid"}
    BY <1>1, Failures DEF SetupInv, SetUpAs, KnownAs, FreshAs
  <1>2. CASE pc \in {"xenstore", "console"}
    BY <1>2, Failures DEF SetupInv, SetUpAs, KnownAs, FreshAs
  <1> QED BY <1>1, <1>2, Failures DEF InSetup

\* A step of Init for worker k, or a guest that ends, leaves Init at worker k.
LEMMA SetupStays ==
  ASSUME Types, WorkerInv, InSetup', InSetup,
         UNCHANGED <<i, k, setup, attempt, ran>>,
         \A w \in Name : w # k => guest'[w] = guest[w] /\ domid'[w] = domid[w],
         pc' \in {"create", "domid"} => domid'[k] = 0,
         pc' \in {"xenstore", "console"} => domid'[k] = attempt,
         pc' # "create" =>
           guest'[k] = [run |-> attempt, up |-> FALSE,
                        args |-> IF pc' = "console" THEN attempt ELSE 0]
  PROVE  WorkerInv'
  <1>1. k \in Nat /\ \A w \in Name : (w < k \/ w > k) => w # k
    BY SessionAssumption DEF Types, Control
  <1>2. \A w \in Name : w < k => SetUpAs(setup[w], domid[w], guest[w])'
    BY <1>1 DEF WorkerInv, SetupInv, SetUpAs, KnownAs, FreshAs
  <1>3. SetupInv'
    BY <1>1, <1>2 DEF WorkerInv, SetupInv
  <1>4. ~InRun' /\ pc' # "save"
    BY Failures DEF InSetup, InRun
  <1> QED BY <1>3, <1>4 DEF WorkerInv, RunInv, SaveInv

LEMMA SetupStepWorkers ==
  ASSUME Types, WorkerInv, SetupStep
  PROVE  WorkerInv'
  <1> USE DEF WorkerInv
  <1>0. /\ i \in Runs /\ k \in Name /\ InSetup
        /\ \A w \in Name : (w < k \/ w > k) => w # k
        /\ \A w \in Name : w <= k => w < k \/ w = k
    BY SessionAssumption, Failures
       DEF SetupStep, Create, NameTaken, GetDomid, WriteArgs, StartConsole, Types, Control,
           InSetup
  <1>1. CASE Create
    <2>1. pc = "create" /\ pc' = "domid" /\ guest'[k] = Made /\ domid' = domid
      BY <1>0, <1>1 DEF Create, SetGuest, Types, Guests, inRun
    <2> QED BY <1>0, <1>1, <2>1, SetupStays, Failures
            DEF Create, SetGuest, Made, Types, Guests, inRun, history, InSetup, SetupInv
  <1>2. CASE NameTaken
    <2>1. [setup EXCEPT ![k] = "nodomain"] \in [Name -> Settings]
      BY DEF Types, Locals, Settings
    <2>2. SetUpAs("nodomain", domid[k], guest[k])
      BY <1>0, <1>2 DEF NameTaken, SetUpAs, KnownAs, FreshAs, SetupInv
    <2>3. \A w \in Name : w <= k =>
            SetUpAs([setup EXCEPT ![k] = "nodomain"][w], domid[w], guest'[w])
      BY <1>0, <1>2, <2>2 DEF NameTaken, host, SetupInv, Types, Locals
    <2>4. \A w \in Name : w > k => [setup EXCEPT ![k] = "nodomain"][w] = "none"
      BY <1>0 DEF SetupInv, Types, Locals
    <2>5. attempt' = attempt /\ ran' = ran /\ Settled([setup EXCEPT ![k] = "nodomain"])
      BY <1>2 DEF NameTaken, history
    <2> QED BY <1>0, <2>1, <2>3, <2>4, <2>5, SettledWorkers
  <1>3. CASE GetDomid
    <2>1. pc = "domid" /\ pc' = "xenstore" /\ domid'[k] = attempt
      BY <1>0, <1>3 DEF GetDomid, SetupInv, Types, Locals
    <2> QED BY <1>0, <1>3, <2>1, SetupStays, Failures
            DEF GetDomid, Types, Locals, host, history, InSetup, SetupInv
  <1>4. CASE WriteArgs
    <2>0. /\ pc = "xenstore" /\ pc' = "console" /\ domid' = domid
          /\ guest'[k] = [run |-> guest[k].run, up |-> guest[k].up, args |-> attempt]
      BY <1>0, <1>4 DEF WriteArgs, SetGuest, Types, Guests, inRun
    <2>1. /\ pc = "xenstore" /\ pc' = "console" /\ domid' = domid
          /\ guest'[k] = [run |-> attempt, up |-> FALSE, args |-> attempt]
      <3>1. guest[k] = [run |-> attempt, up |-> FALSE, args |-> 0]
        BY <1>0, <2>0 DEF SetupInv
      <3> QED BY <2>0, <3>1
    <2> QED BY <1>0, <1>4, <2>1, SetupStays, Failures
            DEF WriteArgs, SetGuest, Types, Guests, inRun, history, InSetup, SetupInv
  <1>5. CASE StartConsole
    <2>1. [setup EXCEPT ![k] = "ok"] \in [Name -> Settings]
      BY DEF Types, Locals, Settings
    <2>2. SetUpAs("ok", domid[k], guest[k])
      BY <1>0, <1>5 DEF StartConsole, SetUpAs, KnownAs, FreshAs, SetupInv
    <2>3. \A w \in Name : w <= k =>
            SetUpAs([setup EXCEPT ![k] = "ok"][w], domid[w], guest'[w])
      BY <1>0, <1>5, <2>2 DEF StartConsole, host, SetupInv, Types, Locals
    <2>4. \A w \in Name : w > k => [setup EXCEPT ![k] = "ok"][w] = "none"
      BY <1>0 DEF SetupInv, Types, Locals
    <2>5. attempt' = attempt /\ ran' = ran /\ Settled([setup EXCEPT ![k] = "ok"])
      BY <1>5 DEF StartConsole, history
    <2> QED BY <1>0, <2>1, <2>3, <2>4, <2>5, SettledWorkers
  <1> QED BY <1>1, <1>2, <1>3, <1>4, <1>5 DEF SetupStep

LEMMA FailureWorkers ==
  ASSUME Types, WorkerInv, StepFails \/ InterruptSetup
  PROVE  WorkerInv'
  <1> USE DEF WorkerInv
  <1>0. /\ i \in Runs /\ k \in Name /\ InSetup /\ setup[k] = "none"
        /\ \A w \in Name : (w < k \/ w > k) => w # k
        /\ \A w \in Name : w <= k => w < k \/ w = k
    BY SessionAssumption DEF StepFails, InterruptSetup, Types, Control, SetupInv
  <1>1. CASE StepFails
    <2> DEFINE states == [setup EXCEPT ![k] = FailureAt[pc]]
    <2>1. states \in [Name -> Settings]
      BY <1>0, FailedSetup DEF Types
    <2>2. \A w \in Name : w <= k => SetUpAs(states[w], domid[w], guest'[w])
      BY <1>0, <1>1, FailedWorker DEF StepFails, host, SetupInv, Types, Locals
    <2>3. \A w \in Name : w > k => states[w] = "none"
      BY <1>0 DEF SetupInv, Types, Locals
    <2>4. attempt' = attempt /\ ran' = ran /\ Settled(states)
      BY <1>1 DEF StepFails, history
    <2> HIDE DEF states
    <2> QED BY <1>0, <2>1, <2>2, <2>3, <2>4, SettledWorkers
  <1>2. CASE InterruptSetup
    <2>0. attempt' = attempt /\ ran' = ran
      BY <1>2 DEF InterruptSetup, history
    <2>1. CASE pc # "console" /\ Settled([ConsolesDie EXCEPT ![k] = FailureAt[pc]]) /\ KilledCreate
      <3> DEFINE states == [ConsolesDie EXCEPT ![k] = FailureAt[pc]]
      <3>1. states \in [Name -> Settings] /\ ConsolesDie \in [Name -> Settings]
        BY <1>0, FailedSetup DEF Types
      <3>2. \A w \in Name : w < k => SetUpAs(states[w], domid[w], guest'[w])
        BY <1>0, <2>1, <3>1, KilledOthers, ConsolesKeep DEF SetupInv
      <3>3. SetUpAs(states[k], domid[k], guest'[k])
        BY <1>0, <2>1, <3>1, KilledOthers, FailedWorker
      <3>4. \A w \in Name : w > k => states[w] = "none"
        BY <1>0, <3>1, ConsolesKeep DEF SetupInv
      <3>5. Settled(states)
        BY <2>1
      <3> HIDE DEF states
      <3> QED BY <1>0, <2>0, <3>1, <3>2, <3>3, <3>4, <3>5, SettledWorkers
    <2>2. CASE setup' = ConsolesDie /\ UNCHANGED <<pc, i, k, domid, gor, guest>>
      <3>1. \A w \in Name : w < k => SetUpAs(setup[w], domid[w], guest[w])'
        BY <1>0, <2>0, <2>2, ConsolesKeep DEF SetupInv, SetUpAs, KnownAs, FreshAs
      <3>2. SetupInv'
        BY <1>0, <2>0, <2>2, <3>1, ConsolesKeep DEF SetupInv, InSetup
      <3> QED BY <1>0, <2>2, <3>2, Failures DEF RunInv, SaveInv, InSetup, InRun
    <2> QED BY <1>2, <2>1, <2>2 DEF InterruptSetup
  <1> QED BY <1>1, <1>2

\* What a step in a run may do without touching the workers' set-up: destroy
\* guests, and end goroutines, saying so only where there was a console.
OnlyDestroys == \A w \in Name : guest'[w] \in {NoGuest, guest[w]}

GoroutinesEnd ==
  \A w \in Name :
    \/ gor'[w] = gor[w]
    \/ /\ w \in Workers /\ gor'[w] = "done"
       /\ gor[w] = "scan" /\ setup[w] \in {"ok", "deadconsole"}
    \/ w \in Workers /\ gor'[w] = "silent"

LEMMA StopKeeps ==
  ASSUME Types, Stop
  PROVE  OnlyDestroys
  BY DEF Stop, Types, Guests, OnlyDestroys

\* Such a step keeps what is known of the workers.
LEMMA RunKeeps ==
  ASSUME Types, WorkerInv, InRun, InRun', i' = i, setup' = setup, domid' = domid,
         attempt' = attempt, ran' = ran, OnlyDestroys, GoroutinesEnd
  PROVE  WorkerInv'
  <1> USE DEF OnlyDestroys, GoroutinesEnd
  <1>1. Workers' = Workers /\ Workers \subseteq Name
    BY SessionAssumption DEF Types, Control, Workers
  <1>2. ASSUME NEW w \in Workers PROVE InRunAs(w)'
    <2>1. w \in Name /\ InRunAs(w)
      BY <1>1 DEF WorkerInv, RunInv
    <2>2. Own(w)' => Own(w) /\ guest'[w] = guest[w]
      BY <2>1 DEF Own
    <2>3. FreshAs(setup[w], guest[w]) /\ guest'[w] = guest[w] => FreshAs(setup[w], guest[w])'
      BY DEF FreshAs
    <2>4. /\ setup'[w] # "none" /\ KnownAs(setup[w], domid[w])'
          /\ gor'[w] # "idle"
      BY <2>1 DEF InRunAs, KnownAs
    <2>5. gor'[w] = "done" => setup[w] \in {"ok", "deadconsole"}
      BY <2>1 DEF InRunAs
    <2>6. gor'[w] \in {"scan", "done"} => gor[w] \in {"scan", "done"}
      BY <2>1
    <2>7. gor'[w] = "unpause" => gor[w] = "unpause"
      BY <2>1
    <2>8. gor'[w] = "unpause" /\ Own(w)' => FreshAs(setup[w], guest[w])'
      BY <2>1, <2>2, <2>3, <2>7 DEF InRunAs
    <2> QED BY <2>1, <2>4, <2>5, <2>6, <2>8 DEF InRunAs
  <1>3. RunInv'
    BY <1>1, <1>2 DEF WorkerInv, RunInv
  <1>4. ~InSetup' /\ pc' # "save"
    BY Failures DEF InSetup, InRun
  <1> QED BY <1>3, <1>4 DEF WorkerInv, SetupInv, SaveInv

LEMMA UnpauseWorkers ==
  ASSUME Types, WorkerInv, NEW w \in Name, Unpause(w)
  PROVE  WorkerInv'
  <1>1. /\ InRun /\ InRun' /\ Workers' = Workers /\ w \in Workers
        /\ UNCHANGED <<pc, setup, domid, attempt>>
        /\ \A x \in Name : x # w => guest'[x] = guest[x] /\ gor'[x] = gor[x]
        /\ gor'[w] = "scan" /\ ran \subseteq ran' /\ ran' \subseteq ran \cup {w}
    BY DEF Unpause, WorkerInv, RunInv, Types, Locals, Guests, InRun, Workers
  <1>2. setup[w] \in {"ok", "deadconsole"} => w \in ran'
    BY <1>1 DEF Unpause, CanUnpause, Own, WorkerInv, RunInv, InRunAs, FreshAs
  <1>3. ASSUME NEW x \in Workers, x # w PROVE InRunAs(x)'
    <2>1. x \in Name
      BY SessionAssumption DEF Workers, Types, Control, Unpause
    <2> QED BY <1>1, <1>3, <2>1 DEF WorkerInv, RunInv, InRunAs, KnownAs, FreshAs, Own
  <1>4. InRunAs(w)'
    BY <1>1, <1>2 DEF WorkerInv, RunInv, InRunAs, KnownAs
  <1>5. RunInv'
    BY <1>1, <1>3, <1>4 DEF WorkerInv, RunInv
  <1>6. ~InSetup' /\ pc' # "save"
    BY <1>1, Failures DEF InSetup, InRun
  <1> QED BY <1>5, <1>6 DEF WorkerInv, SetupInv, SaveInv
LEMMA StopWorkers ==
  ASSUME Types, WorkerInv, Timeout \/ TakeInterrupt \/ (\E w \in Name : LeavesEarly(w))
  PROVE  WorkerInv'
  <1>1. CASE Timeout \/ TakeInterrupt
    <2>1. Stop /\ InRun /\ InRun' /\ UNCHANGED <<i, setup, domid, attempt, ran, gor>>
      BY <1>1 DEF Timeout, TakeInterrupt, Stop, InRun
    <2>2. GoroutinesEnd
      BY <2>1 DEF GoroutinesEnd
    <2> QED BY <2>1, <2>2, StopKeeps, RunKeeps
  <1>2. ASSUME NEW w \in Name, LeavesEarly(w) PROVE WorkerInv'
    <2>1. Stop /\ InRun /\ InRun' /\ UNCHANGED <<i, setup, domid, attempt, ran>>
      BY <1>2 DEF LeavesEarly, Stop, InRun
    <2>2. w \in Workers /\ gor[w] = "scan" /\ setup[w] \in {"ok", "deadconsole"}
      BY <1>2, <2>1 DEF LeavesEarly, CanLeave, WorkerInv, RunInv
    <2>3. \A x \in Name : gor'[x] = gor[x] \/ (x = w /\ gor'[x] = "done")
      BY <1>2 DEF LeavesEarly, Types, Locals
    <2>4. GoroutinesEnd
      BY <2>2, <2>3 DEF GoroutinesEnd
    <2> QED BY <2>1, <2>4, StopKeeps, RunKeeps
  <1> QED BY <1>1, <1>2

LEMMA GoroutineEnds ==
  ASSUME Types, WorkerInv, NEW w \in Name, UnpauseFails(w) \/ LeavesAfterStop(w)
  PROVE  WorkerInv'
  <1>1. InRun /\ InRun' /\ UNCHANGED <<i, setup, domid, attempt, ran, guest>>
    BY DEF UnpauseFails, LeavesAfterStop, InRun, host, history
  <1>2. w \in Workers
    BY <1>1 DEF UnpauseFails, LeavesAfterStop, CanLeave, WorkerInv, RunInv
  <1>3. CASE UnpauseFails(w)
    <2>1. \A x \in Name : gor'[x] = gor[x] \/ (x = w /\ gor'[x] = "silent")
      BY <1>3 DEF UnpauseFails, Types, Locals
    <2>2. GoroutinesEnd /\ OnlyDestroys
      BY <1>1, <1>2, <2>1 DEF GoroutinesEnd, OnlyDestroys
    <2> QED BY <1>1, <2>2, RunKeeps
  <1>4. CASE LeavesAfterStop(w)
    <2>1. \A x \in Name : gor'[x] = gor[x] \/ (x = w /\ gor'[x] = "done")
      BY <1>4 DEF LeavesAfterStop, Types, Locals
    <2>2. gor[w] = "scan" /\ setup[w] \in {"ok", "deadconsole"}
      BY <1>4 DEF LeavesAfterStop, CanLeave
    <2>3. GoroutinesEnd /\ OnlyDestroys
      BY <1>1, <1>2, <2>1, <2>2 DEF GoroutinesEnd, OnlyDestroys
    <2> QED BY <1>1, <2>3, RunKeeps
  <1> QED BY <1>3, <1>4

LEMMA ExitWorkers ==
  ASSUME Types, WorkerInv, NEW w \in Name, GuestExits(w)
  PROVE  WorkerInv'
  <1>1. /\ UNCHANGED <<pc, i, k, setup, domid, gor, attempt, ran, hard>> /\ guest[w].up
        /\ \A x \in Name : guest'[x] = IF x = w THEN NoGuest ELSE guest[x]
    BY DEF GuestExits, Types, Guests, inRun, history
  <1>2. CASE InSetup
    <2>1. InSetup' /\ k \in Name
      BY <1>1, <1>2 DEF InSetup, Types, Control
    <2>2. \A x \in Name : x < k => SetUpAs(setup[x], domid[x], guest[x])'
      <3> SUFFICES ASSUME NEW x \in Name, x < k
                   PROVE  SetUpAs(setup[x], domid[x], guest[x])'
        OBVIOUS
      <3>1. SetUpAs(setup[x], domid[x], guest[x])
        BY <1>2 DEF WorkerInv, SetupInv
      <3>2. CASE x # w
        BY <1>1, <3>1, <3>2 DEF SetUpAs, KnownAs, FreshAs
      <3>3. CASE x = w
        <4>1. setup[x] \notin {"ok", "deadconsole", "noconsole"}
          BY <1>1, <3>1, <3>3 DEF SetUpAs, FreshAs
        <4> QED BY <1>1, <3>1, <4>1 DEF SetUpAs, KnownAs, FreshAs
      <3> QED BY <3>2, <3>3
    <2>3. pc # "create" => guest'[k] = guest[k]
      BY <1>1, <1>2, <2>1 DEF WorkerInv, SetupInv
    <2>4. SetupInv'
      BY <1>1, <1>2, <2>1, <2>2, <2>3 DEF WorkerInv, SetupInv
    <2> QED BY <1>1, <1>2, <2>4, Failures DEF WorkerInv, RunInv, SaveInv, InSetup, InRun
  <1>3. CASE InRun
    <2>1. InRun'
      BY <1>1, <1>3 DEF InRun
    <2>2. GoroutinesEnd /\ OnlyDestroys
      BY <1>1 DEF GoroutinesEnd, OnlyDestroys
    <2> QED BY <1>1, <1>3, <2>1, <2>2, RunKeeps
  <1>4. CASE ~InSetup /\ ~InRun
    BY <1>1, <1>4 DEF WorkerInv, SetupInv, RunInv, SaveInv, InSetup, InRun, Workers
  <1> QED BY <1>2, <1>3, <1>4

LEMMA InterruptRunWorkers ==
  ASSUME Types, WorkerInv, InterruptRun
  PROVE  WorkerInv'
  <1>1. /\ InRun /\ InRun' /\ setup' = ConsolesDie
        /\ UNCHANGED <<pc, i, domid, gor, guest, attempt, ran>>
    BY DEF InterruptRun, InRun, host, history
  <1>2. Workers' = Workers /\ Workers \subseteq Name
    BY <1>1, SessionAssumption DEF Types, Control, Workers
  <1>3. ASSUME NEW w \in Workers PROVE InRunAs(w)'
    <2>1. /\ w \in Name /\ InRunAs(w)
          /\ setup'[w] = setup[w] \/ (setup[w] = "ok" /\ setup'[w] = "deadconsole")
      BY <1>1, <1>2, ConsolesKeep DEF WorkerInv, RunInv
    <2> QED BY <1>1, <2>1 DEF InRunAs, KnownAs, FreshAs, Own
  <1>4. RunInv'
    BY <1>1, <1>2, <1>3 DEF WorkerInv, RunInv
  <1>5. ~InSetup' /\ pc' # "save"
    BY <1>1, Failures DEF InSetup, InRun
  <1> QED BY <1>4, <1>5 DEF WorkerInv, SetupInv, SaveInv

LEMMA ReturnWorkers ==
  ASSUME Types, WorkerInv, AllLeft \/ HardExit
  PROVE  WorkerInv'
  <1>1. /\ InRun /\ pc' \in {"save", "down"} /\ UNCHANGED <<i, ran>>
        /\ hard' \/ \A w \in Workers : gor[w] = "done"
    BY DEF AllLeft, HardExit, Returned, InRun, inRun, history
  <1>2. Workers' = Workers /\ ran \subseteq Workers
    BY <1>1 DEF WorkerInv, RunInv, Workers
  <1>3. (\A w \in Workers : gor[w] = "done") => Workers \subseteq ran
    BY <1>1 DEF WorkerInv, RunInv, InRunAs
  <1>4. SaveInv'
    BY <1>1, <1>2, <1>3 DEF SaveInv
  <1>5. ~InSetup' /\ ~InRun'
    BY <1>1, Failures DEF InSetup, InRun
  <1> QED BY <1>4, <1>5 DEF WorkerInv, SetupInv, RunInv

LEMMA BeginWorkers ==
  ASSUME Types, BeginRun
  PROVE  WorkerInv'
  <1>1. /\ pc' = "create" /\ k' = 1 /\ ran' = {}
        /\ \A w \in Name : setup'[w] = "none" /\ domid'[w] = 0
    BY DEF BeginRun
  <1>2. 1 \in Name /\ \A w \in Name : ~(w < 1)
    BY SessionAssumption
  <1>3. SetupInv'
    BY <1>1, <1>2 DEF SetupInv
  <1> QED BY <1>1, <1>3 DEF WorkerInv, RunInv, SaveInv, InRun

LEMMA WorkerStep == Types /\ WorkerInv /\ [Next]_vars => WorkerInv'
  <1> SUFFICES ASSUME Types, WorkerInv, [Next]_vars PROVE WorkerInv'
    OBVIOUS
  <1>1. CASE SetupStep
    BY <1>1, SetupStepWorkers
  <1>2. CASE StepFails \/ InterruptSetup
    BY <1>2, FailureWorkers
  <1>3. CASE Timeout \/ TakeInterrupt \/ (\E w \in Name : LeavesEarly(w))
    BY <1>3, StopWorkers
  <1>4. ASSUME NEW w \in Name, Unpause(w) PROVE WorkerInv'
    BY <1>4, UnpauseWorkers
  <1>5. ASSUME NEW w \in Name, UnpauseFails(w) \/ LeavesAfterStop(w) PROVE WorkerInv'
    BY <1>5, GoroutineEnds
  <1>6. ASSUME NEW w \in Name, GuestExits(w) PROVE WorkerInv'
    BY <1>6, ExitWorkers
  <1>7. CASE InterruptRun
    BY <1>7, InterruptRunWorkers
  <1>8. CASE AllLeft \/ HardExit
    BY <1>8, ReturnWorkers
  <1>9. CASE BeginRun
    BY <1>9, BeginWorkers
  <1>10. CASE Command \/ AllDone \/ PassOver \/ Save \/ Dies \/ \E w \in Name : NilConsole(w)
    <2>1. pc' \in {"next", "down"}
      BY <1>10 DEF Command, AllDone, PassOver, Save, Dies, NilConsole, Exit, NextRun
    <2> QED BY <2>1, Failures DEF WorkerInv, SetupInv, RunInv, SaveInv, InSetup, InRun
  <1>11. CASE InterruptLost \/ UNCHANGED vars
    <2>1. UNCHANGED <<pc, i, k, setup, domid, gor, guest, attempt, ran, hard>>
      BY <1>11 DEF InterruptLost, vars, inRun, host, history
    <2> QED BY <2>1 DEF WorkerInv, SetupInv, RunInv, SaveInv, InSetup, InRun, Workers, SetUpAs,
                        InRunAs, KnownAs, FreshAs, Own
  <1> QED BY <1>1, <1>2, <1>3, <1>4, <1>5, <1>6, <1>7, <1>8, <1>9, <1>10, <1>11
             DEF Next, PlanStep, Goroutine, Done

LEMMA WorkerInvariant == Spec => [](Types /\ WorkerInv)
  <1>1. Init => WorkerInv
    BY Failures DEF Init, WorkerInv, SetupInv, RunInv, SaveInv, InSetup, InRun
  <1> QED BY <1>1, WorkerStep, TypesInvariant, PTL DEF Spec
-----------------------------------------------------------------------------
(* The theorems.                                                           *)

\* Where a run starts its goroutines, its workers are what RunLoop assumes of them:
\* a worker that is set up has a paused guest of this attempt with its arguments,
\* and one without a domain does not own a guest of an earlier run by its name.
THEOREM SetupAsAssumed == Spec => []SetupIsAsRunLoopAssumes
  <1>1. ASSUME Types, WorkerInv PROVE SetupIsAsRunLoopAssumes
    <2> SUFFICES ASSUME NEW w \in Name,
                        (InSetup /\ w < k) \/ (InRun /\ gor[w] = "unpause" /\ Own(w))
                 PROVE  /\ setup[w] \in {"ok", "deadconsole"} =>
                             /\ guest[w] = [run |-> attempt, up |-> FALSE, args |-> attempt]
                             /\ Own(w)
                        /\ setup[w] = "noconsole" =>
                             Own(w) /\ guest[w].run = attempt /\ ~guest[w].up
                        /\ setup[w] \in {"nodomid", "nodomain"} => domid[w] = 0
      BY DEF SetupIsAsRunLoopAssumes
    <2>1. attempt > 0
      BY <1>1 DEF Types, Control
    <2>2. SetUpAs(setup[w], domid[w], guest[w])
      BY <1>1 DEF WorkerInv, SetupInv, RunInv, InRunAs, SetUpAs
    <2>3. attempt # 0
      BY <2>1, <1>1 DEF Types, History
    <2> QED BY <2>2, <2>3 DEF SetUpAs, KnownAs, FreshAs, Own
  <1> QED BY <1>1, WorkerInvariant, PTL

LEMMA SavedStep ==
  Types /\ WorkerInv /\ CompletedRanItsWorkers /\ [Next]_vars => CompletedRanItsWorkers'
  <1> SUFFICES ASSUME Types, WorkerInv, CompletedRanItsWorkers, [Next]_vars
               PROVE  CompletedRanItsWorkers'
    OBVIOUS
  <1>1. CASE result' = result
    BY <1>1 DEF CompletedRanItsWorkers
  <1>2. CASE Save /\ result' # result
    <2>1. /\ pc = "save" /\ i \in Runs
          /\ result' = [result EXCEPT ![i] =
               [saved |-> TRUE, made |-> {w \in Workers : setup[w] # "nodomain"},
                ran |-> ran, hard |-> hard]]
      BY <1>2 DEF Save, Types, Control
    <2>2. ~hard => ran = 1 .. Size[i]
      BY <2>1 DEF WorkerInv, SaveInv, Workers
    <2>3. /\ result'[i].ran = ran /\ result'[i].hard = hard
          /\ \A r \in Runs : r # i => result'[r] = result[r]
      BY <2>1 DEF Types, Results
    <2> QED BY <2>2, <2>3 DEF CompletedRanItsWorkers
  <1>3. Save \/ result' = result
    BY DEF Next, vars, host, inRun, history, Command, PlanStep, PassOver, BeginRun, AllDone,
       SetupStep, Create, NameTaken, GetDomid, WriteArgs, StartConsole, SetGuest, StepFails,
       Goroutine, Unpause, UnpauseFails, NilConsole, Done, LeavesEarly, LeavesAfterStop, Stop,
       GuestExits, Timeout, AllLeft, TakeInterrupt, HardExit, Dies, InterruptSetup,
       InterruptRun, InterruptLost
  <1> QED BY <1>1, <1>2, <1>3

\* Whatever is left on the host, however Init's steps end and whenever ^C comes, a
\* run is saved as completed only after each of its workers ran in a guest made for
\* it, with its arguments; or after the second ^C.
THEOREM SavedRunsRanTheirWorkers == Spec => []CompletedRanItsWorkers
  <1>1. Init => CompletedRanItsWorkers
    BY DEF Init, NotSaved, CompletedRanItsWorkers
  <1> QED BY <1>1, SavedStep, WorkerInvariant, PTL DEF Spec

\* A guest that was there stays explained while its run is at hand.
LEMMA LeftKeeps ==
  ASSUME Types, LeftInv, attempt' = attempt, excused \subseteq excused',
         \A w \in Name : guest'[w] = NoGuest \/ (guest'[w].run = guest[w].run /\ guest[w] # NoGuest),
         \A w \in Name : AtHand(w) => AtHand(w)'
  PROVE  LeftInv'
  BY DEF LeftInv

\* The end of an Init leaves the workers so far at hand.
LEMMA SettledAtHand ==
  ASSUME Types, InSetup, NEW states, Settled(states)
  PROVE  /\ \A w \in Name : AtHand(w) => AtHand(w)'
         /\ \A w \in Name : w <= k => AtHand(w)'
  <1>1. i \in Runs /\ k \in 1 .. Size[i] /\ Size[i] \in 1 .. Names /\ pc # "running"
    BY SessionAssumption, Failures DEF Types, Control, Workers, InSetup
  <1>2. CASE k < Size[i]
    <2>1. pc' = "create" /\ k' = k + 1 /\ InSetup'
      BY <1>2, Failures DEF Settled, InSetup
    <2>2. k <= k' /\ \A w \in Name : w <= k => w <= k'
      BY <1>1, <2>1
    <2> QED BY <1>1, <2>1, <2>2 DEF AtHand
  <1>3. CASE ~(k < Size[i])
    <2>1. pc' = "running" /\ i' = i
      BY <1>3 DEF Settled
    <2>2. \A w \in Name : w <= k => w \in Workers'
      BY <1>1, <1>3, <2>1 DEF Workers
    <2> QED BY <1>1, <2>1, <2>2 DEF AtHand
  <1> QED BY <1>2, <1>3

LEMMA MadeRun == Made.run = attempt
  BY DEF Made

LEMMA SetupLeft ==
  ASSUME Types, WorkerInv, LeftInv, SetupStep \/ StepFails \/ InterruptSetup
  PROVE  LeftInv'
  <1>0. k \in Name /\ InSetup /\ attempt' = attempt /\ excused' = excused /\ k <= k
    BY SessionAssumption, Failures
       DEF SetupStep, Create, NameTaken, GetDomid, WriteArgs, StartConsole, StepFails,
           InterruptSetup, Types, Control, InSetup, history
  <1>1. CASE Create
    <2>1. /\ \A w \in Name : w # k => guest'[w] = guest[w]
          /\ guest'[k].run = attempt /\ InSetup' /\ k' = k
      BY <1>0, <1>1, Failures DEF Create, SetGuest, Made, Types, Guests, InSetup
    <2>2. \A w \in Name : AtHand(w) => AtHand(w)'
      BY <1>0, <1>1, <2>1 DEF Create, AtHand
    <2>3. AtHand(k)'
      BY <1>0, <2>1 DEF AtHand
    <2> QED BY <1>0, <2>1, <2>2, <2>3 DEF LeftInv
  <1>2. CASE NameTaken
    <2>1. Settled([setup EXCEPT ![k] = "nodomain"]) /\ guest' = guest
      BY <1>2 DEF NameTaken, host
    <2> QED BY <1>0, <2>1, SettledAtHand, LeftKeeps DEF LeftInv
  <1>3. CASE GetDomid
    <2>1. InSetup' /\ k' = k /\ guest' = guest /\ pc = "domid"
      BY <1>3, Failures DEF GetDomid, InSetup, host
    <2> QED BY <1>0, <2>1 DEF AtHand, LeftInv
  <1>4. CASE WriteArgs
    <2>1. /\ InSetup' /\ k' = k /\ pc = "xenstore"
          /\ \A w \in Name : w # k => guest'[w] = guest[w]
          /\ guest'[k].run = guest[k].run
      BY <1>0, <1>4, Failures DEF WriteArgs, SetGuest, InSetup, Types, Guests
    <2>4. guest[k].run = attempt
      BY <1>0, <2>1 DEF WorkerInv, SetupInv
    <2>2. \A w \in Name : AtHand(w) => AtHand(w)'
      BY <1>0, <2>1 DEF AtHand
    <2>3. AtHand(k)'
      BY <1>0, <2>1 DEF AtHand
    <2> QED BY <1>0, <2>1, <2>2, <2>3, <2>4 DEF LeftInv
  <1>5. CASE StartConsole
    <2>1. Settled([setup EXCEPT ![k] = "ok"]) /\ guest' = guest
      BY <1>5 DEF StartConsole, host
    <2> QED BY <1>0, <2>1, SettledAtHand DEF LeftInv
  <1>6. CASE StepFails
    <2>1. Settled([setup EXCEPT ![k] = FailureAt[pc]]) /\ guest' = guest
      BY <1>6 DEF StepFails, host
    <2> QED BY <1>0, <2>1, SettledAtHand DEF LeftInv
  <1>7. CASE InterruptSetup
    <2>1. CASE UNCHANGED <<pc, i, k, guest>>
      BY <1>0, <2>1 DEF LeftInv, AtHand, InSetup, Workers
    <2>2. CASE Settled([ConsolesDie EXCEPT ![k] = FailureAt[pc]]) /\ KilledCreate
      <3>1. \A w \in Name : w # k => guest'[w] = guest[w]
        BY <2>2, KilledOthers
      <3>2. guest'[k] = guest[k] \/ guest'[k].run = attempt
        BY <1>0, <2>2, MadeRun DEF KilledCreate, Types, Guests
      <3>3. \A w \in Name : (AtHand(w) => AtHand(w)') /\ (w = k => AtHand(w)')
        BY <1>0, <2>2, SettledAtHand
      <3> QED BY <1>0, <3>1, <3>2, <3>3 DEF LeftInv
    <2> QED BY <1>7, <2>1, <2>2 DEF InterruptSetup
  <1> QED BY <1>1, <1>2, <1>3, <1>4, <1>5, <1>6, <1>7 DEF SetupStep

\* After a stop no guest is left whose xl destroy did not fail.
LEMMA StopLeft ==
  ASSUME Types, LeftInv, pc = "running", Stop
  PROVE  LeftInv'
  <1>1. /\ attempt' = attempt /\ Workers \subseteq Name /\ ~InSetup
        /\ \A w \in Name : guest[w] # NoGuest /\ w \notin Workers => guest[w].run \in excused
    <2>1. attempt' = attempt /\ ~InSetup
      BY Failures DEF Stop, InSetup
    <2>2. Workers \subseteq Name
      BY SessionAssumption DEF Types, Control, InRun, Workers
    <2> QED BY <2>1, <2>2 DEF LeftInv, AtHand
  <1>2. PICK stay \in Left :
          /\ guest' = [w \in Name |-> IF w \in ToDestroy \ stay THEN NoGuest ELSE guest[w]]
          /\ excused' = excused \cup {guest[w].run : w \in stay}
    BY DEF Stop
  <1>3. \A w \in Name : guest'[w] # NoGuest => guest'[w].run \in excused'
    BY <1>1, <1>2 DEF ToDestroy
  <1> QED BY <1>1, <1>3 DEF LeftInv

LEMMA LeftStep == Types /\ WorkerInv /\ LeftInv /\ [Next]_vars => LeftInv'
  <1> SUFFICES ASSUME Types, WorkerInv, LeftInv, [Next]_vars PROVE LeftInv'
    OBVIOUS
  <1>1. CASE SetupStep \/ StepFails \/ InterruptSetup
    BY <1>1, SetupLeft
  <1>2. CASE Timeout \/ TakeInterrupt \/ \E w \in Name : LeavesEarly(w)
    BY <1>2, StopLeft DEF Timeout, TakeInterrupt, LeavesEarly
  <1>3. CASE Dies \/ \E w \in Name : NilConsole(w)
    <2>1. /\ excused' = excused \cup {attempt} /\ attempt' = attempt
          /\ guest' = guest \/ guest' = [guest EXCEPT ![k] = Made]
      BY <1>3 DEF Dies, NilConsole, KilledCreate, host
    <2>2. \A w \in Name : guest'[w] = guest[w] \/ guest'[w].run = attempt
      BY <2>1, MadeRun DEF Types, Guests
    <2> QED BY <2>1, <2>2 DEF LeftInv
  <1>4. ASSUME NEW w \in Name, Unpause(w) PROVE LeftInv'
    <2>1. /\ UNCHANGED <<pc, i, k, attempt, excused>> /\ guest[w] # NoGuest
          /\ \A x \in Name : x # w => guest'[x] = guest[x]
          /\ guest'[w].run = guest[w].run
      BY <1>4 DEF Unpause, CanUnpause, Own, Types, Locals, Guests
    <2> QED BY <2>1 DEF LeftInv, AtHand, InSetup, Workers
  <1>5. ASSUME NEW w \in Name, GuestExits(w) PROVE LeftInv'
    <2>1. /\ UNCHANGED <<pc, i, k, attempt, excused>>
          /\ \A x \in Name : guest'[x] = NoGuest \/ guest'[x] = guest[x]
      BY <1>5 DEF GuestExits, history, Types, Guests
    <2> QED BY <2>1 DEF LeftInv, AtHand, InSetup, Workers
  <1>6. CASE /\ pc \in {"down", "next", "waiting", "save"}
             /\ UNCHANGED <<guest, excused>>
    BY <1>6, Failures DEF LeftInv, AtHand, InSetup
  <1>7. CASE UNCHANGED <<pc, i, k, attempt, guest, excused>>
    BY <1>7 DEF LeftInv, AtHand, InSetup, Workers
  <1>8. CASE Command \/ PlanStep \/ AllLeft \/ HardExit \/ Save
    <2>1. /\ pc \in {"down", "next", "waiting", "save"}
          /\ UNCHANGED <<guest, excused>>
      BY <1>8 DEF Command, PlanStep, PassOver, BeginRun, AllDone, AllLeft, HardExit, Save,
                  host, history
    <2> QED BY <1>6, <2>1
  <1>9. CASE \/ InterruptRun \/ InterruptLost \/ UNCHANGED vars
             \/ \E w \in Name : UnpauseFails(w) \/ LeavesAfterStop(w)
    <2>1. UNCHANGED <<pc, i, k, attempt, guest, excused>>
      BY <1>9 DEF InterruptRun, InterruptLost, vars, UnpauseFails, LeavesAfterStop, host,
                  history
    <2> QED BY <1>7, <2>1
  <1> QED BY <1>1, <1>2, <1>3, <1>4, <1>5, <1>8, <1>9 DEF Next, Goroutine, Done

\* A guest outlives its run only where an xl destroy failed or the process died:
\* failing set-ups, early ends, lost ^Cs and hard exits leave none.
THEOREM LeftoversHaveACause == Spec => []LeftoversExplained
  <1>1. Init => LeftInv
    BY DEF Init, LeftInv
  <1>2. ASSUME LeftInv PROVE LeftoversExplained
    BY <1>2 DEF LeftInv, LeftoversExplained, AtHand, InRun
  <1> QED BY <1>1, <1>2, LeftStep, WorkerInvariant, PTL DEF Spec
=============================================================================
