------------------------------ MODULE BurnWait ------------------------------
(***************************************************************************)
(* The worker program (worker/worker.c): main queues one job for each      *)
(* burnwait argument, and eventqueue_loop sleeps until the earliest job is *)
(* due, prints a report when one is due, does the job's kops, and queues   *)
(* the job again wait_nsec after its end.                                  *)
(*                                                                         *)
(* The clock of the processor runs on its own between any two steps, and   *)
(* steps back a little when the worker is moved across sockets.  Times are *)
(* in units of that clock; now() computes its nanoseconds in 64 bits, from *)
(* the cycles * 10^6, so that it is back at 0 after Wrap units.            *)
(***************************************************************************)
EXTENDS Integers, Sequences, FiniteSetsExt, SequencesExt

CONSTANTS
  Args,       \* the jobs of the burnwait arguments, in order
  Kops,       \* per job: wd.kops
  Wait,       \* per job: wd.wait_nsec
  Interval,   \* work.report_interval_ms
  Words,      \* work.size / sizeof(int)
  OpsPerKop,  \* operations in a kop: 1000 in the code
  Wrap,       \* now() counts up to here and begins again at 0
  MaxTime,    \* bound: the clock stops here
  MaxJitter   \* bound: how often the clock steps back

Job == ToSet(Args)

ASSUME WorkerAssumption ==
  /\ Args \in Seq(Job) /\ IsInjective(Args)
  /\ Kops \in [Job -> Nat] /\ Wait \in [Job -> Nat]
  /\ Interval \in Nat /\ OpsPerKop \in Nat /\ Words \in Nat \ {0}
  /\ Wrap \in Nat \ {0} /\ MaxTime \in Nat /\ MaxJitter \in Nat

VARIABLES
  clock,      \* the processor's, since init_clock
  jitter,     \* bound: steps back so far
  pc,         \* "args", "head", "check", "sleep", "work", or how it ended
  given,      \* how many burnwait arguments there are
  arg,        \* how many of them main has read
  queue,      \* eventqueue: a sequence of [start, job]
  cur,        \* eq, the element taken off the queue
  n,          \* eventqueue_loop's n
  wake,       \* when nanosleep returns
  maxDelta,   \* work.queue_max_delta
  nextReport, \* work.next_report
  index,      \* work.index
  mayBegin,   \* history: per job, the end of its last wait
  reports     \* history: number of reports, Now of the first and of the last

machine == <<clock, jitter>>
local   == <<cur, n, wake>>
work    == <<maxDelta, nextReport, index>>
history == <<mayBegin, reports>>
vars    == <<machine, pc, given, arg, queue, local, work, history>>

Element == [start : Nat, job : Job]

now == clock % Wrap

Init ==
  /\ clock = 0 /\ jitter = 0
  /\ pc = "args" /\ given \in 0 .. Len(Args) /\ arg = 0
  /\ queue = <<>> /\ cur \in [start : {0}, job : Job]
  /\ n = 0 /\ wake = 0
  /\ maxDelta = 0 /\ nextReport = 0 /\ index = 0
  /\ mayBegin = [j \in Job |-> 0]
  /\ reports = [count |-> 0, first |-> 0, last |-> 0]

-----------------------------------------------------------------------------
(* eventqueue_insert.                                                      *)

\* Mutant of Position: the list is walked to its end.
Position_Last(q, e) == Len(q) + 1

\* The new element goes before the first one that is not due before it.
Position(q, e) == Min({k \in DOMAIN q : e.start <= q[k].start} \cup {Len(q) + 1})

\* Mutant of Insert: the start is counted from the last time the loop read.
Insert_FromLoopTime(job, timer) ==
  LET e == [start |-> n + timer, job |-> job]
  IN  queue' = InsertAt(queue, Position(queue, e), e)

Insert(job, timer) ==
  LET e == [start |-> now + timer, job |-> job]
  IN  queue' = InsertAt(queue, Position(queue, e), e)

-----------------------------------------------------------------------------
(* main.  The controller puts kHZ before every burnwait, so now() is set   *)
(* up when it is first called.                                             *)

BurnwaitArgument ==
  /\ pc = "args" /\ arg < given
  /\ Insert(Args[arg + 1], 0)
  /\ arg' = arg + 1
  /\ UNCHANGED <<machine, pc, given, local, work, history>>

BeginLoop ==
  /\ pc = "args" /\ arg = given
  /\ pc' = "head"
  /\ UNCHANGED <<machine, given, arg, queue, local, work, history>>

-----------------------------------------------------------------------------
(* eventqueue_loop.                                                        *)

\* Mutant of ReportDue: >= for >.
ReportDue_AtOnce(t) == nextReport = 0 \/ t >= nextReport

ReportDue(t) == nextReport = 0 \/ t > nextReport

\* report(t): one report, however many intervals have passed.
Report(t) ==
  /\ maxDelta' = 0
  /\ nextReport' = (IF nextReport = 0 THEN t ELSE nextReport) + Interval
  /\ reports' = [count |-> reports.count + 1,
                 first |-> IF reports.count = 0 THEN t ELSE reports.first,
                 last  |-> t]

LoopHead ==
  /\ pc = "head" /\ queue # <<>>
  /\ n' = now
  /\ IF ReportDue(now) THEN Report(now) ELSE UNCHANGED <<maxDelta, nextReport, reports>>
  /\ pc' = "check"
  /\ UNCHANGED <<machine, given, arg, queue, cur, wake, index, mayBegin>>

LoopEnds ==
  /\ pc = "head" /\ queue = <<>>
  /\ pc' = "exited"
  /\ UNCHANGED <<machine, given, arg, queue, local, work, history>>

\* Mutant of Sleep: the sleep is the time until the last job on the queue.
Sleep_Last ==
  /\ pc = "check" /\ Head(queue).start > n
  /\ wake' = clock + (Last(queue).start - n)
  /\ pc' = "sleep"
  /\ UNCHANGED <<machine, given, arg, queue, cur, n, work, history>>

\* The clock may have run on since n was read: the FIXME at line 148.
Sleep ==
  /\ pc = "check" /\ Head(queue).start > n
  /\ wake' = clock + (Head(queue).start - n)
  /\ pc' = "sleep"
  /\ UNCHANGED <<machine, given, arg, queue, cur, n, work, history>>

\* nanosleep returns, and nsleep's assert(rc == 0) looks at an rc that nothing
\* has set: it may hold and it may not.
Wake ==
  /\ pc = "sleep" /\ clock >= wake
  /\ \/ n' = now /\ pc' = "check"
     \/ pc' = "aborted in nsleep" /\ UNCHANGED n
  /\ UNCHANGED <<machine, given, arg, queue, cur, wake, work, history>>

Lateness == n - Head(queue).start

\* Mutant of Dispatch: the element stays on the queue.
Dispatch_NoPop ==
  /\ pc = "check" /\ Head(queue).start <= n
  /\ cur' = Head(queue) /\ pc' = "work"
  /\ UNCHANGED <<machine, given, arg, queue, n, wake, work, history>>

\* The loop over nsleep ends when the head is due at n, which is also what
\* assert(delta_ns >= 0) tests: it needs no outcome of its own here.
Dispatch ==
  /\ pc = "check" /\ Head(queue).start <= n
  /\ maxDelta' = Max({maxDelta, Lateness})
  /\ cur' = Head(queue) /\ queue' = Tail(queue)
  /\ pc' = "work"
  /\ UNCHANGED <<machine, given, arg, n, wake, nextReport, index, history>>

-----------------------------------------------------------------------------
(* process_worker: kops * OpsPerKop operations on the words of work.data.  *)

\* Mutant of IndexAfter: the index is never brought back.
IndexAfter_NoWrap(i, ops) == i + ops

\* index is incremented and brought back when it is greater than Words: it
\* goes 0, 1 .. Words, 1 .. Words and so on.
IndexAfter(i, ops) == IF ops = 0 THEN i ELSE ((i + ops - 1) % Words) + 1

\* The words of work.data are 0 .. Words-1, and the index comes to Words.
WritesBeyond(i, ops) == ops > 0 /\ (i % Words) + ops >= Words

\* A write past the mapped area faults if nothing is mapped there.
Work ==
  LET ops == Kops[cur.job] * OpsPerKop
  IN  /\ pc = "work"
      /\ \/ /\ index' = IndexAfter(index, ops)
            /\ Insert(cur.job, Wait[cur.job])
            /\ mayBegin' = [mayBegin EXCEPT ![cur.job] = now + Wait[cur.job]]
            /\ pc' = "head"
         \/ /\ WritesBeyond(index, ops)
            /\ pc' = "faulted"
            /\ UNCHANGED <<index, queue, mayBegin>>
      /\ UNCHANGED <<machine, given, arg, local, maxDelta, nextReport, reports>>

-----------------------------------------------------------------------------
(* The clock.                                                              *)

Tick ==
  /\ clock < MaxTime
  /\ clock' = clock + 1
  /\ UNCHANGED <<jitter, pc, given, arg, queue, local, work, history>>

\* The worker goes on on a socket whose counter is behind.
StepBack ==
  /\ clock > 0 /\ jitter < MaxJitter
  /\ clock' = clock - 1 /\ jitter' = jitter + 1
  /\ UNCHANGED <<pc, given, arg, queue, local, work, history>>

Next ==
  \/ BurnwaitArgument \/ BeginLoop
  \/ LoopHead \/ LoopEnds \/ Sleep \/ Wake \/ Dispatch \/ Work
  \/ Tick \/ StepBack

Spec == Init /\ [][Next]_vars

-----------------------------------------------------------------------------
(* Properties.                                                             *)

TypeOK ==
  /\ clock \in Nat /\ jitter \in Nat
  /\ pc \in {"args", "head", "check", "sleep", "work", "exited",
             "aborted in nsleep", "faulted"}
  /\ given \in 0 .. Len(Args) /\ arg \in 0 .. given
  /\ queue \in Seq(Element) /\ cur \in Element
  /\ n \in Nat /\ wake \in Nat
  /\ maxDelta \in Nat /\ nextReport \in Nat
  /\ index \in 0 .. Words
  /\ mayBegin \in [Job -> Nat]
  /\ reports \in [count : Nat, first : Nat, last : Nat]

\* The job that eventqueue_loop takes is the one that was due first, also when
\* several are overdue after a long preemption or a long job.
EarliestFirst ==
  [][\A k \in DOMAIN queue : pc = "check" /\ pc' = "work" =>
       cur'.start <= queue[k].start]_vars

\* The list surgery of insert and loop loses no job and doubles none: each
\* job read so far is on the queue once, or is the one being worked on.
JobsConserved ==
  LET Working == IF pc \in {"work", "faulted"} THEN {cur.job} ELSE {}
  IN  /\ \A k, m \in DOMAIN queue : queue[k].job = queue[m].job => k = m
      /\ {queue[k].job : k \in DOMAIN queue} \cap Working = {}
      /\ {queue[k].job : k \in DOMAIN queue} \cup Working = {Args[k] : k \in 1 .. arg}

\* On the worker's own clock a job begins no earlier than its wait after its
\* last end, whatever the other jobs, the preemptions between now() and
\* nanosleep (the FIXME at worker.c:148) and the jitter did.
WaitsAtLeast == pc = "work" => n >= mayBegin[cur.job]

\* The loop never has a longer time to sleep than the wait of the job it sleeps
\* for ("burnwait [kops] [wait_nsec]", worker.c:219), but for the jitter.
SleepIsBounded ==
  pc = "sleep" => wake - clock <= Wait[Head(queue).job] + jitter

\* There are no more reports than intervals have begun since the first one:
\* a late report is followed by others to catch up, but never by too many.
ReportsKeepSchedule ==
  reports.count > 1 => reports.last > reports.first + (reports.count - 1) * Interval
=============================================================================
