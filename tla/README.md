# schedbench in TLA+

schedbench runs scheduler benchmarks on a Xen host. A plan is a list of runs;
a run prepares a cpupool, creates one guest for each worker, collects the
reports the guests print on their consoles, and after a given time destroys
the guests; the plan file is saved after each completed run. This directory
models the program, checks the models with TLC and proves theorems about them
with TLAPS. Line numbers are those of the source at the commit modelled.

1. [The system](#the-system)
2. [The modules](#the-modules)
3. [Properties, runs and bounds](#properties-runs-and-bounds)
4. [Fairness](#fairness)
5. [Proofs](#proofs)
6. [What the program does not do as documented](#what-the-program-does-not-do-as-documented)
7. [What is not modelled, and assumptions](#what-is-not-modelled-and-assumptions)
8. [Plan](#plan)
9. [Running the checks](#running-the-checks)

## The system

| component | source | state | operations |
|---|---|---|---|
| benchmark run | `controller/run.go` 69-82, 331-413; `xenworker.go` 208-278 | locals of `Run` (`i`, `stopped`, `err`), `run.Completed`, `run.Results.Raw`, the channels `report`, `done`, `signals`, `timeout`; each worker's `Log`, `jsonStarted`; guests and consoles | `Start`, `Stop`, `Process`, `Shutdown`, the `select` loop |
| plan execution and plan file | `run.go` 415-455, `main.go` 59-107, `benchmark.go` 393-444 | the plan in memory, the plan file, its backup | commands `plan` and `run`, `LoadBenchmark`, `Save` |
| cpupool preparation | `run.go` 159-329, `libxl.go` 397-654 | the host's cpupools (in Xen) | `Prep`, `GetCpumap`, `CpupoolFindByName`, `CpupoolMakeFree`, `CpupoolCreate`, `CpupoolDestroy` |
| worker program | `worker/worker.c` | event queue, work area, report schedule, clock | `main`, `eventqueue_insert`, `eventqueue_loop`, `report`, `nsleep`, `process_worker` |
| worker creation | `run.go` 89-122, `xenworker.go` 56-205 | the guests on the host by name, their arguments in xenstore, the `xl console` processes, `w.domid` | `NewWorkerList`, `Init` |
| plan session | `run.go` 415-455 with the two above | the guests and signals that one run leaves to the next | `BenchmarkPlan.Run` over the runs of several commands |
| libxl bindings | `libxl.go` | bitmaps; the libxl context | `Set`, `Clear`, `And`, `Max`, `Test`, `IsEmpty`, `String`; one method per libxl call |
| plan expansion | `plan.go` | `Input`, `Runs`, the global `WorkerPresets` | `ClearRuns`, `ExpandInput` |
| result statistics | `benchmark.go` 83-317 | `Results.Summary` | `Process`, `MinMax.Update`, `Throughput`, `Utilization` |
| reports | `run.go` 40-67, `benchmark.go` 319-391, `htmlreport.go` | none that lasts | `Report`, `TextReport`, `HTMLReport.AddRun` |
| process worker, xltest, cpu frequency, stubs, scripts | the rest | none that lasts | |

How they interact. `main` loads the plan and calls `plan.Run`, which takes the
runs in order, and for each one that is not completed calls `Prep` (libxl, on
the host's cpupools), then `Run`. `Run` creates the workers through `xl`
processes and starts one goroutine for each. A goroutine unpauses its guest,
reads the guest's console through a pipe from `xl console`, and sends reports
and finally its id on two unbuffered channels. The main goroutine selects on
these, a timer and SIGINT. `plan.Run` saves the plan when the run has set
`Completed`. The guest runs worker.c, which knows the controller only through
its arguments and its standard output.

What is hard about it: the main goroutine, the worker goroutines, the guests,
the timer and the user run concurrently, and `select` picks at random; while
`Stop` runs nobody receives; almost every error is dropped (`Init`, `Shutdown`,
`DomainInfo`, `json.Unmarshal`, `consoleCmd.Start`, `os.Remove`); a kill may
come between any two steps of `Save`; a `Prep` that fails half-way leaves the
pools as they are for the next one; the clock of the guest stops for it,
wraps, and steps back; the guests of every run have the same names, and one that
is left over is in the way of a later run; ^C does something else in every phase
of the program; Go maps are visited in any order. PROJECT.json lists each place under "hazards".

What makes the components correct:

- *Run*: it counts its workers right, leaves no guest behind, records every
  report before the stop once and in order and none after it, gives a verdict
  that is true and final, and returns.
- *Plan file*: what was saved is never executed again, and never lost but to a plan
  that the user makes anew from a template.
- *Cpupools*: a run that starts has the pool it asks for, and no more was taken
  from the other pools than it asks for.
- *Worker*: jobs are done in the order of their times, none early, none lost;
  sleeps and reports keep to the arguments.
- *Worker creation and session*: no worker touches a guest that is not its own;
  what is saved as completed did run all its workers; no guest outlives its run
  without a cause; a command ends.
- *Bitmaps*: they are the sets of cpus they are taken for, and so is the string
  that is the soft affinity of every guest.
- *Plan expansion*: a run for every combination of the matrix and no more, with the
  presets of the file or the program.
- *Statistics and reports*: the extremes, averages, rows and points are those of
  the windows between two reports of one worker.

## The modules

| module | models | kind |
|---|---|---|
| `RunContract` | what a run promises to `plan.Run` | abstract specification |
| `RunLoop` | `BenchmarkRun.Run`, `WorkerList`, `XenWorker.Process` and `Shutdown`, guests, consoles, SIGINT, timer | detailed, implements `RunContract` |
| `DurablePlan` | what the plan file promises to the user | abstract specification |
| `PlanFile` | `main`'s commands, `BenchmarkPlan.Run`, `LoadBenchmark`, `Save`, kills | detailed, implements `DurablePlan` |
| `Cpupools` | `Prep`, `GetCpumap` and the cpupool calls on the host's pools | detailed |
| `BurnWait` | worker.c | detailed |
| `Session` | `BenchmarkPlan.Run` over `NewWorkerList`, `Init`, `Run` and `Save`, several commands | composition, other components by what is seen of them |
| `CpuSet` | what callers take a Bitmap for | abstract specification |
| `Bitmap` | the bitmap operations, `Bitmap.String` turn by turn | detailed, implements `CpuSet` |
| `PlanExpand` | `ExpandInput`, over the plan commands of a process | pure function, against its definition |
| `Summary` | `BenchmarkRun.Process` and the three reports | pure function turn by turn, against its definition |
| `MC...` | instances for TLC | |
| `..._proofs` | theorems and proofs | |

The modules meet at named places. `RunLoop`'s `Verdict` (nil error means
completed) is what `PlanFile` assumes of a run: its actions `RunCompletes`,
`RunFails`, `RunInterruptedComplete` and `RunWithoutWorkers` are the four ways
a run may return, and `Kill` also stands for the end of one that never does.
`Cpupools`' `Target` is the pool a ready run will use; `RunLeavesGuest` is the
guest that `RunLoop` may leave alive. `GuestPrint` in `RunLoop` is what
`BurnWait`'s `Report` does, as seen from the console. `Session` puts `RunLoop`,
`PlanFile` and `Cpupools` together, each reduced to what the others see of it; its
`SetupIsAsRunLoopAssumes` says that the states `RunLoop` starts from (`Setup`) are
those that `Init` leaves, for any guests earlier runs left. `Cpupools` uses sets of
cpus where the code has bitmaps: `Bitmap` shows that it may. `Summary` takes in
reports in the order `RawIsAPrefix` gives them, torn and with a lost cpu time
only where `RunLoop` has them. `PlanExpand` makes the runs that `PlanFile` numbers.

### RunLoop

State: the locals of `Run` (`left` is the code's `i`), `Results.Raw` split by
worker, the set of workers that `Stop` has yet to visit, the timer and signal
channels, the control point of every goroutine, and of every guest its domain
state, the lines it has printed, and whether an unfinished line follows.

- A receive from an unbuffered channel is one step of main and the sender:
  `RecvReport`, `RecvDone`. The reason of the stop is kept in `why` until `Stop`
  is over (`FinishStop`), because `stopped`, `err` and `i--` come after it.
- `StopOne` is one `xl destroy`; map order is any order. It may fail, and the
  error is dropped.
- `NewWorkerList` drops what `Init` returns, so a worker starts in any of five
  states (`Setup`). `ScanNilConsole` is the panic of `Scan` on a nil pipe.
- `ScanTail`: a guest that dies while it prints leaves half a line, the Scanner
  returns it, the error of `json.Unmarshal` is dropped, and a report without
  fields is sent (`n = 0`).
- SIGINT comes in two ways. `SigintAlone` is `kill -INT`. `CtrlC` is the key at
  a terminal: every `xl console` is in the same process group and dies too, with
  some lines not passed on (`PassedOn`).
- The timer is armed with 0 seconds like any other.

### PlanFile

State: the file and the backup (absent, torn, input or plan, with the results
of each run and the soft affinity Run has stored), the plan in memory, the
control point, and history: what `Save` has acknowledged (`acked`), how often a
run was completed. A result is the number of the execution that gave it.

`Save` is four steps, each of which may fail, and `Kill` comes between any two:
`RenameToBackup`, `OpenFile` (truncates), `WriteFile`, `RemoveBackup`; `Undo`
renames back. `PlanFromTemplate` is `-t template -f file plan`: it looks at neither the file
nor the backup (`main.go:59-94`), so it writes an empty plan over results that were saved, and
its Save renames an unreadable file over a backup that has them (`GivesUpBackup`); the
properties say that nothing else loses results. `dirName` is whether the file name has a
directory in it, which leaves Save without a backup. `RestoreByHand` is the user who moves the backup back. A crash is the
death of the process: files keep what was written.

### Cpupools

State: the pools of the host (id, name, scheduler, cpus, guests), the run at
hand, Prep's snapshot of its pool and the cpus it has yet to free. Prep's
decision is one step (`Look`, with `Decision` as the order of its early
returns); then destroy, list, one call per pool to free cpus, and create. Each
call may fail, and the list may fail and read as empty (`misreads`). `Admin...`
actions come between any two calls.

### BurnWait

State: the clock, the queue, the element being worked on, the locals of
`eventqueue_loop`, the report schedule and the index. `Tick` may come between
any two steps, so a step takes any time, which is what preemption is. Time is
counted in units; `Wrap` is where the 64 bits of `now()` overflow.

### Session

State: the position of `plan.Run` and of `Init`, what a run knows of its workers
(how the set-up ended, `domid`, the goroutine), the guest of each name on the host
with the attempt that made it, whether it is unpaused and whose arguments it has,
and for each run what was saved.

- An unpause may fail for any reason (`UnpauseFails`), and Stop's `xl destroy` for any
  of its guests (`Left`).
- `Init` is one action per command of the tool stack: `Create`, `GetDomid`,
  `WriteArgs`, `StartConsole`; `StepFails` is any of them failing, `NameTaken` is
  `xl create` with a guest of that name on the host. `Settled` goes to the next worker,
  since `NewWorkerList` drops the error, or to `Run`.
- A run is `RunLoop` without its reports and with `Stop` in one step.
- ^C before the first `signal.Notify` of the process kills it (`Dies`); in a later
  set-up it kills the command at work only (`InterruptSetup`); in a run it is
  `InterruptRun`; between runs it is lost (`InterruptLost`).
- `Dies` may come anywhere, and an `xl create` that is killed may have made its guest.

### Bitmap and CpuSet

A byte is the set of its bits. `Set`, `Clear` and `And` compute on bytes and masks
as the code does, with the lengths they give the map. `String` is one action per
path through a turn of its loop; the string is a sequence of items ("4", "4-",
"4-8"), so that a missing number or a comma too many can be seen.

### PlanExpand

One action, `PlanCommand`, is `ExpandInput` with its refusals in the order of the
code. The state between commands is `WorkerPresets`, which is global, and
`NewProcess` resets it. Slices are sequences; the two crossings of the code are `BySchedulers` and
`ByNumaDisable`. `PlanIsTheMatrix` says that every base has a run under every scheduler and option, in
whatever order, and with which Args. It leaves out files that name a worker of an
earlier file only: those get the earlier file's Args (see below).

### Summary

`Fold` is a turn of the loop over `Results.Raw`, `Average` a turn of the loop over
the map of workers (in any order), `AddAverage` a turn of the loop over a set's
workers, and `EndFold`, `EndAverage` and `AverageOfAverages` are where they end. A
float64 is an exact ratio, with 0 as denominator for NaN (0/0) and the infinities (1/0 and
-1/0), which compare and add as in Go. `rawOf` is `WorkerSummary.Raw`, `raw` what has been
read of `Results.Raw`. The reports that may come in (`Possible`) are those RunLoop can
record of what worker.c prints. `Printed`, `Row` and `Points` are the other three
places that compute windows, each with its own variable for the report before.

## Properties, runs and bounds

| run | module | shows |
|---|---|---|
| `run_safety` | RunLoop | counter, shutdown, recorded reports, verdict, contract, for all ways workers may be set up |
| `run_until_interrupt` | RunLoop | RuntimeSeconds 0, and under fairness: a run is stopped; a stopped run whose consoles ended returns |
| `plan_save` | PlanFile | durability and no repetition, for runs of every kind, templates over old files, file names with and without a directory, three faults anywhere |
| `pool_prep` | Cpupools | two runs in a row from every starting set of pools, with failing calls, a failing list and an administrator |
| `worker_queue` | BurnWait | order, conservation, waits, sleeps, report schedule |
| `session` | Session | left-over guests, what Init leaves to RunLoop, what a saved run has really run; under fairness: a command ends |
| `bitmap_string` | Bitmap | any map over two bytes implements its set of cpus, and the string names them |
| `plan_matrix` | PlanExpand | every combination of the matrix has its run, for plan files of every shape, in one process or several |
| `summary` | Summary | extremes, averages, and the windows in the three reports, for every order of reports and workers |
| `plan_interrupted`, `session_hard_exit`, `summary_minimum` | | violations: see below |

Bounds, and why they are enough:

- *RunLoop*: two workers, so that one can race, block, exit or fail while
  another does; main tells workers apart in nothing and `WorkerList.Stop` treats
  them one by one. One report line (`MaxReports`) and an unfinished one give a
  report before the stop, one across it, and a torn one, and leave a second entry to
  get wrong; the theorems have no bound. Two ^C reach the hard exit; one failing
  `xl destroy`. `run_safety` leaves out the set-up without a domain, which
  `run_until_interrupt` has.
- *PlanFile*: four runs, one of each kind, so that there is one before, at and after
  the one being saved; five commands (plan, an interrupted run, a run after a
  restore, a template over it, a full run); three faults: a failed write, a failed undo and a
  kill. The file name may have a directory or not.
- *Cpupools*: three cpus of the host and one beyond its cpumap; three pool ids,
  which is Pool-0, the pool of the run and a foreign one. Every start is an
  initial state, so two runs are enough for one to meet what a failed one left.
- *BurnWait*: waits of 0, 1 and 3 units and work of 0, 2 and 4 operations give every
  order of the queue; three words let the index go round; the clock ends at 7.
- *Session*: three runs with two, one and two workers, so that a guest the first run
  leaves is in the way of the third and not of the second, or of the first again in the second
  command; one fault (a failing command, unpause or save, a stop that leaves any of its guests, or a kill) and two ^C,
  which is one to stop and one to leave. The theorems have no bound.
- *Bitmap*: cpus 0 to 9 cross the border of a byte, and the masks given to `And`
  are shorter, longer, empty and full. Every one of the 1024 sets is reached, and
  `String` starts from each. The theorems have no bound.
- *PlanExpand*: lists that are missing, empty, of one and of several; own, built-in and
  missing presets; one file for each refusal. Nothing in `ExpandInput` depends on a longer list.
- *Summary*: two workers and five reports: three of one are two windows, which is
  one to be the extreme and one to be forgotten, with two of the other in between. The steps
  are idle, fast, slow, and a clock that steps back.

A cfg that says `CHECK_DEADLOCK FALSE` says why: the program stops there.
Workers are symmetric in RunLoop, and `run_safety` uses that.

TypeOK is the one type invariant of each module. Two of them say more than
types: RunLoop's that the counter never goes below zero, PlanFile's that no
step passes over a run.

## Fairness

Only `run_until_interrupt` and `session` need it (`FairSpec`). Weak fairness of each
goroutine, of each channel receive, of `Stop`'s turns and of the loop's exit is
what the Go scheduler gives: a goroutine that can run will run, and a `select`
picks uniformly among ready cases, so none is passed over for ever. `FireTimer`
is fair because time passes. Nothing is assumed of guests, users or `xl destroy`: a
guest may print nothing and never end. `StoppedRunReturns` therefore has a
hypothesis (`Drained`): every console has ended and no goroutine went silent.

`Session` has the same fairness in larger steps: the process goes on, the timeout
comes, a goroutine that can run does, and `select` takes a `done` that stays
ready. `CommandEnds` has the corresponding exception, `Stuck`: Run waits for a worker
whose goroutine ended without a word, or whose guest `xl destroy` did not destroy.

## Proofs

Eight modules of proofs, one for each module above but the abstract specifications;
each theorem is for every value of the constants. The pattern is the same: a
strengthened invariant, `Init => Inv`, `Inv /\ [Next]_vars => Inv'` by cases over the
actions, and `Inv => Property`.

- `RunLoop_proofs`. `TypeInv` adds that main is in `Stop` only with workers
  left. `ControlInv` ties main's control to the verdict: a stop happens once,
  with a reason; before it the verdict is open. From it `Verdict`, that a
  verdict is final (`VerdictStable`), and with `EarlyInv` (an early stop has its leaver)
  `InterruptCompletes`. `LeftCountsWorkers` is inductive beside it. `StopInv`: the
  workers `Stop` has visited are handled, and handled workers stay so. `RawInv`
  follows a report from the console to `Results.Raw`: until the stop, what main
  has of a worker is all that its goroutine parsed but for the report it is
  sending. From it `RawIsAPrefix` and `CputimeLostOnlyByExit`, and with
  `ControlInv` the step simulation for `ImplementsContract`. The last two
  theorems are the part of `StoppedRunReturns` that needs no fairness. Of a stopped
  run whose consoles have ended (`Drained`), `StoppedNeverStuck`: the guard of some
  goroutine, of a receive or of the loop's exit holds until Run is over (the loop waits
  for a worker, `LeftCountsWorkers`; that one is sending, done, or scans a console that
  has ended, `SetupInv`). `StoppedComesNearer`: `Drained` stays so, each step of the
  program takes something off what is left to do (`ToDo`: lines to read and send,
  done; and the timer's), and no guest or ^C adds to it.
- `PlanFile_proofs`. The invariant says at each point of `Save` where the last
  saved results are: in the file, in the backup, or both, and that memory is
  ahead of them by the current run only; while a template is made into a plan, what is
  claimed of them is what the user has not given up. With a directory in the file name it is
  the file alone that has them, and only a torn file is excepted.
- `Cpupools_proofs`. The invariant says at each of Prep's control points what
  the earlier calls have established: after the list every pool with a wanted
  cpu is still to be freed; before the create no pool is called schedbench.
  `OwnPoolsOnly` (a run with Cpus names Pool-0, nothing, or schedbench) is assumed
  where it is needed: with another name the pool Prep makes is not the one the run is
  given to (see below).
- `BurnWait_proofs`. The queue is sorted, holds each job once, and each start
  is at or after the end of the job's wait. `ReportsKeepSchedule` assumes a
  positive interval, `SleepIsBounded` that the clock does not reach `Wrap`. The least-number principle that
  `Position` needs is derived from the well-foundedness of strict subset.
- `Session_proofs`. `Types` adds to TypeOK what each phase bounds. `WorkerInv`
  follows each worker: how its set-up ended fixes its `domid` and, until it is
  unpaused, the state of its guest (`SetupInv`, `RunInv`); a goroutine that is done
  scanned a console, and with one it ran its own guest (`InRunAs`). That gives
  `SetupIsAsRunLoopAssumes` directly and, since Run returns nil without the second
  ^C only when all are done, `CompletedRanItsWorkers`. `LeftInv` adds that a guest
  on the host is of the run at hand, or of one that is excused.
- `Bitmap_proofs`. Lemmas say what each operation does to the set `Cpus(bm)`
  (`TestedCpus`, `SetIsUnion`, `ClearIsMinus`, `AndIsIntersection`). `ListInv` is the
  invariant of String's loop: the items written so far name the cpus below `i`,
  but for those of the range that is open, and the flags say what the last item is;
  one lemma for each path of a turn. From it `StringNamesTheCpus`, and with the
  lemmas on the operations the step simulation for `ImplementsCpuSet`.
- `Summary_proofs`. The order of ratios comes first: it is transitive, with the infinities
  and without NaN (`LessTransitive`), and a mediant lies between (`MediantIs`). `Read` says
  what `data` has of the reports read (`DataOf`) and how the reports of one worker follow
  each other; that decides which branch of the loop is taken (`FirstOrNext`). An extreme
  depends on the set of the windows' rates only (`RatesOf`), to which a turn adds one;
  Min does so since the last idle window (`SinceIdle`), which is all windows if none is idle:
  `MinMaxRead` is the loop's invariant, and gives `MinMaxOfWindows`. `Paired` matches the reports in `Results.Raw`
  with those in `WorkerSummary.Raw` and gives `ReportsShowTheWindows`. `Means` says that the
  ratio from first to last report is between the windows so far: another report makes it the
  mediant of itself and the new window; with `AveragesVisited`, the invariant of the second
  loop, that is `AverageIsBetweenWindows`. `Totals`, of the third loop, compares the total with
  `count` times either extreme, and gives `SetSummaryNeedsNoOrder`.
- `PlanExpand_proofs`. `FlattenSeq` is a fold, but it has a closed form when its parts are of one
  length: element y of part x comes to stand at `(x - 1) * n + y` (`FlattenIs`). The closed form
  solves the recursion of the fold, and `OneFlattening` shows that there is one solution:
  there is no least place where two differ. Both crossings follow (`SchedulersCrossed`, `NumaDisableCrossed`), then what is at each place
  of the plan (`ExpandedIs`). The invariant is that the last accepted command left
  that expansion of its own input.

Only model-checked:

- the liveness properties (`EventuallyStopped`, `StoppedRunReturns`,
  `CommandEnds`): liveness under fairness and ENABLED are beyond the prover. What is
  proved towards `StoppedRunReturns` writes the guards out, where fairness has ENABLED,
  and stops short of the induction over `ToDo`.

Every safety property of a passing run is a theorem.

No module declares a RECURSIVE operator.

## What the program does not do as documented

Three runs end in a counterexample, each a disagreement between the code and
what the README says of it. PROJECT.json ("findings") quotes both.

| run | the code | says otherwise |
|---|---|---|
| `plan_interrupted` | a run completed by ^C is not saved | `README.md:77-78` |
| `session_hard_exit` | a run one of whose guests was never created is saved as completed | `README.md:126-130` |
| `summary_minimum` | the minimum of a set forgets an idle window when the next one is not | `README.md:301-302` |

Others are steps of the models, and have no run of their own because they can be
read off one line of the source:

- `NilNumaDisable` (PlanFile): a nil dereference when NumaDisable is not given
  (`run.go:341`; `README.md:141-142` says false is the default).
- `SoftAffinityConflict` (PlanFile): the soft affinity that Run computes is saved
  with the plan (`run.go:348`). An empty run with NumaDisable, which is never
  completed, is refused for it by the next command (`README.md:138-140`).
- `Decision` (Cpupools): with Cpus given, a pool other than Pool-0 is destroyed and
  created again although it matches (`run.go:164-165` against 287-295).
- `Create` (Cpupools): every pool is created as schedbench (`run.go:305`), so with another
  Pool name and Cpus the named pool is destroyed, Prep says ready, and the pool the run is
  given to is not there (`README.md:145-146`).
- `CpuMatches` (Cpupools): the comparison ends with the last bit of the pool's own
  cpumap, so a selected cpu beyond it is not missed (`README.md:168-170`, `run.go:231`).
- `Wake` (BurnWait): `assert(rc == 0)` on an uninitialised variable (`worker.c:84`).
- `WritesBeyond` (BurnWait): the index comes to the number of words, one past the
  mapping (`worker.c:209`).
- `UnpauseFails` (RunLoop, Session): a failed unpause is not reported, and Run waits
  for ever (`xenworker.go:236`, 245).
- `TakeSignal` (RunLoop), `HardExit` (Session): after a timeout a ^C makes Run return nil with
  workers left, and the plan goes on (`run.go:407` says it exits).
- `CtrlC` (RunLoop): ^C kills the consoles too, so Run may say that a worker left
  early (`run.go:383`) where the user stopped it.
- `RenameToBackup` (PlanFile, `dirName`): a directory in the file name makes a backup
  name in a directory that does not exist, and Save goes on without (`benchmark.go:422-435`):
  a Save cut short then loses every result.
- `PlanFromTemplate` (PlanFile): `plan` with `-t` asks no question about a file that has
  results, nor about a backup that has the only ones after a kill (`main.go:59-94`).
- `Wrap` (BurnWait): the clock overflows after some hours, and a job is not done for
  as long (`worker.c:71`, 219).
- `InterruptSetup`, `InterruptLost` (Session): after the first run a ^C between two runs is lost,
  but the `xl` command at work dies of it (`run.go:365`).
- `Average` (Summary): the set's extremes of averages are folded by `Update` too. An
  average of 0 is forgotten; a worker with one report has an average of NaN, which stays
  in the set's extremes if the map gives it first (`benchmark.go:271`).
- `Merged` (PlanExpand): the presets are global, so a second `plan` in one process
  accepts a worker that only the file before defines, with the Args given there (`plan.go:63-65`).
- `Expanded` (PlanExpand): the schedulers alternate for each base, where
  `README.md:132-134` has all tests with the first, then all with the second.

## What is not modelled, and assumptions

- The layout of the reports, xltest, getCpuHz, the stubs and the scripts: output, a
  manual test, and pure I/O. The process worker cannot be reached: `Run` asks for Xen
  workers always (`run.go:354`). A plan whose WorkerType is not Xen does not open
  the context, and `Process` panics (`xenworker.go:239`); plans here are Xen plans.
- Of libxl.go the conversions between C and Go structures, field by field, which
  call C code that is not in the repository, and the two calls only xltest makes.
- `Bitmap.Set` and `Clear` with a negative number, which no caller gives.
- The standard deviations of `Summary` (a square root), several sets of workers in
  one run (they share nothing but `Raw`), and rounding.
- `Session` gives one run command after another; a process that is given several
  (`main.go` allows it) differs by the signal channel of the earlier ones only,
  which `notified` has within one command.
- `SetkHZ` panics on a worker without Args; plans here have Args. It puts kHZ
  first, so worker.c never waits for a clock that is not set.
- A closed context gives the same results as failing calls.
- Printing from the loop (`Report`, `DumpLog`) and `w.Log`.
- The console passes on what the guest printed, in order; a line is at most
  64 KB, the Scanner's limit.
- The file system loses nothing that was written before a kill of the process;
  power failure is left out.
- The administrator moves cpus and destroys guests left behind; he does not
  create, rename or destroy pools while schedbench runs.
- Values computed by `now()` before it overflows are ordered as the clock is; the
  division by kHZ is left out. `counter` and `kops_done` steer nothing.
- `PlanFile` has whether a plan file is expanded; into what is `PlanExpand`.

## Plan

Order, most important first; all but the last two are done.

1. `RunLoop` with `RunContract`: runs, then proofs of all safety properties.
2. `PlanFile` with `DurablePlan`.
3. `Cpupools`.
4. `BurnWait`.
5. `Session`, with worker creation: guests left over, and signals, from run to run.
6. `Bitmap` with `CpuSet`.
7. `Summary`: extremes and averages against their windows.
8. `PlanExpand`: the matrix.
9. Proofs about `Session` and `Bitmap`.
10. Proofs about `Summary` and `PlanExpand`.
11. The safety half of `StoppedRunReturns`: a stopped run always has a step to take,
    and its steps come nearer to the end.
12. The same for `CommandEnds`.
13. Liveness of `BurnWait` (every job is done again and again while the clock
    goes on), which needs a clock that does not end.

## Running the checks

    tlc -config run_safety.cfg MCRunLoop.tla
    tlapm RunLoop_proofs.tla

The module of each run and what it checks are listed in PROJECT.json ("runs"),
with a mutant for each property of a passing run ("mutants"): a plausible bug
in the named definition, defined just before it, that makes the run fail.
