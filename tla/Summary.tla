------------------------------ MODULE Summary ------------------------------
(***************************************************************************)
(* BenchmarkRun.Process of controller/benchmark.go, which turns the        *)
(* reports of a run into the numbers of the text report, for one set of    *)
(* workers; and the three other places that compute the same windows:      *)
(* Report (run.go), the rows of TextReport, and the points of the HTML     *)
(* report.                                                                 *)
(*                                                                         *)
(* Process reads Results.Raw a report at a time, then takes its workers in *)
(* the order of a Go map, which is any.  The reports come in as they are   *)
(* read: those of a worker are in the order of RunLoop's RawIsAPrefix and  *)
(* carry what worker.c prints.  A float64 is an exact ratio, NaN and the   *)
(* infinities included; the deviations (a square root) are left out.       *)
(***************************************************************************)
EXTENDS Integers, FiniteSetsExt, Sequences

CONSTANTS
  Worker,     \* the workers of the set
  Starts,     \* data: when a worker may begin, and its guest's cpu time by then
  Steps,      \* data: by what a report may differ from the one before
  MaxReports  \* bound: reports in Results.Raw

Kind == {"Tput", "Util"}

ASSUME SummaryAssumption ==
  /\ MaxReports \in Nat
  /\ Starts \subseteq [Now : Nat \ {0}, Cputime : Nat]
  /\ Steps \subseteq [Now : Int \ {0}, Kops : Nat, Cputime : Nat]

VARIABLES
  pc,        \* "fold", "average", "total" or "done": Process's loops
  raw,       \* what has been read of Results.Raw
  rawOf,     \* WorkerSummary.Raw
  data,      \* the map data, with zeros for a worker it has not
  minMax,    \* WorkerSummary.MinMaxTput and MinMaxUtil
  setMinMax, \* those of the WorkerSetSummary
  toVisit,   \* workers that the second or third loop has yet to visit
  avg,       \* WorkerSummary.AvgTput and AvgUtil
  avgMinMax, \* WorkerSetSummary.MinMaxAvgTput and MinMaxAvgUtil
  total,     \* totalTput and totalUtil
  count,
  avgAvg     \* WorkerSetSummary.AvgAvgTput and AvgAvgUtil

vars == <<pc, raw, rawOf, data, minMax, setMinMax, toVisit, avg, avgMinMax, total, count, avgAvg>>

-----------------------------------------------------------------------------
(* float64: a ratio, with d = 0 for NaN and the infinities.                *)

Sign(n)     == IF n > 0 THEN 1 ELSE IF n < 0 THEN -1 ELSE 0
Ratio(n, d) == IF d = 0 THEN [n |-> Sign(n), d |-> 0]
               ELSE IF d < 0 THEN [n |-> -n, d |-> -d] ELSE [n |-> n, d |-> d]
Zero        == [n |-> 0, d |-> 1]
IsNaN(x)    == x.n = 0 /\ x.d = 0
IsZero(x)   == x.n = 0 /\ x.d # 0
Less(x, y)  == ~IsNaN(x) /\ ~IsNaN(y) /\ IF x.d = 0 /\ y.d = 0 THEN x.n < y.n
                                         ELSE x.n * y.d < y.n * x.d
Plus(x, y)  == IF x.d = 0 /\ y.d = 0 THEN [n |-> IF x.n = y.n THEN x.n ELSE 0, d |-> 0]
               ELSE IF x.d = 0 THEN x ELSE IF y.d = 0 THEN y
               ELSE [n |-> x.n * y.d + y.n * x.d, d |-> x.d * y.d]
Over(x, k)  == Ratio(x.n, x.d * k)

Throughput(lt, lm, t, m)  == Ratio(m - lm, t - lt)
Utilization(lt, lc, t, c) == Ratio(c - lc, t - lt)

\* Both, of the time between two reports.
Rates(from, to) ==
  [k \in Kind |-> IF k = "Tput" THEN Throughput(from.Now, from.Kops, to.Now, to.Kops)
                  ELSE Utilization(from.Now, from.Cputime, to.Now, to.Cputime)]

NoMinMax == [Min |-> Zero, Max |-> Zero]

\* Mutant of Update: Min starts at the 0 of a new MinMax.
Update_NoFirst(mm, x) ==
  [Max |-> IF Less(mm.Max, x) THEN x ELSE mm.Max,
   Min |-> IF Less(x, mm.Min) THEN x ELSE mm.Min]

\* Mutant of Update: `else if` for the second `if`.
Update_ElseIf(mm, x) ==
  [Max |-> IF Less(mm.Max, x) THEN x ELSE mm.Max,
   Min |-> IF ~Less(mm.Max, x) /\ (Less(x, mm.Min) \/ IsZero(mm.Min)) THEN x ELSE mm.Min]

\* MinMax.Update: a Min of 0 is taken for none.
Update(mm, x) ==
  [Max |-> IF Less(mm.Max, x) THEN x ELSE mm.Max,
   Min |-> IF Less(x, mm.Min) \/ IsZero(mm.Min) THEN x ELSE mm.Min]

-----------------------------------------------------------------------------
(* The reports.                                                            *)

Report   == [Id : Worker, Now : Nat, Kops : Nat, Cputime : Nat]
NoReport == [Now |-> 0, Kops |-> 0, Cputime |-> 0]

Torn(e)  == e.Now = 0
Last(w)  == rawOf[w][Len(rawOf[w])]

(***************************************************************************)
(* What may follow in Results.Raw.  A worker's first report comes before   *)
(* any work (worker.c:143), so that its Kops are 0.  A torn line is a      *)
(* worker's last.  The guest may be gone when DomainInfo is asked, and     *)
(* stays gone: Cputime 0.                                                  *)
(***************************************************************************)
First(w) ==
  {[Id |-> w, Now |-> start.Now, Kops |-> 0, Cputime |-> start.Cputime] : start \in Starts}
Later(w, last) ==
  {e \in {[Id |-> w, Now |-> last.Now + step.Now, Kops |-> last.Kops + step.Kops,
           Cputime |-> IF last.Cputime = 0 THEN 0 ELSE last.Cputime + step.Cputime]
          : step \in Steps} : e.Now > 0}

AsReported(e, torn, gone) ==
  [Id |-> e.Id, Now |-> IF torn THEN 0 ELSE e.Now, Kops |-> IF torn THEN 0 ELSE e.Kops,
   Cputime |-> IF gone THEN 0 ELSE e.Cputime]
Possible(w) ==
  {AsReported(e, torn, gone) :
     e \in IF rawOf[w] = <<>> THEN First(w) ELSE IF Torn(Last(w)) THEN {} ELSE Later(w, Last(w)),
     torn \in BOOLEAN, gone \in BOOLEAN}

-----------------------------------------------------------------------------
(* Process.                                                                *)

NoData == [startTime |-> 0, startCputime |-> 0,
           lastTime |-> 0, lastKops |-> 0, lastCputime |-> 0]
InData == {w \in Worker : rawOf[w] # <<>>}

Init ==
  /\ pc = "fold" /\ raw = <<>> /\ rawOf = [w \in Worker |-> <<>>]
  /\ data = [w \in Worker |-> NoData]
  /\ minMax = [k \in Kind |-> [w \in Worker |-> NoMinMax]]
  /\ setMinMax = [k \in Kind |-> NoMinMax]
  /\ toVisit = {}
  /\ avg = [k \in Kind |-> [w \in Worker |-> Zero]]
  /\ avgMinMax = [k \in Kind |-> NoMinMax]
  /\ total = [k \in Kind |-> Zero] /\ count = 0
  /\ avgAvg = [k \in Kind |-> Zero]

\* The window that ends with e.
Window(d, e) ==
  Rates([Now |-> d.lastTime, Kops |-> d.lastKops, Cputime |-> d.lastCputime], e)

\* Mutant of Advanced: the time since the last report is kept.
Advanced_Delta(d, e) ==
  [startTime |-> d.startTime, startCputime |-> d.startCputime,
   lastTime |-> e.Now - d.lastTime, lastKops |-> e.Kops, lastCputime |-> e.Cputime]

Advanced(d, e) ==
  [startTime |-> d.startTime, startCputime |-> d.startCputime,
   lastTime |-> e.Now, lastKops |-> e.Kops, lastCputime |-> e.Cputime]

FirstOfWorker(e) ==
  /\ data[e.Id].startTime = 0
  /\ data' = [data EXCEPT ![e.Id] =
       [startTime |-> e.Now, startCputime |-> e.Cputime,
        lastTime |-> e.Now, lastKops |-> e.Kops, lastCputime |-> e.Cputime]]
  /\ UNCHANGED <<minMax, setMinMax>>

\* Mutant of NextOfWorker: the last report is not replaced.
NextOfWorker_FromStart(e) ==
  LET d == data[e.Id] IN
  /\ d.startTime # 0
  /\ minMax' = [k \in Kind |-> [minMax[k] EXCEPT ![e.Id] = Update(@, Window(d, e)[k])]]
  /\ setMinMax' = [k \in Kind |-> Update(setMinMax[k], Window(d, e)[k])]
  /\ UNCHANGED data

NextOfWorker(e) ==
  LET d == data[e.Id] IN
  /\ d.startTime # 0
  /\ minMax' = [k \in Kind |-> [minMax[k] EXCEPT ![e.Id] = Update(@, Window(d, e)[k])]]
  /\ setMinMax' = [k \in Kind |-> Update(setMinMax[k], Window(d, e)[k])]
  /\ data' = [data EXCEPT ![e.Id] = Advanced(d, e)]

Fold(w) ==
  /\ pc = "fold" /\ Len(raw) < MaxReports
  /\ \E e \in Possible(w) :
       /\ raw' = Append(raw, e)
       /\ rawOf' = [rawOf EXCEPT ![w] = Append(@, e)]
       /\ FirstOfWorker(e) \/ NextOfWorker(e)
  /\ UNCHANGED <<pc, toVisit, avg, avgMinMax, total, count, avgAvg>>

EndFold ==
  /\ pc = "fold"
  /\ pc' = "average" /\ toVisit' = InData
  /\ UNCHANGED <<raw, rawOf, data, minMax, setMinMax, avg, avgMinMax, total, count, avgAvg>>

\* Mutant of Averages: the time is counted from 0 too.
Averages_FromZero(d) ==
  [k \in Kind |-> IF k = "Tput" THEN Throughput(0, 0, d.lastTime, d.lastKops)
                  ELSE Utilization(0, d.startCputime, d.lastTime, d.lastCputime)]

Averages(d) ==
  [k \in Kind |-> IF k = "Tput" THEN Throughput(d.startTime, 0, d.lastTime, d.lastKops)
                  ELSE Utilization(d.startTime, d.startCputime, d.lastTime, d.lastCputime)]

Average(w) ==
  /\ pc = "average" /\ w \in toVisit
  /\ toVisit' = toVisit \ {w}
  /\ avg' = [k \in Kind |-> [avg[k] EXCEPT ![w] = Averages(data[w])[k]]]
  /\ avgMinMax' = [k \in Kind |-> Update(avgMinMax[k], Averages(data[w])[k])]
  /\ UNCHANGED <<pc, raw, rawOf, data, minMax, setMinMax, total, count, avgAvg>>

\* Mutant of Counted: a worker without reports is not counted.
Counted_Reporting == InData

\* WorkerSetSummary.Workers is nil when the set has no report at all.
Counted == IF raw = <<>> THEN {} ELSE Worker

EndAverage ==
  /\ pc = "average" /\ toVisit = {}
  /\ pc' = "total" /\ toVisit' = Counted
  /\ UNCHANGED <<raw, rawOf, data, minMax, setMinMax, avg, avgMinMax, total, count, avgAvg>>

\* The loop of the average of averages (an exact sum has no order).
AddAverage(w) ==
  /\ pc = "total" /\ w \in toVisit
  /\ toVisit' = toVisit \ {w}
  /\ total' = [k \in Kind |-> Plus(total[k], avg[k][w])]
  /\ count' = count + 1
  /\ UNCHANGED <<pc, raw, rawOf, data, minMax, setMinMax, avg, avgMinMax, avgAvg>>

AverageOfAverages ==
  /\ pc = "total" /\ toVisit = {}
  /\ pc' = "done"
  /\ avgAvg' = [k \in Kind |-> Over(total[k], count)]
  /\ UNCHANGED <<raw, rawOf, data, minMax, setMinMax, toVisit, avg, avgMinMax, total, count>>

-----------------------------------------------------------------------------
(* The other places, each with its own idea of the report before e.        *)

Before(mine, k) == IF k = 1 THEN NoReport ELSE mine[k - 1]

\* Mutant of Points: `le = e` only where a point is added.
Points_LastPoint(w) ==
  LET mine   == rawOf[w]
      has    == {k \in 1 .. Len(mine) : mine[k].Kops > 0}
      le(k)  == LET earlier == {j \in has : j < k} IN
                IF earlier = {} THEN NoReport
                ELSE mine[CHOOSE j \in earlier : \A x \in earlier : x <= j]
  IN  {[time |-> mine[k].Now, rates |-> Rates(mine[k], le(k))] : k \in has}

\* HTMLReport.AddRun: the points of a worker, where it has done anything yet.
Points(w) ==
  LET mine == rawOf[w]
  IN  {[time |-> mine[k].Now, rates |-> Rates(mine[k], Before(mine, k))]
       : k \in {x \in 1 .. Len(mine) : mine[x].Kops > 0}}

\* TextReport, level 2: a row for each report.
Row(w, k) ==
  LET e  == rawOf[w][k]
      le == Before(rawOf[w], k)
  IN  IF e.Now > le.Now
      THEN [dtime |-> e.Now - le.Now, dKops |-> e.Kops - le.Kops,
            dCputime |-> e.Cputime - le.Cputime]
      ELSE [dtime |-> 0, dKops |-> 0, dCputime |-> 0]

\* Report, while the run goes on: a line unless there was no report before.
Printed(w) ==
  LET mine == rawOf[w]
  IN  {[time |-> mine[k].Now, rates |-> Rates(Before(mine, k), mine[k])]
       : k \in {x \in 1 .. Len(mine) : Before(mine, x).Now > 0}}

Next ==
  \/ \E w \in Worker : Fold(w) \/ Average(w) \/ AddAverage(w)
  \/ EndFold \/ EndAverage \/ AverageOfAverages

Spec == Init /\ [][Next]_vars

-----------------------------------------------------------------------------
(* Properties.  A window is named by the place in raw of its last report.  *)

Float   == [n : Int, d : Nat]
MinMaxs == [Min : Float, Max : Float]
Data    == [startTime : Nat, startCputime : Nat,
            lastTime : Nat, lastKops : Nat, lastCputime : Nat]

TypeOK ==
  /\ pc \in {"fold", "average", "total", "done"}
  /\ raw \in Seq(Report) /\ rawOf \in [Worker -> Seq(Report)]
  /\ data \in [Worker -> Data] /\ toVisit \subseteq Worker /\ count \in Nat
  /\ minMax \in [Kind -> [Worker -> MinMaxs]] /\ avg \in [Kind -> [Worker -> Float]]
  /\ setMinMax \in [Kind -> MinMaxs] /\ avgMinMax \in [Kind -> MinMaxs]
  /\ total \in [Kind -> Float] /\ avgAvg \in [Kind -> Float]

Earlier(i)  == {j \in 1 .. i - 1 : raw[j].Id = raw[i].Id}
Previous(i) == Max(Earlier(i))
Windows(w)  == {i \in 1 .. Len(raw) : raw[i].Id = w /\ Earlier(i) # {}}
AllWindows  == UNION {Windows(w) : w \in Worker}
Done(e, k)  == IF k = "Tput" THEN e.Kops ELSE e.Cputime
Rate(i, k)  == Ratio(Done(raw[i], k) - Done(raw[Previous(i)], k),
                     raw[i].Now - raw[Previous(i)].Now)

\* A worker's reports as they should be: none torn, none with its cpu time
\* lost, and a clock that did not step back.
Regular(w) ==
  \A i \in 1 .. Len(raw) : raw[i].Id = w =>
    /\ ~Torn(raw[i]) /\ raw[i].Cputime > 0
    /\ \A j \in Earlier(i) : raw[j].Now < raw[i].Now

\* Max is the largest of the windows I.
IsLargest(x, k, I) ==
  /\ \A i \in I : ~Less(x, Rate(i, k))
  /\ x = Zero \/ \E i \in I : x = Rate(i, k)

\* Min is the smallest of the windows I.
IsSmallest(x, k, I) ==
  IF I = {} THEN IsZero(x)
  ELSE (\A i \in I : ~Less(Rate(i, k), x)) /\ (\E i \in I : x = Rate(i, k))

NoneIdle(k, I) == \A i \in I : ~IsZero(Rate(i, k))

\* What MinMax is, of a worker and of the set, whose reports are interleaved:
\* Max is the rate of the best window (or 0), whatever is in Results.Raw, and
\* Min that of the worst, as long as no window is idle (Update takes a 0 for no
\* minimum, benchmark.go:105: MinTputOfAnyWindow says what becomes of it).
MinMaxOfWindows ==
  \A k \in Kind :
    /\ \A w \in Worker :
         /\ IsLargest(minMax[k][w].Max, k, Windows(w))
         /\ Regular(w) /\ NoneIdle(k, Windows(w)) =>
              IsSmallest(minMax[k][w].Min, k, Windows(w))
    /\ IsLargest(setMinMax[k].Max, k, AllWindows)
    /\ (\A w \in Worker : Regular(w)) /\ NoneIdle(k, AllWindows) =>
         IsSmallest(setMinMax[k].Min, k, AllWindows)

\* ttotmin is the minimum throughput "seen in any window of any worker of this
\* set" (README.md:301-302), an idle window included.  It is not: Update lets the
\* window after an idle one replace its 0.
MinTputOfAnyWindow ==
  pc = "done" /\ (\A w \in Worker : Regular(w)) =>
    IsSmallest(setMinMax["Tput"].Min, "Tput", AllWindows)

\* The average of a worker with two reports or more lies between its worst
\* window and its best.  It does because kops are counted from 0 and time from
\* the first report: right only as long as no work comes before that.
AverageIsBetweenWindows ==
  pc = "done" => \A w \in Worker : Regular(w) /\ Windows(w) # {} =>
    \A k \in Kind :
      /\ ~Less(minMax[k][w].Max, avg[k][w])
      /\ \E i \in Windows(w) : ~Less(avg[k][w], Rate(i, k))

\* No average of 0, none that is NaN (a single report) or infinite.
AveragesAreUsual(k) == \A w \in InData : Less(Zero, avg[k][w]) /\ avg[k][w].d # 0

\* A set's summary of its workers' averages does not depend on the order of the
\* map, as long as no average is one that Update would forget (0) or, if it comes
\* first, keep for ever (NaN): the extremes are those of the averages, and their
\* mean is between them, but for a worker that never reported and counts as 0.
SetSummaryNeedsNoOrder ==
  \A k \in Kind :
    pc = "done" /\ InData # {} /\ AveragesAreUsual(k) =>
      /\ \E w \in InData : avgMinMax[k].Max = avg[k][w]
      /\ \E w \in InData : avgMinMax[k].Min = avg[k][w]
      /\ \A w \in InData : /\ ~Less(avgMinMax[k].Max, avg[k][w])
                            /\ ~Less(avg[k][w], avgMinMax[k].Min)
      /\ ~Less(avgMinMax[k].Max, avgAvg[k])
      /\ IF InData = Worker THEN ~Less(avgAvg[k], avgMinMax[k].Min)
         ELSE Less(avgAvg[k], avgMinMax[k].Max)

\* The lines printed during a run, the rows of the text report and the points
\* of the HTML report show the very windows that the statistics are made of; a
\* point is missing only where the worker has not done anything yet.
ReportsShowTheWindows ==
  \A w \in Worker : Regular(w) =>
    LET point(i) == [time |-> raw[i].Now, rates |-> [k \in Kind |-> Rate(i, k)]]
        row(k)   == [time |-> rawOf[w][k].Now,
                     rates |-> [x \in Kind |->
                       Ratio(IF x = "Tput" THEN Row(w, k).dKops ELSE Row(w, k).dCputime,
                             Row(w, k).dtime)]]
    IN  /\ Printed(w) = {point(i) : i \in Windows(w)}
        /\ Points(w) = {point(i) : i \in {x \in Windows(w) : raw[x].Kops > 0}}
        /\ {row(k) : k \in 2 .. Len(rawOf[w])} = {point(i) : i \in Windows(w)}
=============================================================================
