--------------------------- MODULE Summary_proofs ---------------------------
(***************************************************************************)
(* The statistics of Summary, for any number of workers and any reports of *)
(* theirs.                                                                 *)
(***************************************************************************)
EXTENDS Summary, SequenceTheorems, TLAPS

(***************************************************************************)
(* The order of ratios.                                                    *)
(***************************************************************************)
IsRatio(x) == x.n \in Int /\ x.d \in Nat

LEMMA CrossTransitive ==
  ASSUME NEW a \in Int, NEW b \in Int, NEW c \in Int,
         NEW p \in Nat, NEW q \in Nat, NEW r \in Nat, q > 0,
         a * q < b * p, b * r < c * q, p > 0 \/ r > 0
  PROVE  a * r < c * p
  <1>1. p >= 0 /\ r >= 0
    OBVIOUS
  <1>2. CASE p > 0 /\ r > 0
    <2>1. a * q * r < b * p * r
      BY <1>2
    <2>2. b * r * p < c * q * p
      BY <1>2
    <2>3. (a * r) * q < (c * p) * q
      BY <2>1, <2>2
    <2> QED BY <2>3
  <1>3. CASE p = 0
    <2>1. a * q < 0 /\ r > 0
      BY <1>3
    <2>2. a < 0
      BY <2>1
    <2> QED BY <2>1, <2>2, <1>3
  <1>4. CASE r = 0
    <2>1. 0 < c * q /\ p > 0
      BY <1>4
    <2>2. c > 0
      BY <2>1
    <2> QED BY <2>1, <2>2, <1>4
  <1> QED BY <1>1, <1>2, <1>3, <1>4

LEMMA LessTransitive ==
  ASSUME NEW x, NEW y, NEW z, IsRatio(x), IsRatio(y), IsRatio(z), Less(x, y), Less(y, z)
  PROVE  Less(x, z)
  <1> DEFINE a == x.n
             b == y.n
             c == z.n
             p == x.d
             q == y.d
             r == z.d
  <1>1. a \in Int /\ b \in Int /\ c \in Int /\ p \in Nat /\ q \in Nat /\ r \in Nat
    BY DEF IsRatio
  <1>2. /\ ~(a = 0 /\ p = 0) /\ ~(b = 0 /\ q = 0) /\ ~(c = 0 /\ r = 0)
        /\ IF p = 0 /\ q = 0 THEN a < b ELSE a * q < b * p
        /\ IF q = 0 /\ r = 0 THEN b < c ELSE b * r < c * q
    BY DEF Less, IsNaN
  <1> SUFFICES IF p = 0 /\ r = 0 THEN a < c ELSE a * r < c * p
    BY <1>2 DEF Less, IsNaN
  <1> HIDE DEF a, b, c, p, q, r
  <1>3. CASE q > 0
    <2>1. a * q < b * p /\ b * r < c * q
      BY <1>1, <1>2, <1>3
    <2>2. CASE p > 0 \/ r > 0
      <3>1. a * r < c * p
        BY <1>1, <1>3, <2>1, <2>2, CrossTransitive
      <3>2. ~(p = 0 /\ r = 0)
        BY <1>1, <2>2
      <3> QED BY <3>1, <3>2
    <2>3. CASE p = 0 /\ r = 0
      <3>1. a * q < 0 /\ 0 < c * q
        BY <1>1, <2>1, <2>3
      <3>2. a < 0 /\ 0 < c
        BY <1>1, <1>3, <3>1
      <3> QED BY <1>1, <2>3, <3>2
    <2> QED BY <1>1, <2>2, <2>3
  <1>4. CASE q = 0
    <2>1. CASE p = 0 /\ r = 0
      BY <1>1, <1>2, <1>4, <2>1
    <2>2. CASE p > 0 /\ r > 0
      <3>1. 0 < b * p /\ b * r < 0
        BY <1>1, <1>2, <1>4, <2>2
      <3>2. b > 0 /\ b < 0
        BY <1>1, <2>2, <3>1
      <3> QED BY <1>1, <3>2
    <2>3. CASE p = 0 /\ r > 0
      <3>1. a < b /\ b * r < 0
        BY <1>1, <1>2, <1>4, <2>3
      <3>2. a < 0
        BY <1>1, <2>3, <3>1
      <3>3. a * r < 0
        BY <1>1, <2>3, <3>2
      <3> QED BY <1>1, <2>3, <3>3
    <2>4. CASE p > 0 /\ r = 0
      <3>1. 0 < b * p /\ b < c
        BY <1>1, <1>2, <1>4, <2>4
      <3>2. c > 0
        BY <1>1, <2>4, <3>1
      <3>3. c * p > 0
        BY <1>1, <2>4, <3>2
      <3> QED BY <1>1, <2>4, <3>3
    <2> QED BY <1>1, <2>1, <2>2, <2>3, <2>4
  <1> QED BY <1>1, <1>3, <1>4

\* Not below is transitive too, where no NaN is between.
LEMMA NotLessTransitive ==
  ASSUME NEW x, NEW y, NEW z, IsRatio(x), IsRatio(y), IsRatio(z),
         Less(x, y), ~Less(x, z)
  PROVE  ~Less(y, z)
  BY LessTransitive

LEMMA LessIrreflexive ==
  ASSUME NEW x, IsRatio(x)
  PROVE  ~Less(x, x)
  BY DEF Less, IsRatio

LEMMA RatioIs ==
  ASSUME NEW n \in Int, NEW d \in Int
  PROVE  IsRatio(Ratio(n, d)) /\ (d > 0 => Ratio(n, d) = [n |-> n, d |-> d])
  BY DEF Ratio, Sign, IsRatio

(***************************************************************************)
(* What is read of Results.Raw.                                            *)
(***************************************************************************)

\* The places of the reports of w.
Of(w) == {j \in 1 .. Len(raw) : raw[j].Id = w}

\* How a report goes with an earlier one of its worker.
Follows(e, f) == /\ Torn(e) \/ f.Kops <= e.Kops
                 /\ e.Cputime = 0 \/ (f.Cputime > 0 /\ f.Cputime <= e.Cputime)

\* The entry of the map data for a worker whose reports were f up to e.
DataOf(f, e) == [startTime |-> f.Now, startCputime |-> f.Cputime,
                 lastTime |-> e.Now, lastKops |-> e.Kops, lastCputime |-> e.Cputime]

\* The reports of w in Results.Raw, in WorkerSummary.Raw and in the map data.
ReadOf(w) ==
  LET mine == rawOf[w] IN
  /\ mine = <<>> => Of(w) = {} /\ data[w] = NoData
  /\ mine # <<>> =>
       /\ \E j \in Of(w) : raw[j] = Last(w) /\ \A i \in Of(w) : j >= i
       /\ data[w] = DataOf(mine[1], Last(w))
       /\ mine[1].Kops = 0
       /\ \A k \in 1 .. Len(mine) - 1 : ~Torn(mine[k])

Read ==
  /\ raw \in Seq(Report) /\ rawOf \in [Worker -> Seq(Report)] /\ data \in [Worker -> Data]
  /\ \A w \in Worker : ReadOf(w)
  /\ \A i \in 1 .. Len(raw) :
       /\ \A j \in Earlier(i) : Follows(raw[i], raw[j])
       /\ Earlier(i) # {} => /\ Previous(i) \in Earlier(i)
                             /\ \A j \in Earlier(i) : Previous(i) >= j

LEMMA MaxIs ==
  ASSUME NEW S \in SUBSET Int, NEW j \in S, \A i \in S : j >= i
  PROVE  Max(S) = j
  <1>1. Max(S) \in S /\ \A i \in S : Max(S) >= i
    <2>1. \E x \in S : \A y \in S : x >= y
      OBVIOUS
    <2> QED BY <2>1 DEF Max
  <1>2. \A x \in S : x \in Int
    OBVIOUS
  <1>3. PICK m : m = Max(S)
    OBVIOUS
  <1>4. m \in Int /\ j \in Int /\ m >= j /\ j >= m
    BY <1>1, <1>2, <1>3
  <1> QED BY <1>3, <1>4

\* The report that a Fold reads.
Reads(w, e) ==
  /\ e \in Possible(w)
  /\ raw' = Append(raw, e) /\ rawOf' = [rawOf EXCEPT ![w] = Append(@, e)]
  /\ FirstOfWorker(e) \/ NextOfWorker(e)

LEMMA PossibleIs ==
  ASSUME Read, NEW w \in Worker, NEW e \in Possible(w)
  PROVE  /\ e \in Report /\ e.Id = w
         /\ rawOf[w] = <<>> => e.Kops = 0
         /\ rawOf[w] # <<>> => ~Torn(Last(w)) /\ Follows(e, Last(w))
  <1>1. PICK f \in (IF rawOf[w] = <<>> THEN First(w)
                    ELSE IF Torn(Last(w)) THEN {} ELSE Later(w, Last(w))),
             torn \in BOOLEAN, gone \in BOOLEAN : e = AsReported(f, torn, gone)
    BY DEF Possible
  <1>2. CASE rawOf[w] = <<>>
    <2>1. PICK start \in Starts :
            f = [Id |-> w, Now |-> start.Now, Kops |-> 0, Cputime |-> start.Cputime]
      BY <1>1, <1>2 DEF First
    <2>2. start.Now \in Nat /\ start.Cputime \in Nat
      BY SummaryAssumption
    <2>3. f.Id = w /\ f.Now \in Nat /\ f.Kops = 0 /\ f.Cputime \in Nat
      BY <2>1, <2>2
    <2> QED BY <1>1, <1>2, <2>3 DEF AsReported, Report
  <1>3. CASE rawOf[w] # <<>>
    <2> DEFINE last == Last(w)
    <2>1. last \in Report
      <3>1. rawOf[w] \in Seq(Report)
        BY DEF Read
      <3> QED BY <1>3, <3>1, EmptySeq, LenProperties DEF Last
    <2>2. ~Torn(last) /\ f \in Later(w, last)
      BY <1>1, <1>3
    <2> HIDE DEF last
    <2>3. PICK step \in Steps :
            f = [Id |-> w, Now |-> last.Now + step.Now, Kops |-> last.Kops + step.Kops,
                 Cputime |-> IF last.Cputime = 0 THEN 0 ELSE last.Cputime + step.Cputime]
      BY <2>2 DEF Later
    <2>4. f.Now > 0
      BY <2>2 DEF Later
    <2>5. step.Now \in Int /\ step.Kops \in Nat /\ step.Cputime \in Nat
      BY SummaryAssumption
    <2>6. last.Now \in Nat /\ last.Kops \in Nat /\ last.Cputime \in Nat
      BY <2>1 DEF Report
    <2>7. /\ f.Id = w /\ f.Now \in Nat /\ f.Kops \in Nat /\ f.Cputime \in Nat
          /\ last.Kops <= f.Kops
          /\ f.Cputime = 0 \/ (last.Cputime > 0 /\ last.Cputime <= f.Cputime)
      BY <2>3, <2>4, <2>5, <2>6
    <2>8. /\ e.Id = f.Id
          /\ e.Now = IF torn THEN 0 ELSE f.Now
          /\ e.Kops = IF torn THEN 0 ELSE f.Kops
          /\ e.Cputime = IF gone THEN 0 ELSE f.Cputime
          /\ e = [Id |-> e.Id, Now |-> e.Now, Kops |-> e.Kops, Cputime |-> e.Cputime]
      BY <1>1 DEF AsReported
    <2>9. e \in Report
      BY <2>7, <2>8 DEF Report
    <2>10. Follows(e, last)
      <3>1. CASE torn
        BY <3>1, <2>7, <2>8 DEF Follows, Torn
      <3>2. CASE ~torn
        BY <3>2, <2>7, <2>8 DEF Follows, Torn
      <3> QED BY <3>1, <3>2
    <2> QED BY <1>3, <2>2, <2>7, <2>8, <2>9, <2>10 DEF last
  <1> QED BY <1>2, <1>3

\* What a report at the end of Results.Raw changes, and what not.
LEMMA AppendIs ==
  ASSUME raw \in Seq(Report), NEW e \in Report, raw' = Append(raw, e),
         NEW n, n = Len(raw) + 1
  PROVE  /\ raw' \in Seq(Report) /\ n \in Nat /\ Len(raw') = n /\ raw'[n] = e
         /\ \A i \in 1 .. n - 1 : raw'[i] = raw[i] /\ Earlier(i)' = Earlier(i)
                                  /\ Previous(i)' = Previous(i)
         /\ Earlier(n)' = Of(e.Id) /\ Previous(n)' = Max(Of(e.Id))
         /\ Of(e.Id)' = Of(e.Id) \cup {n}
         /\ \A v : v # e.Id => Of(v)' = Of(v)
         /\ n \notin Of(e.Id)
         /\ 1 .. n - 1 = 1 .. Len(raw) /\ 1 .. Len(raw') = 1 .. Len(raw) \cup {n}
  <1>1. /\ raw' \in Seq(Report) /\ n \in Nat /\ Len(raw') = n /\ raw'[n] = e
        /\ \A i \in 1 .. n - 1 : raw'[i] = raw[i]
        /\ n - 1 = Len(raw)
    BY AppendProperties
  <1>2. \A i \in 1 .. n - 1 : Earlier(i)' = Earlier(i)
    BY <1>1 DEF Earlier
  <1>3. Earlier(n)' = Of(e.Id)
    BY <1>1 DEF Earlier, Of
  <1>4. (\A i \in 1 .. n - 1 : Previous(i)' = Previous(i)) /\ Previous(n)' = Max(Of(e.Id))
    <2>1. \A i : Previous(i)' = Max(Earlier(i)') /\ Previous(i) = Max(Earlier(i))
      BY DEF Previous
    <2> QED BY <1>2, <1>3, <2>1
  <1>5. Of(e.Id)' = Of(e.Id) \cup {n} /\ n \notin Of(e.Id)
    BY <1>1 DEF Of
  <1>6. \A v : v # e.Id => Of(v)' = Of(v)
    BY <1>1 DEF Of
  <1>7. 1 .. n - 1 = 1 .. Len(raw) /\ 1 .. Len(raw') = 1 .. Len(raw) \cup {n}
    BY <1>1
  <1> QED BY <1>1, <1>2, <1>3, <1>4, <1>5, <1>6, <1>7

\* Which branch is taken: startTime is 0 if there was no report, and if the first
\* was torn, but then it was the last.
LEMMA FirstOrNext ==
  ASSUME Read, NEW w \in Worker, NEW e, Reads(w, e)
  PROVE  /\ rawOf[w] = <<>> => FirstOfWorker(e)
         /\ rawOf[w] # <<>> => NextOfWorker(e)
  <1>1. e.Id = w /\ (rawOf[w] # <<>> => ~Torn(Last(w)))
    BY PossibleIs DEF Reads
  <1>2. FirstOfWorker(e) => data[w].startTime = 0
    BY <1>1 DEF FirstOfWorker
  <1>3. NextOfWorker(e) => data[w].startTime # 0
    BY <1>1 DEF NextOfWorker
  <1>4. CASE rawOf[w] = <<>>
    <2>1. data[w] = NoData
      BY <1>4 DEF Read, ReadOf
    <2>2. data[w].startTime = 0
      BY <2>1 DEF NoData
    <2> QED BY <1>3, <1>4, <2>2 DEF Reads
  <1>5. CASE rawOf[w] # <<>>
    <2> DEFINE mine == rawOf[w]
    <2>1. /\ data[w] = DataOf(mine[1], Last(w))
          /\ \A k \in 1 .. Len(mine) - 1 : ~Torn(mine[k])
          /\ mine \in Seq(Report)
      BY <1>5 DEF Read, ReadOf
    <2>2. data[w].startTime = mine[1].Now
      BY <2>1 DEF DataOf
    <2>3. Len(mine) \in Nat /\ Len(mine) > 0 /\ Last(w) = mine[Len(mine)]
      BY <1>5, <2>1, EmptySeq, LenProperties DEF Last
    <2> HIDE DEF mine
    <2>4. ~Torn(mine[1])
      <3>1. CASE Len(mine) = 1
        BY <1>1, <1>5, <2>3, <3>1
      <3>2. CASE Len(mine) # 1
        <4>1. 1 \in 1 .. Len(mine) - 1
          BY <2>3, <3>2
        <4> QED BY <2>1, <4>1
      <3> QED BY <3>1, <3>2
    <2>5. data[w].startTime # 0
      BY <2>2, <2>4 DEF Torn
    <2> QED BY <1>2, <1>5, <2>5 DEF Reads
  <1> QED BY <1>4, <1>5

\* data after a report, in both branches.
LEMMA DataIs ==
  ASSUME Read, NEW w \in Worker, NEW e, Reads(w, e)
  PROVE  data' = [data EXCEPT ![w] = DataOf(IF rawOf[w] = <<>> THEN e ELSE rawOf[w][1], e)]
  <1>1. e.Id = w
    BY PossibleIs DEF Reads
  <1>2. CASE rawOf[w] = <<>>
    <2>1. FirstOfWorker(e)
      BY <1>2, FirstOrNext
    <2> QED BY <1>1, <1>2, <2>1 DEF FirstOfWorker, DataOf
  <1>3. CASE rawOf[w] # <<>>
    <2>1. NextOfWorker(e)
      BY <1>3, FirstOrNext
    <2>2. data[w] = DataOf(rawOf[w][1], Last(w))
      BY <1>3 DEF Read, ReadOf
    <2>3. Advanced(data[w], e) = DataOf(rawOf[w][1], e)
      BY <2>2 DEF DataOf, Advanced
    <2>4. data' = [data EXCEPT ![w] = Advanced(data[w], e)]
      BY <1>1, <2>1 DEF NextOfWorker
    <2> QED BY <1>3, <2>3, <2>4
  <1> QED BY <1>2, <1>3

LEMMA ReadStep ==
  ASSUME Read, NEW w \in Worker, NEW e, Reads(w, e)
  PROVE  Read'
  <1>1. /\ e \in Report /\ e.Id = w /\ e \in Possible(w)
        /\ rawOf[w] = <<>> => e.Kops = 0
        /\ rawOf[w] # <<>> => ~Torn(Last(w)) /\ Follows(e, Last(w))
    BY PossibleIs DEF Reads
  <1> DEFINE f == IF rawOf[w] = <<>> THEN e ELSE rawOf[w][1]
  <1>2. data' = [data EXCEPT ![w] = DataOf(f, e)]
    BY DataIs
  <1>3. PICK n : n = Len(raw) + 1
    OBVIOUS
  <1>4. /\ raw' \in Seq(Report) /\ n \in Nat /\ Len(raw') = n /\ raw'[n] = e
        /\ \A i \in 1 .. n - 1 : raw'[i] = raw[i] /\ Earlier(i)' = Earlier(i)
                                 /\ Previous(i)' = Previous(i)
        /\ Earlier(n)' = Of(w) /\ Previous(n)' = Max(Of(w))
        /\ Of(w)' = Of(w) \cup {n}
        /\ \A v : v # w => Of(v)' = Of(v)
        /\ 1 .. n - 1 = 1 .. Len(raw) /\ 1 .. Len(raw') = 1 .. Len(raw) \cup {n}
    BY <1>1, <1>3, AppendIs DEF Read, Reads
  <1>5. /\ rawOf \in [Worker -> Seq(Report)] /\ rawOf[w] \in Seq(Report)
        /\ rawOf' = [rawOf EXCEPT ![w] = Append(rawOf[w], e)]
    BY DEF Read, Reads
  <1>6. /\ rawOf'[w] \in Seq(Report) /\ rawOf'[w] = Append(rawOf[w], e)
        /\ Len(rawOf[w]) \in Nat
        /\ Len(rawOf'[w]) = Len(rawOf[w]) + 1 /\ rawOf'[w][Len(rawOf[w]) + 1] = e
        /\ \A k \in 1 .. Len(rawOf[w]) : rawOf'[w][k] = rawOf[w][k]
    BY <1>1, <1>5, AppendProperties, LenProperties
  <1>7. rawOf' \in [Worker -> Seq(Report)]
    BY <1>5, <1>6
  <1>8. f \in Report /\ f = rawOf'[w][1] /\ f.Kops = 0
    <2>1. CASE rawOf[w] = <<>>
      <3>1. Len(rawOf[w]) = 0
        BY <2>1
      <3> QED BY <1>1, <1>6, <2>1, <3>1
    <2>2. CASE rawOf[w] # <<>>
      <3>1. Len(rawOf[w]) >= 1
        BY <1>5, <1>6, <2>2, EmptySeq
      <3>2. 1 \in 1 .. Len(rawOf[w])
        BY <3>1, <1>6
      <3>3. rawOf[w][1] \in Report
        BY <1>5, <3>2, ElementOfSeq
      <3>4. rawOf[w][1].Kops = 0
        BY <2>2 DEF Read, ReadOf
      <3> QED BY <1>6, <2>2, <3>2, <3>3, <3>4
    <2> QED BY <2>1, <2>2
  <1> HIDE DEF f
  <1>9. data' \in [Worker -> Data]
    <2>1. DataOf(f, e) \in Data
      BY <1>1, <1>8 DEF DataOf, Data, Report
    <2> QED BY <1>2, <2>1 DEF Read
  <1>10. ReadOf(w)'
    <2>1. rawOf'[w] # <<>> /\ Last(w)' = e
      BY <1>6 DEF Last
    <2>2. \E j \in Of(w)' : raw'[j] = e /\ \A i \in Of(w)' : j >= i
      <3>1. n \in Of(w)' /\ raw'[n] = e
        BY <1>4
      <3>2. \A i \in Of(w) : i \in 1 .. n - 1
        BY <1>4 DEF Of
      <3>3. \A i \in Of(w)' : n >= i
        BY <1>4, <3>2
      <3> QED BY <3>1, <3>3
    <2>3. data'[w] = DataOf(f, e)
      BY <1>2 DEF Read
    <2>4. \A k \in 1 .. Len(rawOf[w]) : ~Torn(rawOf[w][k])
      <3> SUFFICES ASSUME NEW k \in 1 .. Len(rawOf[w]) PROVE ~Torn(rawOf[w][k])
        OBVIOUS
      <3>1. rawOf[w] # <<>>
        BY <1>6
      <3>2. CASE k = Len(rawOf[w])
        BY <1>1, <3>1, <3>2 DEF Last
      <3>3. CASE k # Len(rawOf[w])
        <4>1. k \in 1 .. Len(rawOf[w]) - 1
          BY <1>6, <3>3
        <4> QED BY <3>1, <4>1 DEF Read, ReadOf
      <3> QED BY <3>2, <3>3
    <2>5. \A k \in 1 .. Len(rawOf'[w]) - 1 : ~Torn(rawOf'[w][k])
      BY <1>6, <2>4
    <2> QED BY <1>8, <2>1, <2>2, <2>3, <2>5 DEF ReadOf
  <1>11. ASSUME NEW v \in Worker, v # w PROVE ReadOf(v)'
    <2>1. rawOf'[v] = rawOf[v] /\ data'[v] = data[v] /\ Of(v)' = Of(v) /\ Last(v)' = Last(v)
      BY <1>2, <1>4, <1>5, <1>11 DEF Read, Last
    <2>2. \A j \in Of(v) : raw'[j] = raw[j]
      BY <1>4 DEF Of
    <2>3. ReadOf(v)
      BY DEF Read
    <2> QED BY <2>1, <2>2, <2>3 DEF ReadOf
  <1>12. ASSUME NEW j \in Of(w) PROVE Follows(e, raw[j])
    <2>1. rawOf[w] # <<>>
      BY DEF Read, ReadOf
    <2>2. ~Torn(Last(w)) /\ Follows(e, Last(w))
      BY <1>1, <2>1
    <2>3. PICK l \in Of(w) : raw[l] = Last(w) /\ \A i \in Of(w) : l >= i
      BY <2>1 DEF Read, ReadOf
    <2>4. CASE j = l
      BY <2>2, <2>3, <2>4
    <2>5. CASE j # l
      <3>1. l \in 1 .. Len(raw) /\ j \in Earlier(l)
        BY <2>3, <2>5 DEF Of, Earlier
      <3>2. Follows(raw[l], raw[j])
        BY <3>1 DEF Read
      <3>3. raw[j] \in Report /\ raw[l] \in Report
        BY ElementOfSeq DEF Read, Of
      <3>4. raw[j].Kops \in Nat /\ raw[l].Kops \in Nat /\ e.Kops \in Nat
            /\ raw[j].Cputime \in Nat /\ raw[l].Cputime \in Nat /\ e.Cputime \in Nat
        BY <1>1, <3>3 DEF Report
      <3> QED BY <2>2, <2>3, <3>2, <3>4 DEF Follows
    <2> QED BY <2>4, <2>5
  <1>13. ASSUME NEW i \in 1 .. Len(raw'), NEW j \in Earlier(i)'
         PROVE  Follows(raw'[i], raw'[j])
    <2>1. CASE i = n
      <3>1. j \in Of(w) /\ j \in 1 .. n - 1
        BY <1>4, <2>1 DEF Of
      <3> QED BY <1>4, <1>12, <2>1, <3>1
    <2>2. CASE i # n
      <3>1. i \in 1 .. n - 1 /\ j \in Earlier(i)
        BY <1>4, <2>2
      <3>2. j \in 1 .. n - 1
        BY <1>4, <3>1 DEF Earlier
      <3> QED BY <1>4, <3>1, <3>2 DEF Read
    <2> QED BY <2>1, <2>2
  <1>14. \A v \in Worker : ReadOf(v)'
    BY <1>10, <1>11
  <1>15. ASSUME NEW i \in 1 .. Len(raw'), Earlier(i)' # {}
         PROVE  /\ Previous(i)' \in Earlier(i)'
                /\ \A j \in Earlier(i)' : Previous(i)' >= j
    <2>1. CASE i = n
      <3>1. rawOf[w] # <<>>
        BY <1>4, <1>15, <2>1 DEF Read, ReadOf
      <3>2. PICK l \in Of(w) : \A j \in Of(w) : l >= j
        BY <3>1 DEF Read, ReadOf
      <3>3. Max(Of(w)) = l
        <4>1. Of(w) \in SUBSET Int
          BY DEF Of
        <4> QED BY <3>2, <4>1, MaxIs
      <3> QED BY <1>4, <2>1, <3>2, <3>3
    <2>2. CASE i # n
      <3>1. i \in 1 .. n - 1
        BY <1>4, <2>2
      <3>2. i \in 1 .. Len(raw) /\ Earlier(i)' = Earlier(i) /\ Previous(i)' = Previous(i)
        BY <1>4, <3>1
      <3>3. Earlier(i) # {}
        BY <1>15, <3>2
      <3>4. Previous(i) \in Earlier(i) /\ \A j \in Earlier(i) : Previous(i) >= j
        BY <3>2, <3>3 DEF Read
      <3> QED BY <3>2, <3>4
    <2> QED BY <2>1, <2>2
  <1> QED BY <1>4, <1>7, <1>9, <1>13, <1>14, <1>15 DEF Read

\* The windows after a report: one more, unless it is its worker's first.
LEMMA WindowsAre ==
  ASSUME Read, NEW w \in Worker, NEW e, Reads(w, e), NEW n, n = Len(raw) + 1
  PROVE  /\ n \in Nat
         /\ \A v \in Worker : v # w => Windows(v)' = Windows(v)
         /\ rawOf[w] = <<>> => Windows(w)' = Windows(w) /\ AllWindows' = AllWindows
         /\ rawOf[w] # <<>> =>
              /\ Windows(w)' = Windows(w) \cup {n} /\ AllWindows' = AllWindows \cup {n}
              /\ \A k \in Kind : Rate(n, k)' = Window(data[w], e)[k]
         /\ AllWindows \subseteq 1 .. n - 1
         /\ \A v \in Worker : Windows(v) \subseteq AllWindows
         /\ \A i \in AllWindows, k \in Kind : Rate(i, k)' = Rate(i, k)
  <1>1. e \in Report /\ e.Id = w /\ raw \in Seq(Report) /\ raw' = Append(raw, e)
    BY PossibleIs DEF Reads, Read
  <1>2. /\ raw' \in Seq(Report) /\ n \in Nat /\ Len(raw') = n /\ raw'[n] = e
        /\ \A i \in 1 .. n - 1 : raw'[i] = raw[i] /\ Earlier(i)' = Earlier(i)
                                 /\ Previous(i)' = Previous(i)
        /\ Earlier(n)' = Of(w) /\ Previous(n)' = Max(Of(w))
        /\ 1 .. n - 1 = 1 .. Len(raw) /\ 1 .. Len(raw') = 1 .. Len(raw) \cup {n}
    BY <1>1, AppendIs
  <1>3. /\ rawOf[w] = <<>> <=> Of(w) = {}
        /\ n \notin 1 .. n - 1
    BY <1>2 DEF Read, ReadOf
  <1>4. \A v \in Worker : v # w => Windows(v)' = Windows(v)
    BY <1>1, <1>2 DEF Windows
  <1>5. rawOf[w] = <<>> => Windows(w)' = Windows(w)
    BY <1>1, <1>2, <1>3 DEF Windows
  <1>6. rawOf[w] # <<>> => Windows(w)' = Windows(w) \cup {n}
    BY <1>1, <1>2, <1>3 DEF Windows
  <1>7. rawOf[w] = <<>> => AllWindows' = AllWindows
    BY <1>4, <1>5 DEF AllWindows
  <1>8. rawOf[w] # <<>> => AllWindows' = AllWindows \cup {n}
    BY <1>4, <1>6 DEF AllWindows
  <1>9. AllWindows \subseteq 1 .. n - 1 /\ \A v \in Worker : Windows(v) \subseteq AllWindows
    BY <1>2 DEF AllWindows, Windows
  <1>10. ASSUME NEW i \in AllWindows, NEW k \in Kind PROVE Rate(i, k)' = Rate(i, k)
    <2>1. i \in 1 .. n - 1 /\ Earlier(i) # {}
      BY <1>9 DEF AllWindows, Windows
    <2>2. Previous(i) \in Earlier(i)
      BY <1>2, <2>1 DEF Read
    <2>3. Previous(i) \in 1 .. n - 1
      BY <1>2, <2>1, <2>2 DEF Earlier
    <2>4. raw'[i] = raw[i] /\ Previous(i)' = Previous(i) /\ raw'[Previous(i)] = raw[Previous(i)]
      BY <1>2, <2>1, <2>3
    <2>5. raw'[Previous(i)'] = raw[Previous(i)]
      BY <2>4
    <2> QED BY <2>4, <2>5 DEF Rate, Done
  <1>11. ASSUME rawOf[w] # <<>>, NEW k \in Kind
         PROVE  Rate(n, k)' = Window(data[w], e)[k]
    <2>1. PICK l \in Of(w) : raw[l] = Last(w) /\ \A j \in Of(w) : l >= j
      BY <1>11 DEF Read, ReadOf
    <2>2. Max(Of(w)) = l
      <3>1. Of(w) \in SUBSET Int
        BY DEF Of
      <3> QED BY <2>1, <3>1, MaxIs
    <2>3. Previous(n)' = l /\ raw'[l] = Last(w)
      BY <1>2, <2>1, <2>2 DEF Of
    <2>4. raw'[Previous(n)'] = Last(w)
      BY <2>3
    <2> DEFINE x == Last(w)
    <2>5. /\ data[w].lastTime = x.Now /\ data[w].lastKops = x.Kops
          /\ data[w].lastCputime = x.Cputime
      BY <1>11 DEF Read, ReadOf, DataOf
    <2> HIDE DEF x
    <2>6. Rate(n, k)' = Ratio(Done(e, k) - Done(x, k), e.Now - x.Now)
      BY <1>2, <2>4 DEF Rate, Done, x
    <2>7. Window(data[w], e)[k] = IF k = "Tput" THEN Ratio(e.Kops - x.Kops, e.Now - x.Now)
                                  ELSE Ratio(e.Cputime - x.Cputime, e.Now - x.Now)
      BY <2>5 DEF Window, Rates, Throughput, Utilization
    <2> QED BY <2>6, <2>7 DEF Done
  <1> QED BY <1>2, <1>4, <1>5, <1>6, <1>7, <1>8, <1>9, <1>10, <1>11

(***************************************************************************)
(* Types.                                                                  *)
(***************************************************************************)
LEMMA FloatIs ==
  /\ \A x \in Float : IsRatio(x)
  /\ \A n \in Int, d \in Int : Ratio(n, d) \in Float
  /\ Zero \in Float /\ NoMinMax \in MinMaxs
  /\ \A x \in Float, y \in Float : Plus(x, y) \in Float
  /\ \A x \in Float, c \in Nat : Over(x, c) \in Float
  /\ \A mm \in MinMaxs, x \in Float : Update(mm, x) \in MinMaxs
  <1>1. \A x \in Float : IsRatio(x)
    BY DEF Float, IsRatio
  <1>2. \A n \in Int, d \in Int : Ratio(n, d) \in Float
    BY DEF Float, Ratio, Sign
  <1>3. Zero \in Float /\ NoMinMax \in MinMaxs
    BY DEF Float, Zero, NoMinMax, MinMaxs
  <1>4. ASSUME NEW x \in Float, NEW y \in Float PROVE Plus(x, y) \in Float
    <2> DEFINE a == x.n
               b == y.n
               p == x.d
               q == y.d
    <2>1. a \in Int /\ b \in Int /\ p \in Nat /\ q \in Nat
      BY DEF Float
    <2> HIDE DEF a, b, p, q
    <2>2. a * q + b * p \in Int /\ p * q \in Int
      BY <2>1
    <2>3. p * q >= 0
      BY <2>1
    <2>4. [n |-> a * q + b * p, d |-> p * q] \in Float
      <3> DEFINE u == a * q + b * p
                 v == p * q
      <3>1. u \in Int /\ v \in Nat
        BY <2>2, <2>3
      <3> HIDE DEF u, v
      <3>2. [n |-> u, d |-> v] \in Float
        BY <3>1 DEF Float
      <3> QED BY <3>2 DEF u, v
    <2>5. \A m \in {a, 0} : [n |-> m, d |-> 0] \in Float
      BY <2>1 DEF Float
    <2>6. [n |-> IF a = b THEN a ELSE 0, d |-> 0] \in Float
      BY <2>5
    <2>7. Plus(x, y) = IF p = 0 /\ q = 0 THEN [n |-> IF a = b THEN a ELSE 0, d |-> 0]
                       ELSE IF p = 0 THEN x ELSE IF q = 0 THEN y
                       ELSE [n |-> a * q + b * p, d |-> p * q]
      BY Zenon DEF Plus, a, b, p, q
    <2> DEFINE s == [n |-> a * q + b * p, d |-> p * q]
               z == [n |-> IF a = b THEN a ELSE 0, d |-> 0]
    <2> HIDE DEF s, z
    <2>8. Plus(x, y) = IF p = 0 /\ q = 0 THEN z ELSE IF p = 0 THEN x ELSE IF q = 0 THEN y ELSE s
      BY <2>7 DEF s, z
    <2>9. s \in Float /\ z \in Float
      BY <2>4, <2>6 DEF s, z
    <2> QED BY <2>8, <2>9
  <1>5. ASSUME NEW x \in Float, NEW c \in Nat PROVE Over(x, c) \in Float
    <2> DEFINE n == x.n
               v == x.d * c
    <2>1. n \in Int /\ v \in Int
      BY DEF Float
    <2> HIDE DEF n, v
    <2>2. Ratio(n, v) \in Float
      BY <2>1, <1>2
    <2> QED BY <2>2 DEF Over, n, v
  <1>6. \A mm \in MinMaxs, x \in Float : Update(mm, x) \in MinMaxs
    BY DEF MinMaxs, Update
  <1> QED BY <1>1, <1>2, <1>3, <1>4, <1>5, <1>6

LEMMA WindowIs ==
  ASSUME NEW d \in Data, NEW e \in Report, NEW k \in Kind
  PROVE  Window(d, e)[k] \in Float /\ Averages(d)[k] \in Float
  <1>1. /\ d.lastTime \in Nat /\ d.lastKops \in Nat /\ d.lastCputime \in Nat
        /\ d.startTime \in Nat /\ d.startCputime \in Nat
        /\ e.Now \in Nat /\ e.Kops \in Nat /\ e.Cputime \in Nat
    BY DEF Data, Report
  <1>2. Window(d, e)[k] = IF k = "Tput" THEN Ratio(e.Kops - d.lastKops, e.Now - d.lastTime)
                          ELSE Ratio(e.Cputime - d.lastCputime, e.Now - d.lastTime)
    BY DEF Window, Rates, Throughput, Utilization
  <1>3. Averages(d)[k] = IF k = "Tput" THEN Ratio(d.lastKops - 0, d.lastTime - d.startTime)
                         ELSE Ratio(d.lastCputime - d.startCputime, d.lastTime - d.startTime)
    BY DEF Averages, Throughput, Utilization
  <1>4. /\ e.Kops - d.lastKops \in Int /\ e.Now - d.lastTime \in Int
        /\ e.Cputime - d.lastCputime \in Int /\ d.lastKops - 0 \in Int
        /\ d.lastTime - d.startTime \in Int /\ d.lastCputime - d.startCputime \in Int
    BY <1>1
  <1>5. \A n \in Int, m \in Int : Ratio(n, m) \in Float
    BY FloatIs
  <1> QED BY <1>2, <1>3, <1>4, <1>5

LEMMA InitHolds == Init => TypeOK /\ Read
  <1> SUFFICES ASSUME Init PROVE TypeOK /\ Read
    OBVIOUS
  <1>1. raw = <<>> /\ raw \in Seq(Report) /\ Len(raw) = 0
    BY DEF Init
  <1>2. rawOf \in [Worker -> Seq(Report)] /\ \A w \in Worker : rawOf[w] = <<>>
    BY DEF Init
  <1>3. NoData \in Data
    BY DEF NoData, Data
  <1>4. data \in [Worker -> Data] /\ \A w \in Worker : data[w] = NoData
    BY <1>3 DEF Init
  <1>5. TypeOK
    BY <1>1, <1>2, <1>4, FloatIs DEF Init, TypeOK
  <1>6. \A w \in Worker : Of(w) = {}
    BY <1>1 DEF Of
  <1>7. Read
    BY <1>1, <1>2, <1>4, <1>6 DEF Read, ReadOf
  <1> QED BY <1>5, <1>7

\* Fold in the terms of Reads.
LEMMA FoldReads ==
  ASSUME NEW w \in Worker, Fold(w)
  PROVE  /\ \E e \in Possible(w) : Reads(w, e)
         /\ pc = "fold" /\ UNCHANGED <<pc, toVisit, avg, avgMinMax, total, count, avgAvg>>
  BY DEF Fold, Reads

\* Every other action keeps what has been read.
SameReports == UNCHANGED <<raw, rawOf, data, minMax, setMinMax>>

LEMMA OthersKeepReports ==
  /\ \A w \in Worker : (Average(w) \/ AddAverage(w)) => SameReports
  /\ EndFold \/ EndAverage \/ AverageOfAverages \/ UNCHANGED vars => SameReports
  BY DEF Average, AddAverage, EndFold, EndAverage, AverageOfAverages, vars, SameReports

LEMMA SameRead ==
  ASSUME Read, SameReports
  PROVE  Read'
  <1>1. /\ \A w : Of(w)' = Of(w) /\ Last(w)' = Last(w)
        /\ \A i : Earlier(i)' = Earlier(i)
    BY DEF SameReports, Of, Last, Earlier
  <1>2. \A i : Previous(i)' = Previous(i)
    BY <1>1 DEF Previous
  <1>3. \A w \in Worker : ReadOf(w)'
    <2> SUFFICES ASSUME NEW w \in Worker PROVE ReadOf(w)'
      OBVIOUS
    <2>1. ReadOf(w)
      BY DEF Read
    <2> QED BY <1>1, <2>1 DEF ReadOf, SameReports
  <1> QED BY <1>1, <1>2, <1>3 DEF Read, SameReports

LEMMA FoldTyped ==
  ASSUME TypeOK, Read, Read', NEW w \in Worker, Fold(w)
  PROVE  TypeOK'
  <1>1. PICK e \in Possible(w) : Reads(w, e)
    BY FoldReads
  <1>2. e \in Report /\ e.Id = w
    BY <1>1, PossibleIs
  <1>3. /\ UNCHANGED <<pc, toVisit, avg, avgMinMax, total, count, avgAvg>>
        /\ minMax \in [Kind -> [Worker -> MinMaxs]] /\ setMinMax \in [Kind -> MinMaxs]
        /\ data[w] \in Data
    BY FoldReads DEF TypeOK
  <1>4. /\ minMax' \in [Kind -> [Worker -> MinMaxs]]
        /\ setMinMax' \in [Kind -> MinMaxs]
    <2>1. CASE FirstOfWorker(e)
      BY <1>3, <2>1 DEF FirstOfWorker
    <2>2. CASE NextOfWorker(e)
      <3> DEFINE x(k) == Window(data[w], e)[k]
      <3>1. \A k \in Kind : x(k) \in Float
        BY <1>2, <1>3, WindowIs
      <3>2. /\ minMax' = [k \in Kind |-> [minMax[k] EXCEPT ![w] = Update(@, x(k))]]
            /\ setMinMax' = [k \in Kind |-> Update(setMinMax[k], x(k))]
        BY <1>2, <2>2 DEF NextOfWorker
      <3> HIDE DEF x
      <3>3. /\ \A k \in Kind : Update(setMinMax[k], x(k)) \in MinMaxs
            /\ \A k \in Kind : Update(minMax[k][w], x(k)) \in MinMaxs
        BY <1>3, <3>1, FloatIs
      <3> QED BY <1>3, <3>2, <3>3
    <2> QED BY <1>1, <2>1, <2>2 DEF Reads
  <1> QED BY <1>3, <1>4 DEF TypeOK, Read

LEMMA OthersTyped ==
  ASSUME TypeOK, Read, Read', [Next]_vars, ~ \E w \in Worker : Fold(w)
  PROVE  TypeOK' /\ SameReports
  <1>1. ASSUME NEW w \in Worker, Average(w) PROVE TypeOK'
    <2>1. data[w] \in Data /\ w \in Worker
      BY DEF TypeOK
    <2> DEFINE x(k) == Averages(data[w])[k]
    <2>2. \A k \in Kind : x(k) \in Float
      <3>1. Report # {}
        <4>1. [Id |-> w, Now |-> 0, Kops |-> 0, Cputime |-> 0] \in Report
          BY DEF Report
        <4> QED BY <4>1
      <3> QED BY <2>1, <3>1, WindowIs
    <2>3. /\ avg' = [k \in Kind |-> [avg[k] EXCEPT ![w] = x(k)]]
          /\ avgMinMax' = [k \in Kind |-> Update(avgMinMax[k], x(k))]
      BY <1>1 DEF Average
    <2> HIDE DEF x
    <2>4. avg' \in [Kind -> [Worker -> Float]]
      BY <2>2, <2>3 DEF TypeOK
    <2>5. avgMinMax' \in [Kind -> MinMaxs]
      BY <2>2, <2>3, FloatIs DEF TypeOK
    <2> QED BY <1>1, <2>4, <2>5 DEF Average, TypeOK
  <1>2. ASSUME NEW w \in Worker, AddAverage(w) PROVE TypeOK'
    <2>1. total' = [k \in Kind |-> Plus(total[k], avg[k][w])]
      BY <1>2 DEF AddAverage
    <2>2. \A k \in Kind : total[k] \in Float /\ avg[k][w] \in Float
      BY DEF TypeOK
    <2>3. total' \in [Kind -> Float]
      BY <2>1, <2>2, FloatIs
    <2> QED BY <1>2, <2>3 DEF AddAverage, TypeOK
  <1>3. ASSUME EndFold PROVE TypeOK'
    <2>1. toVisit' \subseteq Worker /\ pc' = "average"
      BY <1>3 DEF EndFold, InData
    <2>2. UNCHANGED <<raw, rawOf, data, minMax, setMinMax, avg, avgMinMax, total, count, avgAvg>>
      BY <1>3 DEF EndFold
    <2> QED BY <2>1, <2>2 DEF TypeOK
  <1>4. ASSUME EndAverage PROVE TypeOK'
    <2>1. toVisit' \subseteq Worker /\ pc' = "total"
      BY <1>4 DEF EndAverage, Counted
    <2>2. UNCHANGED <<raw, rawOf, data, minMax, setMinMax, avg, avgMinMax, total, count, avgAvg>>
      BY <1>4 DEF EndAverage
    <2> QED BY <2>1, <2>2 DEF TypeOK
  <1>5. ASSUME AverageOfAverages PROVE TypeOK'
    <2>1. \A k \in Kind : Over(total[k], count) \in Float
      BY FloatIs DEF TypeOK
    <2>2. avgAvg' \in [Kind -> Float]
      BY <1>5, <2>1 DEF AverageOfAverages
    <2>3. UNCHANGED <<raw, rawOf, data, minMax, setMinMax, toVisit, avg, avgMinMax, total, count>>
      BY <1>5 DEF AverageOfAverages
    <2>4. pc' = "done"
      BY <1>5 DEF AverageOfAverages
    <2> QED BY <2>2, <2>3, <2>4 DEF TypeOK
  <1>6. ASSUME UNCHANGED vars PROVE TypeOK'
    BY <1>6, Zenon DEF vars, TypeOK
  <1> QED BY <1>1, <1>2, <1>3, <1>4, <1>5, <1>6, OthersKeepReports DEF Next

LEMMA StepRead ==
  ASSUME Read, [Next]_vars
  PROVE  Read'
  <1>1. ASSUME NEW w \in Worker, Fold(w) PROVE Read'
    <2>1. PICK e \in Possible(w) : Reads(w, e)
      BY <1>1, FoldReads
    <2> QED BY <2>1, ReadStep
  <1>2. CASE SameReports
    BY <1>2, SameRead
  <1> QED BY <1>1, <1>2, OthersKeepReports DEF Next

LEMMA StepTyped ==
  ASSUME TypeOK, Read, [Next]_vars
  PROVE  TypeOK' /\ Read'
  <1>1. Read'
    BY StepRead
  <1> QED BY <1>1, FoldTyped, OthersTyped

\* Every variable keeps its type; no counter of a report or of data becomes
\* negative, though the clock of a report may step back.
THEOREM TypeCorrect == Spec => []TypeOK
  <1>1. TypeOK /\ Read /\ [Next]_vars => TypeOK' /\ Read'
    BY StepTyped
  <1> QED BY <1>1, InitHolds, PTL DEF Spec

LEMMA ReadHolds == Spec => [](TypeOK /\ Read)
  <1>1. TypeOK /\ Read /\ [Next]_vars => TypeOK' /\ Read'
    BY StepTyped
  <1> QED BY <1>1, InitHolds, PTL DEF Spec

(***************************************************************************)
(* The extremes.  Of the windows of a worker, or of the set, only the      *)
(* values matter, and for Min those since the last idle one.               *)
(***************************************************************************)
LargestIn(m, V)  == (\A v \in V : ~Less(m, v)) /\ (m = Zero \/ m \in V)
SmallestIn(m, V) == IF V = {} THEN IsZero(m) ELSE m \in V /\ \A v \in V : ~Less(v, m)

Positive(v) == v.n \in Int /\ v.d \in Int /\ v.n > 0 /\ v.d > 0
Usual(v)    == v.n \in Int /\ v.d \in Int /\ v.n >= 0 /\ v.d > 0

LEMMA MaxUpdated ==
  ASSUME NEW V, \A v \in V : IsRatio(v), NEW m, LargestIn(m, V), NEW y, IsRatio(y)
  PROVE  LargestIn(IF Less(m, y) THEN y ELSE m, V \cup {y})
  <1>1. IsRatio(m)
    BY DEF LargestIn, Zero, IsRatio
  <1>2. CASE Less(m, y)
    <2>1. \A v \in V : ~Less(y, v)
      BY <1>1, <1>2, NotLessTransitive DEF LargestIn
    <2>2. ~Less(y, y)
      BY LessIrreflexive
    <2> QED BY <1>2, <2>1, <2>2 DEF LargestIn
  <1>3. CASE ~Less(m, y)
    BY <1>3 DEF LargestIn
  <1> QED BY <1>2, <1>3

LEMMA MinUpdated ==
  ASSUME NEW V, \A v \in V : Positive(v), NEW m, SmallestIn(m, V), NEW y, Usual(y)
  PROVE  SmallestIn(IF Less(y, m) \/ IsZero(m) THEN y ELSE m,
                    IF IsZero(y) THEN {} ELSE V \cup {y})
  <1> DEFINE z == IF Less(y, m) \/ IsZero(m) THEN y ELSE m
  <1>1. IsRatio(y) /\ \A v \in V : IsRatio(v) /\ ~IsZero(v)
    BY DEF Positive, Usual, IsRatio, IsZero
  <1>2. CASE IsZero(y)
    <2>1. V # {} => Less(y, m)
      <3> SUFFICES ASSUME Positive(m) PROVE Less(y, m)
        BY DEF SmallestIn
      <3>1. y.n = 0 /\ y.d > 0 /\ y.d \in Int
        BY <1>2 DEF IsZero, Usual
      <3>2. m.n * y.d > 0
        BY <3>1 DEF Positive
      <3>3. 0 * m.d = 0
        BY DEF Positive
      <3> QED BY <3>1, <3>2, <3>3 DEF Less, IsNaN, Positive
    <2>2. V = {} => IsZero(m)
      BY DEF SmallestIn
    <2>3. z = y
      BY <2>1, <2>2
    <2> QED BY <1>2, <2>3 DEF SmallestIn
  <1>3. CASE ~IsZero(y)
    <2>1. CASE V = {}
      <3>1. IsZero(m) /\ z = y
        BY <2>1 DEF SmallestIn
      <3> QED BY <1>1, <1>3, <2>1, <3>1, LessIrreflexive DEF SmallestIn
    <2>2. CASE V # {}
      <3>1. m \in V /\ (\A v \in V : ~Less(v, m)) /\ ~IsZero(m) /\ IsRatio(m)
        BY <1>1, <2>2 DEF SmallestIn
      <3>2. CASE Less(y, m)
        <4>1. ASSUME NEW v \in V, Less(v, y) PROVE FALSE
          BY <1>1, <3>1, <3>2, <4>1, LessTransitive
        <4>2. z = y
          BY <3>2
        <4> QED BY <1>1, <1>3, <4>1, <4>2, LessIrreflexive DEF SmallestIn
      <3>3. CASE ~Less(y, m)
        <4>1. z = m
          BY <3>1, <3>3
        <4> QED BY <1>3, <3>1, <3>3, <4>1 DEF SmallestIn
      <3> QED BY <3>2, <3>3
    <2> QED BY <2>1, <2>2
  <1> QED BY <1>2, <1>3

\* The rates of the windows I, and those of them that come after the idle ones,
\* which are all that Update remembers of the minimum.
RatesOf(k, I)   == {Rate(i, k) : i \in I}
SinceIdle(k, I) == {i \in I : \A j \in I : IsZero(Rate(j, k)) => j < i}

MinMaxRead ==
  \A k \in Kind :
    /\ \A w \in Worker :
         /\ LargestIn(minMax[k][w].Max, RatesOf(k, Windows(w)))
         /\ Regular(w) => SmallestIn(minMax[k][w].Min, RatesOf(k, SinceIdle(k, Windows(w))))
    /\ LargestIn(setMinMax[k].Max, RatesOf(k, AllWindows))
    /\ (\A w \in Worker : Regular(w)) =>
         SmallestIn(setMinMax[k].Min, RatesOf(k, SinceIdle(k, AllWindows)))

LEMMA MinMaxIs == MinMaxRead => MinMaxOfWindows
  <1>1. \A x, k, I : LargestIn(x, RatesOf(k, I)) => IsLargest(x, k, I)
    BY DEF LargestIn, RatesOf, IsLargest
  <1>2. ASSUME NEW x, NEW k, NEW I, NoneIdle(k, I),
               SmallestIn(x, RatesOf(k, SinceIdle(k, I)))
        PROVE  IsSmallest(x, k, I)
    <2>1. SinceIdle(k, I) = I
      BY <1>2 DEF SinceIdle, NoneIdle
    <2>2. RatesOf(k, I) = {} <=> I = {}
      BY DEF RatesOf
    <2> QED BY <1>2, <2>1, <2>2 DEF SmallestIn, RatesOf, IsSmallest
  <1> QED BY <1>1, <1>2 DEF MinMaxRead, MinMaxOfWindows

\* What the rate of a window is.
LEMMA RateIs ==
  ASSUME Read, NEW w \in Worker, NEW i \in Windows(w), NEW k \in Kind
  PROVE  IsRatio(Rate(i, k)) /\ (Regular(w) => Usual(Rate(i, k)))
  <1>1. i \in 1 .. Len(raw) /\ raw[i].Id = w /\ Earlier(i) # {}
    BY DEF Windows
  <1>2. PICK j \in Earlier(i) : j = Previous(i)
    BY <1>1 DEF Read
  <1>3. j \in 1 .. Len(raw)
    BY <1>1, <1>2 DEF Earlier, Read
  <1> DEFINE e == raw[i]
             f == raw[j]
  <1>4. e \in Report /\ f \in Report
    BY <1>1, <1>3, ElementOfSeq DEF Read
  <1>5. Rate(i, k) = Ratio(Done(e, k) - Done(f, k), e.Now - f.Now)
    BY <1>2 DEF Rate
  <1>6. Follows(e, f)
    BY <1>1 DEF Read
  <1>7. Regular(w) => ~Torn(e) /\ e.Cputime > 0 /\ f.Now < e.Now
    BY <1>1, <1>2 DEF Regular
  <1> HIDE DEF e, f
  <1>8. /\ Done(e, k) \in Nat /\ Done(f, k) \in Nat /\ e.Now \in Nat /\ f.Now \in Nat
        /\ e.Cputime \in Nat
    BY <1>4 DEF Report, Done
  <1> DEFINE n == Done(e, k) - Done(f, k)
             d == e.Now - f.Now
  <1>9. n \in Int /\ d \in Int
    BY <1>8
  <1>10. Regular(w) => n >= 0 /\ d > 0
    <2> SUFFICES ASSUME Regular(w) PROVE n >= 0 /\ d > 0
      OBVIOUS
    <2>1. f.Kops <= e.Kops /\ f.Cputime <= e.Cputime
      BY <1>6, <1>7, <1>8 DEF Follows
    <2>2. Done(f, k) <= Done(e, k)
      BY <2>1 DEF Done
    <2> QED BY <1>7, <1>8, <2>2
  <1> HIDE DEF n, d
  <1>11. IsRatio(Ratio(n, d)) /\ (d > 0 => Ratio(n, d) = [n |-> n, d |-> d])
    BY <1>9, RatioIs
  <1>12. Regular(w) => Usual(Ratio(n, d))
    BY <1>9, <1>10, <1>11 DEF Usual
  <1> QED BY <1>5, <1>11, <1>12 DEF n, d

LEMMA RegularBefore ==
  ASSUME Read, NEW w \in Worker, NEW e, Reads(w, e), NEW v \in Worker, Regular(v)'
  PROVE  Regular(v)
  <1>1. PICK n : n = Len(raw) + 1
    OBVIOUS
  <1>2. e \in Report /\ raw \in Seq(Report) /\ raw' = Append(raw, e)
    BY PossibleIs DEF Read, Reads
  <1>3. /\ \A i \in 1 .. n - 1 : raw'[i] = raw[i] /\ Earlier(i)' = Earlier(i)
        /\ 1 .. n - 1 = 1 .. Len(raw) /\ 1 .. Len(raw') = 1 .. Len(raw) \cup {n}
    BY <1>1, <1>2, AppendIs
  <1>4. \A i \in 1 .. n - 1 : \A j \in Earlier(i) : j \in 1 .. n - 1
    BY <1>2, <1>3 DEF Earlier
  <1> QED BY <1>3, <1>4 DEF Regular

\* The window that a report ends.
LEMMA NewRate ==
  ASSUME Read, NEW w \in Worker, NEW e, Reads(w, e), rawOf[w] # <<>>, NEW k \in Kind
  PROVE  /\ IsRatio(Window(data[w], e)[k])
         /\ Regular(w)' =>
              /\ Usual(Window(data[w], e)[k])
              /\ Window(data[w], e)[k] = [n |-> Done(e, k) - Done(Last(w), k),
                                          d |-> e.Now - Last(w).Now]
              /\ Last(w).Now \in Nat /\ Last(w).Now < e.Now /\ e.Now \in Nat
              /\ Done(Last(w), k) \in Nat /\ Done(e, k) \in Nat
              /\ Done(Last(w), k) <= Done(e, k)
  <1>1. /\ e \in Report /\ e.Id = w /\ Follows(e, Last(w))
        /\ raw \in Seq(Report) /\ raw' = Append(raw, e)
    BY PossibleIs DEF Read, Reads
  <1>2. PICK l \in Of(w) : raw[l] = Last(w)
    BY DEF Read, ReadOf
  <1> DEFINE f == Last(w)
             y == Window(data[w], e)[k]
             m == Done(e, k) - Done(f, k)
             d == e.Now - f.Now
  <1>3. f \in Report
    BY <1>1, <1>2, ElementOfSeq DEF Of
  <1>4. /\ data[w].lastTime = f.Now /\ data[w].lastKops = f.Kops
        /\ data[w].lastCputime = f.Cputime
    BY DEF Read, ReadOf, DataOf
  <1>5. Regular(w)' => ~Torn(e) /\ e.Cputime > 0 /\ f.Now < e.Now
    <2>1. PICK n : n = Len(raw) + 1
      OBVIOUS
    <2>2. /\ Len(raw') = n /\ n \in 1 .. Len(raw') /\ raw'[n] = e /\ Earlier(n)' = Of(w)
          /\ \A i \in 1 .. n - 1 : raw'[i] = raw[i]
          /\ 1 .. n - 1 = 1 .. Len(raw)
      BY <1>1, <2>1, AppendIs
    <2>3. raw'[l] = f /\ l \in Earlier(n)'
      BY <1>2, <2>2 DEF Of
    <2> HIDE DEF f
    <2> QED BY <1>1, <2>2, <2>3 DEF Regular
  <1> HIDE DEF f
  <1>6. /\ e.Now \in Nat /\ e.Kops \in Nat /\ e.Cputime \in Nat
        /\ f.Now \in Nat /\ f.Kops \in Nat /\ f.Cputime \in Nat
        /\ Done(e, k) \in Nat /\ Done(f, k) \in Nat
    BY <1>1, <1>3 DEF Report, Done
  <1>7. y = Ratio(m, d)
    BY <1>4 DEF Window, Rates, Throughput, Utilization, Done
  <1>8. m \in Int /\ d \in Int
    BY <1>6
  <1>9. Regular(w)' => m >= 0 /\ d > 0 /\ Done(f, k) <= Done(e, k)
    <2> SUFFICES ASSUME Regular(w)' PROVE m >= 0 /\ d > 0 /\ Done(f, k) <= Done(e, k)
      OBVIOUS
    <2>1. f.Kops <= e.Kops /\ f.Cputime <= e.Cputime
      BY <1>1, <1>5, <1>6 DEF Follows, f
    <2>2. Done(f, k) <= Done(e, k)
      BY <2>1 DEF Done
    <2> QED BY <1>5, <1>6, <2>2
  <1> HIDE DEF m, d, y
  <1>10. IsRatio(Ratio(m, d)) /\ (d > 0 => Ratio(m, d) = [n |-> m, d |-> d])
    BY <1>8, RatioIs
  <1>11. IsRatio(y) /\ (Regular(w)' => Usual(y) /\ y = [n |-> m, d |-> d])
    BY <1>7, <1>8, <1>9, <1>10 DEF Usual
  <1> QED BY <1>5, <1>6, <1>9, <1>11 DEF m, d, y, f

\* The rates of a set of windows to which nothing, or one more, is added.
KeepsRates(k, I) == \A i \in I : Rate(i, k)' = Rate(i, k)

GrowRates(k, n, I, y) ==
  /\ RatesOf(k, I \cup {n})' = RatesOf(k, I) \cup {y}
  /\ RatesOf(k, SinceIdle(k, I \cup {n}))' =
       IF IsZero(y) THEN {} ELSE RatesOf(k, SinceIdle(k, I)) \cup {y}

LEMMA RatesGrow ==
  ASSUME NEW k \in Kind, NEW n \in Nat, NEW I, I \subseteq 1 .. n - 1,
         KeepsRates(k, I), NEW y, y = Rate(n, k)'
  PROVE  GrowRates(k, n, I, y)
  <1> SUFFICES /\ RatesOf(k, I \cup {n})' = RatesOf(k, I) \cup {y}
               /\ RatesOf(k, SinceIdle(k, I \cup {n}))' =
                    IF IsZero(y) THEN {} ELSE RatesOf(k, SinceIdle(k, I)) \cup {y}
    BY DEF GrowRates
  <1> DEFINE J == I \cup {n}
             S == {x \in J : \A j \in J : IsZero(Rate(j, k)') => j < x}
  <1>0. /\ RatesOf(k, I \cup {n})' = {Rate(i, k)' : i \in J}
        /\ RatesOf(k, SinceIdle(k, I \cup {n}))' = {Rate(i, k)' : i \in S}
        /\ \A i \in I : Rate(i, k)' = Rate(i, k)
        /\ J = I \cup {n}
        /\ \A x : x \in S <=> x \in J /\ \A j \in J : IsZero(Rate(j, k)') => j < x
    BY DEF RatesOf, SinceIdle, KeepsRates
  <1> HIDE DEF J, S
  <1>1. {Rate(i, k)' : i \in J} = RatesOf(k, I) \cup {y}
    BY <1>0 DEF RatesOf
  <1>2. \A i \in I : i \in Int /\ i < n
    OBVIOUS
  <1>3. CASE IsZero(y)
    <2>1. \A x \in J : ~(n < x)
      BY <1>0, <1>2
    <2>2. S = {}
      BY <1>0, <1>3, <2>1
    <2> QED BY <1>0, <1>1, <1>3, <2>2
  <1>4. CASE ~IsZero(y)
    <2>1. S = SinceIdle(k, I) \cup {n}
      BY <1>0, <1>2, <1>4 DEF SinceIdle
    <2>2. \A i \in SinceIdle(k, I) : Rate(i, k)' = Rate(i, k)
      BY <1>0 DEF SinceIdle
    <2>3. {Rate(i, k)' : i \in S} = RatesOf(k, SinceIdle(k, I)) \cup {y}
      BY <2>1, <2>2 DEF RatesOf
    <2> QED BY <1>0, <1>1, <1>4, <2>3
  <1> QED BY <1>3, <1>4

\* The rates before the last one that matter to Min, of a set of regular windows.
LEMMA SincePositive ==
  ASSUME NEW k, NEW I, \A i \in I : Usual(Rate(i, k)), \A i \in I : i \in Int
  PROVE  \A v \in RatesOf(k, SinceIdle(k, I)) : Positive(v)
  <1> SUFFICES ASSUME NEW i \in SinceIdle(k, I) PROVE Positive(Rate(i, k))
    BY DEF RatesOf
  <1>1. i \in I /\ ~(i < i) /\ Usual(Rate(i, k))
    BY DEF SinceIdle
  <1>2. ~IsZero(Rate(i, k))
    BY <1>1 DEF SinceIdle
  <1> QED BY <1>1, <1>2 DEF Positive, Usual, IsZero

LEMMA FoldMinMax ==
  ASSUME TypeOK, Read, Read', MinMaxRead, NEW w \in Worker, Fold(w)
  PROVE  MinMaxRead'
  <1>1. PICK e \in Possible(w) : Reads(w, e)
    BY FoldReads
  <1>2. PICK n : n = Len(raw) + 1
    OBVIOUS
  <1>3. /\ n \in Nat
        /\ \A v \in Worker : v # w => Windows(v)' = Windows(v)
        /\ rawOf[w] = <<>> => Windows(w)' = Windows(w) /\ AllWindows' = AllWindows
        /\ rawOf[w] # <<>> =>
             /\ Windows(w)' = Windows(w) \cup {n} /\ AllWindows' = AllWindows \cup {n}
             /\ \A k \in Kind : Rate(n, k)' = Window(data[w], e)[k]
        /\ AllWindows \subseteq 1 .. n - 1
        /\ \A v \in Worker : Windows(v) \subseteq AllWindows
        /\ \A i \in AllWindows, k \in Kind : Rate(i, k)' = Rate(i, k)
    BY <1>1, <1>2, WindowsAre
  <1>4. e.Id = w
    BY <1>1, PossibleIs
  <1>5. \A v \in Worker : Regular(v)' => Regular(v)
    BY <1>1, RegularBefore
  <1>6. \A k \in Kind, i \in AllWindows : IsRatio(Rate(i, k))
    BY RateIs DEF AllWindows
  <1>7. \A k \in Kind, v \in Worker : Regular(v) => \A i \in Windows(v) : Usual(Rate(i, k))
    BY RateIs
  <1> SUFFICES ASSUME NEW k \in Kind
      PROVE /\ \A v \in Worker :
                 /\ LargestIn(minMax[k][v].Max, RatesOf(k, Windows(v)))'
                 /\ Regular(v)' =>
                      SmallestIn(minMax[k][v].Min, RatesOf(k, SinceIdle(k, Windows(v))))'
            /\ LargestIn(setMinMax[k].Max, RatesOf(k, AllWindows))'
            /\ (\A v \in Worker : Regular(v)') =>
                 SmallestIn(setMinMax[k].Min, RatesOf(k, SinceIdle(k, AllWindows)))'
    BY DEF MinMaxRead
  <1>8. ASSUME NEW v \in Worker, Windows(v)' = Windows(v), minMax'[k][v] = minMax[k][v]
        PROVE  /\ LargestIn(minMax[k][v].Max, RatesOf(k, Windows(v)))'
               /\ Regular(v)' =>
                    SmallestIn(minMax[k][v].Min, RatesOf(k, SinceIdle(k, Windows(v))))'
    <2>1. \A i \in Windows(v) : Rate(i, k)' = Rate(i, k)
      BY <1>3
    <2>2. /\ RatesOf(k, Windows(v))' = RatesOf(k, Windows(v))
          /\ RatesOf(k, SinceIdle(k, Windows(v)))' = RatesOf(k, SinceIdle(k, Windows(v)))
      BY <1>8, <2>1 DEF RatesOf, SinceIdle
    <2> QED BY <1>5, <1>8, <2>2 DEF MinMaxRead, LargestIn, SmallestIn
  <1>9. CASE rawOf[w] = <<>>
    <2>1. minMax' = minMax /\ setMinMax' = setMinMax
      BY <1>1, <1>9, FirstOrNext DEF FirstOfWorker
    <2>2. \A v \in Worker : Windows(v)' = Windows(v)
      BY <1>3, <1>9
    <2>3. /\ RatesOf(k, AllWindows)' = RatesOf(k, AllWindows)
          /\ RatesOf(k, SinceIdle(k, AllWindows))' = RatesOf(k, SinceIdle(k, AllWindows))
      BY <1>3, <1>9 DEF RatesOf, SinceIdle
    <2>4. /\ LargestIn(setMinMax[k].Max, RatesOf(k, AllWindows))'
          /\ (\A v \in Worker : Regular(v)') =>
               SmallestIn(setMinMax[k].Min, RatesOf(k, SinceIdle(k, AllWindows)))'
      BY <1>5, <2>1, <2>3 DEF MinMaxRead, LargestIn, SmallestIn
    <2> QED BY <1>8, <2>1, <2>2, <2>4
  <1>10. CASE rawOf[w] # <<>>
    <2>0. n \in Nat
      BY <1>3
    <2>1. PICK y : y = Window(data[w], e)[k]
      OBVIOUS
    <2>2. y = Rate(n, k)'
      BY <1>3, <1>10, <2>1
    <2>3. /\ minMax'[k] = [minMax[k] EXCEPT ![w] = Update(@, y)]
          /\ setMinMax'[k] = Update(setMinMax[k], y)
      BY <1>1, <1>4, <1>10, <2>1, FirstOrNext DEF NextOfWorker
    <2>4. /\ \A v \in Worker : v # w => minMax'[k][v] = minMax[k][v]
          /\ minMax'[k][w] = Update(minMax[k][w], y)
      BY <2>3 DEF TypeOK
    <2>5. /\ RatesOf(k, Windows(w))' = RatesOf(k, Windows(w)) \cup {y}
          /\ RatesOf(k, SinceIdle(k, Windows(w)))' =
               IF IsZero(y) THEN {} ELSE RatesOf(k, SinceIdle(k, Windows(w))) \cup {y}
      <3>1. /\ Windows(w) \in SUBSET (1 .. n - 1) /\ Windows(w)' = Windows(w) \cup {n}
            /\ \A i \in Windows(w) : Rate(i, k)' = Rate(i, k)
        BY <1>3, <1>10
      <3>2. PICK I : I = Windows(w)
        OBVIOUS
      <3>3. KeepsRates(k, I) /\ I \subseteq 1 .. n - 1
        BY <3>1, <3>2 DEF KeepsRates
      <3>4. GrowRates(k, n, I, y)
        BY <2>0, <2>2, <3>3, RatesGrow
      <3>5. /\ RatesOf(k, Windows(w))' = RatesOf(k, I \cup {n})'
            /\ RatesOf(k, SinceIdle(k, Windows(w)))' = RatesOf(k, SinceIdle(k, I \cup {n}))'
        BY <3>1, <3>2 DEF RatesOf, SinceIdle
      <3> QED BY <3>2, <3>4, <3>5 DEF GrowRates
    <2>6. /\ RatesOf(k, AllWindows)' = RatesOf(k, AllWindows) \cup {y}
          /\ RatesOf(k, SinceIdle(k, AllWindows))' =
               IF IsZero(y) THEN {} ELSE RatesOf(k, SinceIdle(k, AllWindows)) \cup {y}
      <3>1. /\ AllWindows \in SUBSET (1 .. n - 1) /\ AllWindows' = AllWindows \cup {n}
            /\ \A i \in AllWindows : Rate(i, k)' = Rate(i, k)
        BY <1>3, <1>10
      <3>2. PICK I : I = AllWindows
        OBVIOUS
      <3>3. KeepsRates(k, I) /\ I \subseteq 1 .. n - 1
        BY <3>1, <3>2 DEF KeepsRates
      <3>4. GrowRates(k, n, I, y)
        BY <2>0, <2>2, <3>3, RatesGrow
      <3>5. /\ RatesOf(k, AllWindows)' = RatesOf(k, I \cup {n})'
            /\ RatesOf(k, SinceIdle(k, AllWindows))' = RatesOf(k, SinceIdle(k, I \cup {n}))'
        BY <3>1, <3>2 DEF RatesOf, SinceIdle
      <3> QED BY <3>2, <3>4, <3>5 DEF GrowRates
    <2>7. IsRatio(y) /\ (Regular(w)' => Usual(y))
      BY <1>1, <1>10, <2>1, NewRate
    <2>8. \A mm : /\ Update(mm, y).Max = IF Less(mm.Max, y) THEN y ELSE mm.Max
                  /\ Update(mm, y).Min = IF Less(y, mm.Min) \/ IsZero(mm.Min) THEN y ELSE mm.Min
      BY DEF Update
    <2>9. /\ \A v \in RatesOf(k, AllWindows) : IsRatio(v)
          /\ \A v \in RatesOf(k, Windows(w)) : IsRatio(v)
      BY <1>3, <1>6 DEF RatesOf
    <2>10. /\ LargestIn(minMax[k][w].Max, RatesOf(k, Windows(w)))'
           /\ LargestIn(setMinMax[k].Max, RatesOf(k, AllWindows))'
      <3>1. /\ LargestIn(minMax'[k][w].Max, RatesOf(k, Windows(w)) \cup {y})
            /\ LargestIn(setMinMax'[k].Max, RatesOf(k, AllWindows) \cup {y})
        <4>1. /\ LargestIn(minMax[k][w].Max, RatesOf(k, Windows(w)))
              /\ LargestIn(setMinMax[k].Max, RatesOf(k, AllWindows))
          BY DEF MinMaxRead
        <4>2. /\ minMax'[k][w].Max = IF Less(minMax[k][w].Max, y) THEN y ELSE minMax[k][w].Max
              /\ setMinMax'[k].Max = IF Less(setMinMax[k].Max, y) THEN y ELSE setMinMax[k].Max
          BY <2>3, <2>4, <2>8
        <4>3. /\ LargestIn(IF Less(minMax[k][w].Max, y) THEN y ELSE minMax[k][w].Max,
                           RatesOf(k, Windows(w)) \cup {y})
              /\ LargestIn(IF Less(setMinMax[k].Max, y) THEN y ELSE setMinMax[k].Max,
                           RatesOf(k, AllWindows) \cup {y})
          BY <2>7, <2>9, <4>1, MaxUpdated
        <4> QED BY <4>2, <4>3
      <3> QED BY <2>5, <2>6, <3>1 DEF LargestIn
    <2>11. Regular(w)' => SmallestIn(minMax[k][w].Min, RatesOf(k, SinceIdle(k, Windows(w))))'
      <3> SUFFICES ASSUME Regular(w)'
                   PROVE SmallestIn(minMax[k][w].Min, RatesOf(k, SinceIdle(k, Windows(w))))'
        OBVIOUS
      <3>1. Regular(w) /\ Usual(y)
        BY <1>5, <2>7
      <3> DEFINE V == RatesOf(k, SinceIdle(k, Windows(w)))
      <3>2. \A v \in V : Positive(v)
        <4>1. \A i \in Windows(w) : Usual(Rate(i, k)) /\ i \in Int
          <5>1. Windows(w) \subseteq 1 .. n - 1
            BY <1>3
          <5>2. \A i \in 1 .. n - 1 : i \in Int
            OBVIOUS
          <5> QED BY <1>7, <3>1, <5>1, <5>2
        <4> QED BY <4>1, SincePositive
      <3>3. SmallestIn(minMax[k][w].Min, V)
        BY <3>1 DEF MinMaxRead
      <3> HIDE DEF V
      <3>4. SmallestIn(minMax'[k][w].Min, IF IsZero(y) THEN {} ELSE V \cup {y})
        BY <2>4, <2>8, <3>1, <3>2, <3>3, MinUpdated
      <3> QED BY <2>5, <3>4 DEF SmallestIn, V
    <2>12. (\A v \in Worker : Regular(v)') =>
             SmallestIn(setMinMax[k].Min, RatesOf(k, SinceIdle(k, AllWindows)))'
      <3> SUFFICES ASSUME \A v \in Worker : Regular(v)'
                   PROVE SmallestIn(setMinMax[k].Min, RatesOf(k, SinceIdle(k, AllWindows)))'
        OBVIOUS
      <3>1. (\A v \in Worker : Regular(v)) /\ Usual(y)
        BY <1>5, <2>7
      <3> DEFINE V == RatesOf(k, SinceIdle(k, AllWindows))
      <3>2. \A v \in V : Positive(v)
        <4>1. \A i \in AllWindows : Usual(Rate(i, k)) /\ i \in Int
          BY <1>3, <1>7, <3>1 DEF AllWindows
        <4> QED BY <4>1, SincePositive
      <3>3. SmallestIn(setMinMax[k].Min, V)
        BY <3>1 DEF MinMaxRead
      <3> HIDE DEF V
      <3>4. SmallestIn(setMinMax'[k].Min, IF IsZero(y) THEN {} ELSE V \cup {y})
        <4>1. setMinMax'[k].Min =
                IF Less(y, setMinMax[k].Min) \/ IsZero(setMinMax[k].Min) THEN y
                ELSE setMinMax[k].Min
          BY <2>3, <2>8
        <4>2. SmallestIn(IF Less(y, setMinMax[k].Min) \/ IsZero(setMinMax[k].Min) THEN y
                         ELSE setMinMax[k].Min, IF IsZero(y) THEN {} ELSE V \cup {y})
          BY <3>1, <3>2, <3>3, MinUpdated
        <4> QED BY <4>1, <4>2
      <3> QED BY <2>6, <3>4 DEF SmallestIn, V
    <2>13. \A v \in Worker : v # w => Windows(v)' = Windows(v)
      BY <1>3
    <2> QED BY <1>8, <2>4, <2>10, <2>11, <2>12, <2>13
  <1> QED BY <1>9, <1>10

LEMMA SameWindows ==
  ASSUME SameReports
  PROVE  /\ \A w : Windows(w)' = Windows(w) /\ (Regular(w)' <=> Regular(w))
         /\ AllWindows' = AllWindows
         /\ \A i, k : Rate(i, k)' = Rate(i, k)
         /\ \A k, I : RatesOf(k, I)' = RatesOf(k, I)
         /\ \A k, I : SinceIdle(k, I)' = SinceIdle(k, I)
  <1>1. \A i : Earlier(i)' = Earlier(i)
    BY DEF SameReports, Earlier
  <1>2. \A i : Previous(i)' = Previous(i)
    BY <1>1 DEF Previous
  <1>3. \A w : Windows(w)' = Windows(w)
    BY <1>1 DEF SameReports, Windows
  <1>4. \A w : Regular(w)' <=> Regular(w)
    BY <1>1 DEF SameReports, Regular
  <1>5. \A i, k : Rate(i, k)' = Rate(i, k)
    BY <1>2 DEF SameReports, Rate, Done
  <1>6. AllWindows' = AllWindows
    BY <1>3 DEF AllWindows
  <1>7. /\ \A k, I : RatesOf(k, I)' = RatesOf(k, I)
        /\ \A k, I : SinceIdle(k, I)' = SinceIdle(k, I)
    BY <1>5 DEF RatesOf, SinceIdle
  <1> QED BY <1>3, <1>4, <1>5, <1>6, <1>7

LEMMA SameMinMax ==
  ASSUME MinMaxRead, SameReports
  PROVE  MinMaxRead'
  <1>1. \A w, k : /\ RatesOf(k, Windows(w))' = RatesOf(k, Windows(w))
                  /\ RatesOf(k, SinceIdle(k, Windows(w)))' = RatesOf(k, SinceIdle(k, Windows(w)))
    BY SameWindows DEF RatesOf, SinceIdle
  <1>2. \A k : /\ RatesOf(k, AllWindows)' = RatesOf(k, AllWindows)
               /\ RatesOf(k, SinceIdle(k, AllWindows))' = RatesOf(k, SinceIdle(k, AllWindows))
    BY SameWindows DEF RatesOf, SinceIdle
  <1>3. minMax' = minMax /\ setMinMax' = setMinMax /\ \A w : Regular(w)' <=> Regular(w)
    BY SameWindows DEF SameReports
  <1>4. \A m, V : /\ LargestIn(m, V)' <=> LargestIn(m, V)
                  /\ SmallestIn(m, V)' <=> SmallestIn(m, V)
    BY DEF LargestIn, SmallestIn
  <1> QED BY <1>1, <1>2, <1>3 DEF MinMaxRead, LargestIn, SmallestIn

LEMMA InitMinMax == Init => MinMaxRead
  <1> SUFFICES ASSUME Init PROVE MinMaxRead
    OBVIOUS
  <1>1. AllWindows = {} /\ \A w : Windows(w) = {}
    BY DEF Init, AllWindows, Windows
  <1>2. \A k : RatesOf(k, {}) = {} /\ SinceIdle(k, {}) = {}
    BY DEF RatesOf, SinceIdle
  <1>3. /\ \A k \in Kind, w \in Worker : minMax[k][w] = NoMinMax
        /\ \A k \in Kind : setMinMax[k] = NoMinMax
    BY DEF Init
  <1>4. /\ NoMinMax.Max = Zero /\ NoMinMax.Min = Zero /\ IsZero(Zero)
    BY DEF NoMinMax, Zero, IsZero
  <1>5. LargestIn(NoMinMax.Max, {}) /\ SmallestIn(NoMinMax.Min, {})
    BY <1>4 DEF LargestIn, SmallestIn
  <1> QED BY <1>1, <1>2, <1>3, <1>5 DEF MinMaxRead

LEMMA StepMinMax ==
  ASSUME TypeOK, Read, MinMaxRead, [Next]_vars
  PROVE  MinMaxRead'
  <1>1. Read'
    BY StepRead
  <1>2. CASE \E w \in Worker : Fold(w)
    BY <1>1, <1>2, FoldMinMax
  <1>3. CASE ~ \E w \in Worker : Fold(w)
    BY <1>1, <1>3, OthersTyped, SameMinMax
  <1> QED BY <1>2, <1>3

\* One worker may have any number of reports, whatever they say, and the reports
\* of different workers come in any order: MinMax.Update makes Max the best
\* window and, if no window is idle, Min the worst.
THEOREM MinMaxCorrect == Spec => []MinMaxOfWindows
  <1>1. TypeOK /\ Read /\ MinMaxRead /\ [Next]_vars => MinMaxRead'
    BY StepMinMax
  <1> QED BY <1>1, InitMinMax, ReadHolds, MinMaxIs, PTL DEF Spec

(***************************************************************************)
(* The reports of one worker, in Results.Raw and in WorkerSummary.Raw.     *)
(***************************************************************************)

\* Report i of Results.Raw is the k-th of worker w.
Pairs(i, w, k) ==
  /\ raw[i] = rawOf[w][k]
  /\ Earlier(i) = {} <=> k = 1
  /\ k # 1 => raw[Previous(i)] = rawOf[w][k - 1]

Paired ==
  \A w \in Worker :
    /\ \A i \in Of(w) : \E k \in 1 .. Len(rawOf[w]) : Pairs(i, w, k)
    /\ \A k \in 1 .. Len(rawOf[w]) : \E i \in Of(w) : Pairs(i, w, k)

\* The reports of a worker after one of its own or of another's.
LEMMA PairsKept ==
  ASSUME Read, NEW w \in Worker, NEW e, Reads(w, e),
         NEW v \in Worker, NEW i \in Of(v), NEW k \in 1 .. Len(rawOf[v]), Pairs(i, v, k)
  PROVE  i \in Of(v)' /\ k \in 1 .. Len(rawOf'[v]) /\ Pairs(i, v, k)'
  <1>1. PICK n : n = Len(raw) + 1
    OBVIOUS
  <1>2. e \in Report /\ e.Id = w /\ raw \in Seq(Report) /\ raw' = Append(raw, e)
        /\ rawOf \in [Worker -> Seq(Report)] /\ rawOf[v] \in Seq(Report)
        /\ rawOf' = [rawOf EXCEPT ![w] = Append(rawOf[w], e)]
    BY PossibleIs DEF Read, Reads
  <1>3. /\ n \in Nat
        /\ \A x \in 1 .. n - 1 : raw'[x] = raw[x] /\ Earlier(x)' = Earlier(x)
                                 /\ Previous(x)' = Previous(x)
        /\ Of(w)' = Of(w) \cup {n}
        /\ \A x : x # w => Of(x)' = Of(x)
        /\ 1 .. n - 1 = 1 .. Len(raw)
    BY <1>1, <1>2, AppendIs
  <1>4. i \in 1 .. n - 1 /\ i \in Of(v)'
    BY <1>3 DEF Of
  <1>5. /\ Len(rawOf[v]) \in Nat /\ k \in Nat /\ k >= 1 /\ k <= Len(rawOf[v])
        /\ \A x \in 1 .. Len(rawOf[v]) : rawOf'[v][x] = rawOf[v][x]
        /\ Len(rawOf'[v]) >= Len(rawOf[v]) /\ Len(rawOf'[v]) \in Nat
    <2>1. Len(rawOf[v]) \in Nat
      BY <1>2, LenProperties
    <2>2. CASE v = w
      <3>1. rawOf'[v] = Append(rawOf[v], e)
        BY <1>2, <2>2
      <3> QED BY <1>2, <2>1, <3>1, AppendProperties
    <2>3. CASE v # w
      <3>1. rawOf'[v] = rawOf[v]
        BY <1>2, <2>3
      <3> QED BY <2>1, <3>1
    <2> QED BY <2>2, <2>3
  <1>6. /\ raw'[i] = raw[i] /\ Earlier(i)' = Earlier(i) /\ Previous(i)' = Previous(i)
        /\ rawOf'[v][k] = rawOf[v][k]
    BY <1>3, <1>4, <1>5
  <1>7. ASSUME k # 1 PROVE raw'[Previous(i)'] = rawOf'[v][k - 1]
    <2>1. Earlier(i) # {} /\ raw[Previous(i)] = rawOf[v][k - 1]
      BY <1>7 DEF Pairs
    <2>2. Previous(i) \in Earlier(i)
      BY <1>3, <1>4, <2>1 DEF Read
    <2>3. Previous(i) \in 1 .. n - 1
      BY <1>3, <1>4, <2>2 DEF Earlier
    <2>4. raw'[Previous(i)] = raw[Previous(i)]
      BY <1>3, <2>3
    <2>5. k - 1 \in 1 .. Len(rawOf[v])
      BY <1>5, <1>7
    <2>6. raw'[Previous(i)'] = raw[Previous(i)]
      BY <1>6, <2>4
    <2> QED BY <1>5, <2>1, <2>5, <2>6
  <1>8. Pairs(i, v, k)'
    BY <1>6, <1>7 DEF Pairs
  <1> QED BY <1>4, <1>5, <1>8

LEMMA FoldPaired ==
  ASSUME Read, Paired, NEW w \in Worker, NEW e, Reads(w, e)
  PROVE  Paired'
  <1>1. PICK n : n = Len(raw) + 1
    OBVIOUS
  <1>2. e \in Report /\ e.Id = w /\ raw \in Seq(Report) /\ raw' = Append(raw, e)
        /\ rawOf \in [Worker -> Seq(Report)] /\ rawOf[w] \in Seq(Report)
        /\ rawOf' = [rawOf EXCEPT ![w] = Append(rawOf[w], e)]
    BY PossibleIs DEF Read, Reads
  <1>3. /\ n \in Nat /\ raw'[n] = e
        /\ \A x \in 1 .. n - 1 : raw'[x] = raw[x]
        /\ Earlier(n)' = Of(w) /\ Previous(n)' = Max(Of(w))
        /\ Of(w)' = Of(w) \cup {n}
        /\ \A x : x # w => Of(x)' = Of(x)
        /\ 1 .. n - 1 = 1 .. Len(raw)
    BY <1>1, <1>2, AppendIs
  <1>4. PICK m : m = Len(rawOf[w]) + 1
    OBVIOUS
  <1>5. /\ m \in Nat /\ m >= 1 /\ Len(rawOf'[w]) = m /\ rawOf'[w][m] = e
        /\ \A x \in 1 .. m - 1 : rawOf'[w][x] = rawOf[w][x]
        /\ 1 .. Len(rawOf'[w]) = 1 .. Len(rawOf[w]) \cup {m}
        /\ rawOf[w] # <<>> => m # 1 /\ Last(w) = rawOf[w][m - 1] /\ m - 1 \in 1 .. m - 1
        /\ rawOf[w] = <<>> => m = 1
    <2>1. rawOf'[w] = Append(rawOf[w], e)
      BY <1>2
    <2>2. Len(rawOf[w]) \in Nat /\ (rawOf[w] # <<>> => Len(rawOf[w]) >= 1)
      BY <1>2, LenProperties, EmptySeq
    <2>3. rawOf[w] = <<>> => Len(rawOf[w]) = 0
      OBVIOUS
    <2>4. m - 1 = Len(rawOf[w])
      BY <1>4, <2>2
    <2> QED BY <1>2, <1>4, <2>1, <2>2, <2>3, <2>4, AppendProperties DEF Last
  <1>6. Pairs(n, w, m)' /\ n \in Of(w)' /\ m \in 1 .. Len(rawOf'[w])
    <2>1. rawOf[w] = <<>> <=> Of(w) = {}
      BY DEF Read, ReadOf
    <2>2. ASSUME rawOf[w] # <<>> PROVE raw'[Previous(n)'] = rawOf'[w][m - 1]
      <3>1. PICK l \in Of(w) : raw[l] = Last(w) /\ \A j \in Of(w) : l >= j
        BY <2>2 DEF Read, ReadOf
      <3>2. Max(Of(w)) = l
        <4>1. Of(w) \in SUBSET Int
          BY DEF Of
        <4> QED BY <3>1, <4>1, MaxIs
      <3>3. Previous(n)' = l /\ raw'[l] = Last(w)
        BY <1>3, <3>1, <3>2 DEF Of
      <3> QED BY <1>5, <2>2, <3>3
    <2> QED BY <1>3, <1>5, <2>1, <2>2 DEF Pairs
  <1>7. ASSUME NEW v \in Worker, NEW i \in Of(v)'
        PROVE  \E k \in 1 .. Len(rawOf'[v]) : Pairs(i, v, k)'
    <2>1. CASE i \in Of(v)
      <3>1. PICK k \in 1 .. Len(rawOf[v]) : Pairs(i, v, k)
        BY <2>1 DEF Paired
      <3>2. k \in 1 .. Len(rawOf'[v]) /\ Pairs(i, v, k)'
        BY <2>1, <3>1, PairsKept
      <3> QED BY <3>2
    <2>2. CASE i \notin Of(v)
      <3>1. v = w /\ i = n
        BY <1>3, <1>7, <2>2
      <3> QED BY <1>6, <3>1
    <2> QED BY <2>1, <2>2
  <1>8. ASSUME NEW v \in Worker, NEW k \in 1 .. Len(rawOf'[v])
        PROVE  \E i \in Of(v)' : Pairs(i, v, k)'
    <2>1. CASE k \in 1 .. Len(rawOf[v])
      <3>1. PICK i \in Of(v) : Pairs(i, v, k)
        BY <2>1 DEF Paired
      <3>2. i \in Of(v)' /\ Pairs(i, v, k)'
        BY <2>1, <3>1, PairsKept
      <3> QED BY <3>2
    <2>2. CASE k \notin 1 .. Len(rawOf[v])
      <3>1. v # w => rawOf'[v] = rawOf[v]
        BY <1>2
      <3>2. v = w /\ k = m
        BY <1>5, <1>8, <2>2, <3>1
      <3> QED BY <1>6, <3>2
    <2> QED BY <2>1, <2>2
  <1> QED BY <1>7, <1>8 DEF Paired

LEMMA StepPaired ==
  ASSUME Read, Paired, [Next]_vars
  PROVE  Paired'
  <1>1. ASSUME NEW w \in Worker, Fold(w) PROVE Paired'
    <2>1. PICK e \in Possible(w) : Reads(w, e)
      BY <1>1, FoldReads
    <2> QED BY <2>1, FoldPaired
  <1>2. CASE SameReports
    <2>1. /\ \A w : Of(w)' = Of(w)
          /\ \A i : Earlier(i)' = Earlier(i)
      BY <1>2 DEF SameReports, Of, Earlier
    <2>2. \A i : Previous(i)' = Previous(i)
      BY <2>1 DEF Previous
    <2>3. raw' = raw /\ rawOf' = rawOf
      BY <1>2 DEF SameReports
    <2>4. \A i, w, k : Pairs(i, w, k)' <=> Pairs(i, w, k)
      BY <2>1, <2>2, <2>3 DEF Pairs
    <2> QED BY <2>1, <2>3, <2>4 DEF Paired
  <1> QED BY <1>1, <1>2, OthersKeepReports DEF Next

\* The window that report i ends, as the reports show it; and what each of the
\* three prints of the k-th report of a worker.
Point(i) == [time |-> raw[i].Now, rates |-> [k \in Kind |-> Rate(i, k)]]

PrintedAt(w, k) ==
  [time |-> rawOf[w][k].Now, rates |-> Rates(Before(rawOf[w], k), rawOf[w][k])]
PointAt(w, k) ==
  [time |-> rawOf[w][k].Now, rates |-> Rates(rawOf[w][k], Before(rawOf[w], k))]
RowAt(w, k) ==
  [time |-> rawOf[w][k].Now,
   rates |-> [x \in Kind |-> Ratio(IF x = "Tput" THEN Row(w, k).dKops ELSE Row(w, k).dCputime,
                                   Row(w, k).dtime)]]

\* The HTML report has both differences negative.
LEMMA RatioTurned ==
  ASSUME NEW a \in Int, NEW b \in Int, NEW s \in Int, NEW t \in Int, s < t
  PROVE  Ratio(a - b, s - t) = Ratio(b - a, t - s)
  <1>1. s - t < 0 /\ t - s > 0 /\ -(a - b) = b - a /\ -(s - t) = t - s
    OBVIOUS
  <1> QED BY <1>1 DEF Ratio

LEMMA FirstShown ==
  ASSUME Read, NEW w \in Worker, NEW i \in Of(w), Pairs(i, w, 1), 1 \in 1 .. Len(rawOf[w])
  PROVE  i \notin Windows(w) /\ rawOf[w][1].Kops = 0 /\ ~(Before(rawOf[w], 1).Now > 0)
  <1>1. Earlier(i) = {}
    BY DEF Pairs
  <1>2. rawOf[w] # <<>>
    BY DEF Read, ReadOf
  <1> QED BY <1>1, <1>2 DEF Windows, Read, ReadOf, Before, NoReport

LEMMA LaterShown ==
  ASSUME Read, NEW w \in Worker, Regular(w),
         NEW i \in Of(w), NEW k \in 1 .. Len(rawOf[w]), k # 1, Pairs(i, w, k)
  PROVE  /\ i \in Windows(w) /\ Before(rawOf[w], k).Now > 0
         /\ PrintedAt(w, k) = Point(i) /\ PointAt(w, k) = Point(i) /\ RowAt(w, k) = Point(i)
  <1> DEFINE e == rawOf[w][k]
             f == rawOf[w][k - 1]
  <1>1. raw[i] = e /\ Earlier(i) # {} /\ raw[Previous(i)] = f
    BY DEF Pairs
  <1>2. i \in 1 .. Len(raw) /\ raw[i].Id = w
    BY DEF Of
  <1>3. PICK j : j = Previous(i)
    OBVIOUS
  <1>4. j \in Earlier(i) /\ raw[j] = f
    BY <1>1, <1>2, <1>3 DEF Read
  <1>5. j \in 1 .. Len(raw) /\ raw[j].Id = w
    BY <1>2, <1>4 DEF Earlier, Read
  <1>6. e \in Report /\ f \in Report
    BY <1>1, <1>2, <1>4, <1>5, ElementOfSeq DEF Read
  <1>7. f.Now < e.Now /\ ~Torn(f)
    BY <1>1, <1>2, <1>4, <1>5 DEF Regular
  <1>8. i \in Windows(w)
    BY <1>1, <1>2 DEF Windows
  <1>9. Before(rawOf[w], k) = f
    BY DEF Before
  <1> HIDE DEF e, f
  <1>10. /\ e.Now \in Nat /\ f.Now \in Nat /\ e.Kops \in Nat /\ f.Kops \in Nat
         /\ e.Cputime \in Nat /\ f.Cputime \in Nat /\ f.Now > 0
    BY <1>6, <1>7 DEF Report, Torn
  <1>11. \A x \in Kind : Rate(i, x) = Ratio(Done(e, x) - Done(f, x), e.Now - f.Now)
    BY <1>1 DEF Rate
  <1>12. PrintedAt(w, k) = Point(i)
    <2>1. \A x \in Kind : Rates(f, e)[x] = Ratio(Done(e, x) - Done(f, x), e.Now - f.Now)
      BY DEF Rates, Throughput, Utilization, Done
    <2>2. Rates(f, e) = [x \in Kind |-> Rate(i, x)]
      BY <1>11, <2>1 DEF Rates
    <2> QED BY <1>1, <1>9, <2>2 DEF PrintedAt, Point, e
  <1>13. PointAt(w, k) = Point(i)
    <2>1. \A x \in Kind : Rates(e, f)[x] = Ratio(Done(f, x) - Done(e, x), f.Now - e.Now)
      BY DEF Rates, Throughput, Utilization, Done
    <2>2. \A x \in Kind : Done(f, x) \in Int /\ Done(e, x) \in Int
      BY <1>10 DEF Done
    <2>3. \A x \in Kind : Ratio(Done(f, x) - Done(e, x), f.Now - e.Now) =
                          Ratio(Done(e, x) - Done(f, x), e.Now - f.Now)
      <3>1. f.Now \in Int /\ e.Now \in Int
        BY <1>10
      <3> QED BY <1>7, <2>2, <3>1, RatioTurned
    <2>4. Rates(e, f) = [x \in Kind |-> Rate(i, x)]
      BY <1>11, <2>1, <2>3 DEF Rates
    <2> QED BY <1>1, <1>9, <2>4 DEF PointAt, Point, e
  <1>14. RowAt(w, k) = Point(i)
    <2>1. Row(w, k) = [dtime |-> e.Now - f.Now, dKops |-> e.Kops - f.Kops,
                       dCputime |-> e.Cputime - f.Cputime]
      <3>1. e.Now > f.Now
        BY <1>7, <1>10
      <3>2. Row(w, k) = IF e.Now > f.Now
                          THEN [dtime |-> e.Now - f.Now, dKops |-> e.Kops - f.Kops,
                                dCputime |-> e.Cputime - f.Cputime]
                          ELSE [dtime |-> 0, dKops |-> 0, dCputime |-> 0]
        BY <1>9, Zenon DEF Row, e
      <3> QED BY <3>1, <3>2
    <2>2. /\ Row(w, k).dtime = e.Now - f.Now /\ Row(w, k).dKops = e.Kops - f.Kops
          /\ Row(w, k).dCputime = e.Cputime - f.Cputime
      BY <2>1
    <2>3. \A x \in Kind :
            (IF x = "Tput" THEN Row(w, k).dKops ELSE Row(w, k).dCputime) = Done(e, x) - Done(f, x)
      BY <2>2 DEF Done
    <2>4. [x \in Kind |-> Ratio(IF x = "Tput" THEN Row(w, k).dKops ELSE Row(w, k).dCputime,
                                Row(w, k).dtime)]
          = [x \in Kind |-> Rate(i, x)]
      BY <1>11, <2>2, <2>3
    <2> QED BY <1>1, <2>4 DEF RowAt, Point, e
  <1> QED BY <1>8, <1>9, <1>10, <1>12, <1>13, <1>14

LEMMA PairedShows == Read /\ Paired => ReportsShowTheWindows
  <1> SUFFICES ASSUME Read, Paired, NEW w \in Worker, Regular(w)
      PROVE  /\ Printed(w) = {Point(i) : i \in Windows(w)}
             /\ Points(w) = {Point(i) : i \in {x \in Windows(w) : raw[x].Kops > 0}}
             /\ {RowAt(w, k) : k \in 2 .. Len(rawOf[w])} = {Point(i) : i \in Windows(w)}
    BY DEF ReportsShowTheWindows, Point, RowAt
  <1>1. PICK K : K = 1 .. Len(rawOf[w])
    OBVIOUS
  <1>2. rawOf[w] \in Seq(Report) /\ Len(rawOf[w]) \in Nat
    BY LenProperties DEF Read
  <1>3. 2 .. Len(rawOf[w]) = K \ {1} /\ K \subseteq Nat
    BY <1>1, <1>2
  <1>4. Windows(w) \subseteq Of(w)
    BY DEF Windows, Of
  <1>5. ASSUME NEW i \in Of(w), NEW k \in K, Pairs(i, w, k)
        PROVE  /\ raw[i] = rawOf[w][k]
               /\ k = 1 => i \notin Windows(w) /\ rawOf[w][k].Kops = 0
                           /\ ~(Before(rawOf[w], k).Now > 0)
               /\ k # 1 => /\ i \in Windows(w) /\ Before(rawOf[w], k).Now > 0
                           /\ PrintedAt(w, k) = Point(i) /\ PointAt(w, k) = Point(i)
                           /\ RowAt(w, k) = Point(i)
    <2>1. CASE k = 1
      BY <1>1, <1>5, <2>1, FirstShown DEF Pairs
    <2>2. CASE k # 1
      BY <1>1, <1>5, <2>2, LaterShown DEF Pairs
    <2> QED BY <2>1, <2>2
  <1>6. ASSUME NEW i \in Windows(w)
        PROVE  \E k \in K : /\ k # 1 /\ Before(rawOf[w], k).Now > 0 /\ raw[i] = rawOf[w][k]
                            /\ PrintedAt(w, k) = Point(i) /\ PointAt(w, k) = Point(i)
                            /\ RowAt(w, k) = Point(i)
    <2>1. PICK k \in K : Pairs(i, w, k)
      BY <1>1, <1>4 DEF Paired
    <2> QED BY <1>4, <1>5, <2>1
  <1>7. ASSUME NEW k \in K
        PROVE  \E i \in Of(w) :
                 /\ raw[i] = rawOf[w][k]
                 /\ k = 1 => rawOf[w][k].Kops = 0 /\ ~(Before(rawOf[w], k).Now > 0)
                 /\ k # 1 => /\ i \in Windows(w)
                             /\ PrintedAt(w, k) = Point(i) /\ PointAt(w, k) = Point(i)
                             /\ RowAt(w, k) = Point(i)
    <2>1. PICK i \in Of(w) : Pairs(i, w, k)
      BY <1>1 DEF Paired
    <2> QED BY <1>5, <2>1
  <1>8. Printed(w) = {PrintedAt(w, k) : k \in {x \in K : Before(rawOf[w], x).Now > 0}}
    BY <1>1 DEF Printed, PrintedAt
  <1>9. Points(w) = {PointAt(w, k) : k \in {x \in K : rawOf[w][x].Kops > 0}}
    BY <1>1 DEF Points, PointAt
  <1>10. Printed(w) = {Point(i) : i \in Windows(w)}
    BY <1>6, <1>7, <1>8
  <1>11. Points(w) = {Point(i) : i \in {x \in Windows(w) : raw[x].Kops > 0}}
    BY <1>6, <1>7, <1>9
  <1>12. {RowAt(w, k) : k \in 2 .. Len(rawOf[w])} = {Point(i) : i \in Windows(w)}
    BY <1>3, <1>6, <1>7
  <1> QED BY <1>10, <1>11, <1>12

\* What a reader is shown while the run goes on, in the text report and in the
\* HTML report are the same windows, and those of the statistics, though each of
\* the four keeps its own idea of the report before.
THEOREM ReportsShow == Spec => []ReportsShowTheWindows
  <1>1. Init => Paired
    <2> SUFFICES ASSUME Init PROVE Paired
      OBVIOUS
    <2>1. raw = <<>> /\ \A w \in Worker : rawOf[w] = <<>>
      BY DEF Init
    <2> QED BY <2>1 DEF Paired, Of
  <1>2. TypeOK /\ Read /\ Paired /\ [Next]_vars => Paired'
    BY StepPaired
  <1> QED BY <1>1, <1>2, ReadHolds, PairedShows, PTL DEF Spec

(***************************************************************************)
(* The average of a worker, which is over the time from its first report   *)
(* to its last, is the mediant of its windows.                             *)
(***************************************************************************)
LEMMA CrossTransitiveWeak ==
  ASSUME NEW a \in Int, NEW b \in Int, NEW c \in Int,
         NEW p \in Nat, NEW q \in Nat, NEW r \in Nat, q > 0,
         a * q <= b * p, b * r <= c * q
  PROVE  a * r <= c * p
  <1>1. a * q * r <= b * p * r
    OBVIOUS
  <1>2. b * r * p <= c * q * p
    OBVIOUS
  <1>3. (a * r) * q <= (c * p) * q
    BY <1>1, <1>2
  <1> QED BY <1>3

LEMMA MediantIs ==
  ASSUME NEW a \in Int, NEW p \in Int, NEW m \in Int, NEW d \in Int
  PROVE  /\ a * d <= m * p => a * (p + d) <= (a + m) * p /\ (a + m) * d <= m * (p + d)
         /\ m * p <= a * d => m * (p + d) <= (a + m) * d /\ (a + m) * p <= a * (p + d)
  OBVIOUS

\* Not less, of two ratios that are neither NaN nor infinite.
LEMMA UsualLess ==
  ASSUME NEW x, NEW y, Usual(x), Usual(y)
  PROVE  Less(x, y) <=> ~(y.n * x.d <= x.n * y.d)
  <1>1. Less(x, y) <=> x.n * y.d < y.n * x.d
    BY DEF Usual, Less, IsNaN
  <1>2. x.n * y.d \in Int /\ y.n * x.d \in Int
    BY DEF Usual
  <1> QED BY <1>1, <1>2

LEMMA UsualNotLess ==
  ASSUME NEW x, NEW y, NEW z, Usual(x), Usual(y), Usual(z), ~Less(x, y), ~Less(y, z)
  PROVE  ~Less(x, z)
  <1>1. y.n * x.d <= x.n * y.d /\ z.n * y.d <= y.n * z.d
    BY UsualLess
  <1>2. /\ x.n \in Int /\ y.n \in Int /\ z.n \in Int
        /\ x.d \in Nat /\ y.d \in Nat /\ z.d \in Nat /\ y.d > 0
    BY DEF Usual
  <1>3. z.n * x.d <= x.n * z.d
    BY <1>1, <1>2, CrossTransitiveWeak
  <1> QED BY <1>3, UsualLess

\* A ratio between two of V.
Between(x, V) == (\E v \in V : ~Less(x, v)) /\ (\E v \in V : ~Less(v, x))

LEMMA MediantBetween ==
  ASSUME NEW V, \A v \in V : Usual(v), NEW x, Usual(x), Between(x, V), NEW y, Usual(y),
         NEW z, Usual(z), z.n = x.n + y.n, z.d = x.d + y.d
  PROVE  Between(z, V \cup {y})
  <1>1. /\ x.n * y.d <= y.n * x.d => ~Less(z, x) /\ ~Less(y, z)
        /\ y.n * x.d <= x.n * y.d => ~Less(z, y) /\ ~Less(x, z)
    <2> DEFINE a == x.n
               p == x.d
               m == y.n
               d == y.d
    <2>1. a \in Int /\ p \in Int /\ m \in Int /\ d \in Int
      BY DEF Usual
    <2> HIDE DEF a, p, m, d
    <2>2. /\ a * d <= m * p => a * (p + d) <= (a + m) * p /\ (a + m) * d <= m * (p + d)
          /\ m * p <= a * d => m * (p + d) <= (a + m) * d /\ (a + m) * p <= a * (p + d)
      BY <2>1, MediantIs
    <2>3. z.n = a + m /\ z.d = p + d
      BY DEF a, p, m, d
    <2>4. /\ a * d <= m * p => x.n * z.d <= z.n * x.d /\ z.n * y.d <= y.n * z.d
          /\ m * p <= a * d => y.n * z.d <= z.n * y.d /\ z.n * x.d <= x.n * z.d
      BY <2>2, <2>3 DEF a, p, m, d
    <2> QED BY <2>4, UsualLess DEF a, p, m, d
  <1>2. x.n * y.d <= y.n * x.d \/ y.n * x.d <= x.n * y.d
    <2>1. x.n * y.d \in Int /\ y.n * x.d \in Int
      BY DEF Usual
    <2> QED BY <2>1
  <1>3. PICK lo \in V : ~Less(x, lo)
    BY DEF Between
  <1>4. PICK hi \in V : ~Less(hi, x)
    BY DEF Between
  <1>5. CASE ~Less(z, x) /\ ~Less(y, z)
    <2>1. ~Less(z, lo)
      BY <1>3, <1>5, UsualNotLess
    <2> QED BY <1>3, <1>5, <2>1 DEF Between
  <1>6. CASE ~Less(z, y) /\ ~Less(x, z)
    <2>1. ~Less(hi, z)
      BY <1>4, <1>6, UsualNotLess
    <2> QED BY <1>4, <1>6, <2>1 DEF Between
  <1> QED BY <1>1, <1>2, <1>5, <1>6

\* The average of a worker with reports f up to e; kops are counted from 0, but
\* the first report has none.
Mean(f, e, k) == [n |-> Done(e, k) - Done(f, k), d |-> e.Now - f.Now]

MeanOf(w) ==
  LET f == rawOf[w][1]
      e == Last(w)
  IN  IF Windows(w) = {} THEN e = f
      ELSE \A k \in Kind : /\ Usual(Mean(f, e, k))
                           /\ Between(Mean(f, e, k), RatesOf(k, Windows(w)))

Means == \A w \in Worker : Regular(w) /\ rawOf[w] # <<>> => MeanOf(w)

LEMMA FoldMeans ==
  ASSUME Read, Means, NEW w \in Worker, NEW e, Reads(w, e)
  PROVE  Means'
  <1>1. PICK n : n = Len(raw) + 1
    OBVIOUS
  <1>2. /\ \A v \in Worker : v # w => Windows(v)' = Windows(v)
        /\ rawOf[w] = <<>> => Windows(w)' = Windows(w)
        /\ rawOf[w] # <<>> => /\ Windows(w)' = Windows(w) \cup {n}
                              /\ \A k \in Kind : Rate(n, k)' = Window(data[w], e)[k]
        /\ \A v \in Worker : Windows(v) \subseteq AllWindows
        /\ \A i \in AllWindows, k \in Kind : Rate(i, k)' = Rate(i, k)
    BY <1>1, WindowsAre
  <1>3. \A v \in Worker : Regular(v)' => Regular(v)
    BY RegularBefore
  <1>4. /\ e \in Report /\ rawOf \in [Worker -> Seq(Report)] /\ rawOf[w] \in Seq(Report)
        /\ rawOf' = [rawOf EXCEPT ![w] = Append(rawOf[w], e)]
    BY PossibleIs DEF Read, Reads
  <1>5. /\ rawOf'[w] = Append(rawOf[w], e) /\ Last(w)' = e
        /\ rawOf[w] # <<>> => rawOf'[w][1] = rawOf[w][1]
        /\ rawOf[w] = <<>> => rawOf'[w][1] = e
    <2>1. rawOf'[w] = Append(rawOf[w], e)
      BY <1>4
    <2>2. /\ Len(rawOf[w]) \in Nat
          /\ rawOf[w] # <<>> => Len(rawOf[w]) >= 1
          /\ rawOf[w] = <<>> => Len(rawOf[w]) = 0
      BY <1>4, LenProperties, EmptySeq
    <2>3. Last(w)' = e
      BY <1>4, <2>1, <2>2, AppendProperties DEF Last
    <2>4. rawOf[w] # <<>> => 1 \in 1 .. Len(rawOf[w])
      BY <2>2
    <2> QED BY <1>4, <2>1, <2>2, <2>3, <2>4, AppendProperties
  <1>6. ASSUME NEW v \in Worker, v # w, Regular(v)', rawOf'[v] # <<>> PROVE MeanOf(v)'
    <2>1. rawOf'[v] = rawOf[v] /\ Last(v)' = Last(v)
      BY <1>4, <1>6 DEF Last
    <2>2. \A k \in Kind : RatesOf(k, Windows(v))' = RatesOf(k, Windows(v))
      BY <1>2, <1>6 DEF RatesOf
    <2>3. MeanOf(v)
      BY <1>3, <1>6, <2>1 DEF Means
    <2> QED BY <1>2, <1>6, <2>1, <2>2, <2>3 DEF MeanOf, Mean, Done, Usual, Between
  <1>7. ASSUME Regular(w)' PROVE MeanOf(w)'
    <2>1. CASE rawOf[w] = <<>>
      <3>1. Windows(w) = {}
        BY <2>1 DEF Read, ReadOf, Windows, Of
      <3>2. Windows(w)' = {}
        BY <1>2, <2>1, <3>1
      <3> QED BY <1>5, <2>1, <3>2 DEF MeanOf
    <2>2. CASE rawOf[w] # <<>>
      <3> DEFINE f == rawOf[w][1]
                 l == Last(w)
      <3>1. MeanOf(w)
        BY <1>3, <1>7, <2>2 DEF Means
      <3>2. Windows(w)' # {} /\ Last(w)' = e /\ rawOf'[w][1] = f
        BY <1>2, <1>5, <2>2
      <3>3. \A k \in Kind : RatesOf(k, Windows(w))' =
                              RatesOf(k, Windows(w)) \cup {Window(data[w], e)[k]}
        BY <1>2, <2>2 DEF RatesOf
      <3> SUFFICES ASSUME NEW k \in Kind
                   PROVE  /\ Usual(Mean(f, e, k))
                          /\ Between(Mean(f, e, k), RatesOf(k, Windows(w))')
        BY <3>2 DEF MeanOf, Mean, Done, Usual, Between
      <3>4. PICK y : y = Window(data[w], e)[k]
        OBVIOUS
      <3>5. Usual(y) /\ y = Mean(l, e, k)
        BY <1>7, <2>2, <3>4, NewRate DEF Mean
      <3>6. CASE Windows(w) = {}
        <4>1. l = f
          BY <3>1, <3>6 DEF MeanOf
        <4>2. y \in RatesOf(k, Windows(w))'
          BY <3>3, <3>4
        <4>3. ~Less(y, y)
          BY <3>5, UsualNotLess, LessIrreflexive DEF Usual, IsRatio
        <4> HIDE DEF f, l
        <4> QED BY <3>5, <4>1, <4>2, <4>3 DEF Between
      <3>7. CASE Windows(w) # {}
        <4> DEFINE x == Mean(f, l, k)
                   z == Mean(f, e, k)
        <4>1. Usual(x) /\ Between(x, RatesOf(k, Windows(w)))
          BY <3>1, <3>7 DEF MeanOf
        <4>2. z.n = x.n + y.n /\ z.d = x.d + y.d
          <5>1. Done(f, k) \in Int /\ Done(l, k) \in Int /\ Done(e, k) \in Int
                /\ f.Now \in Int /\ l.Now \in Int /\ e.Now \in Int
            <6>1. f \in Report /\ l \in Report
              BY <1>4, <2>2, EmptySeq, LenProperties, ElementOfSeq DEF Last
            <6> HIDE DEF f, l
            <6> QED BY <1>4, <6>1 DEF Report, Done
          <5> HIDE DEF f, l
          <5> QED BY <3>5, <5>1 DEF Mean
        <4>3. /\ z.n \in Int /\ z.d \in Int /\ z.n >= 0 /\ z.d > 0
          BY <3>5, <4>1, <4>2 DEF Usual
        <4>4. \A v \in RatesOf(k, Windows(w)) : Usual(v)
          BY <1>3, <1>7, RateIs DEF RatesOf
        <4> HIDE DEF x, z
        <4>5. Usual(z)
          BY <4>3 DEF Usual
        <4>6. Between(z, RatesOf(k, Windows(w)) \cup {y})
          BY <3>5, <4>1, <4>2, <4>4, <4>5, MediantBetween
        <4> QED BY <3>3, <3>4, <4>5, <4>6 DEF z
      <3> QED BY <3>6, <3>7
    <2> QED BY <2>1, <2>2
  <1> QED BY <1>6, <1>7 DEF Means

LEMMA SameMeans ==
  ASSUME Means, SameReports
  PROVE  Means'
  <1>1. /\ \A w : Windows(w)' = Windows(w) /\ (Regular(w)' <=> Regular(w))
        /\ \A k, I : RatesOf(k, I)' = RatesOf(k, I)
    BY SameWindows
  <1>2. rawOf' = rawOf /\ \A w : Last(w)' = Last(w)
    BY DEF SameReports, Last
  <1>3. \A w, k : RatesOf(k, Windows(w))' = RatesOf(k, Windows(w))
    BY <1>1 DEF RatesOf
  <1>4. \A w : MeanOf(w)' <=> MeanOf(w)
    BY <1>1, <1>2, <1>3 DEF MeanOf, Mean, Done, Usual, Between
  <1> QED BY <1>1, <1>2, <1>4 DEF Means

(***************************************************************************)
(* The second loop of Process, which takes the workers in any order.       *)
(***************************************************************************)

\* The workers that it has visited, and their averages.
Visited == IF pc = "fold" THEN {} ELSE IF pc = "average" THEN InData \ toVisit ELSE InData
Avgs(k) == {avg[k][w] : w \in Visited}

AveragesVisited ==
  /\ pc = "average" => toVisit \subseteq InData
  /\ \A k \in Kind :
       /\ \A w \in Visited : avg[k][w] = Averages(data[w])[k]
       /\ \A w \in Worker \ Visited : avg[k][w] = Zero
       /\ LargestIn(avgMinMax[k].Max, Avgs(k))
       /\ (\A v \in Avgs(k) : Positive(v)) => SmallestIn(avgMinMax[k].Min, Avgs(k))

LEMMA SameInData ==
  ASSUME SameReports
  PROVE  InData' = InData
  BY DEF SameReports, InData

\* A step that visits nobody.
LEMMA SameAverages ==
  ASSUME AveragesVisited, SameReports, Visited' = Visited, avg' = avg, avgMinMax' = avgMinMax,
         pc' = "average" => toVisit' \subseteq InData'
  PROVE  AveragesVisited'
  <1>1. data' = data
    BY DEF SameReports
  <1>2. \A k : Avgs(k)' = Avgs(k)
    BY DEF Avgs
  <1>3. \A k, w : Averages(data[w])[k]' = Averages(data[w])[k]
    BY <1>1 DEF Averages, Throughput, Utilization, Ratio, Sign
  <1> QED BY <1>1, <1>2, <1>3 DEF AveragesVisited, LargestIn, SmallestIn, Positive

LEMMA AveragesTyped ==
  ASSUME NEW d \in Data, NEW k \in Kind, Worker # {}
  PROVE  Averages(d)[k] \in Float
  <1>1. PICK w : w \in Worker
    OBVIOUS
  <1>2. [Id |-> w, Now |-> 0, Kops |-> 0, Cputime |-> 0] \in Report
    BY <1>1 DEF Report
  <1> QED BY <1>2, WindowIs

LEMMA AverageVisits ==
  ASSUME TypeOK, AveragesVisited, NEW w \in Worker, Average(w)
  PROVE  AveragesVisited'
  <1>1. /\ pc = "average" /\ pc' = "average" /\ w \in toVisit /\ toVisit' = toVisit \ {w}
        /\ SameReports /\ InData' = InData /\ toVisit \subseteq InData
    BY SameInData DEF Average, SameReports, AveragesVisited
  <1>2. Visited' = Visited \cup {w} /\ w \notin Visited
    BY <1>1 DEF Visited
  <1>3. data' = data
    BY <1>1 DEF SameReports
  <1> SUFFICES ASSUME NEW k \in Kind
      PROVE  /\ \A v \in Visited' : avg'[k][v] = Averages(data'[v])[k]
             /\ \A v \in Worker \ Visited' : avg'[k][v] = Zero
             /\ LargestIn(avgMinMax'[k].Max, Avgs(k)')
             /\ (\A v \in Avgs(k)' : Positive(v)) => SmallestIn(avgMinMax'[k].Min, Avgs(k)')
    BY <1>1 DEF AveragesVisited, Averages, Throughput, Utilization, Ratio, Sign,
                LargestIn, SmallestIn, Positive
  <1>4. PICK x : x = Averages(data[w])[k]
    OBVIOUS
  <1>5. /\ avg' = [j \in Kind |-> [avg[j] EXCEPT ![w] = Averages(data[w])[j]]]
        /\ avgMinMax' = [j \in Kind |-> Update(avgMinMax[j], Averages(data[w])[j])]
    BY DEF Average
  <1>6. avg'[k] = [avg[k] EXCEPT ![w] = x] /\ avgMinMax'[k] = Update(avgMinMax[k], x)
    BY <1>4, <1>5
  <1>7. avg'[k][w] = x /\ \A v \in Worker : v # w => avg'[k][v] = avg[k][v]
    BY <1>6 DEF TypeOK
  <1>8. Visited \subseteq Worker
    BY DEF Visited, InData
  <1>9. Avgs(k)' = Avgs(k) \cup {x}
    BY <1>2, <1>7, <1>8 DEF Avgs
  <1>10. \A v \in Visited' : avg'[k][v] = Averages(data'[v])[k]
    BY <1>2, <1>3, <1>4, <1>7, <1>8 DEF AveragesVisited
  <1>11. \A v \in Worker \ Visited' : avg'[k][v] = Zero
    BY <1>2, <1>7 DEF AveragesVisited
  <1>12. avg' \in [Kind -> [Worker -> Float]]
    <2>1. \A j \in Kind : Averages(data[w])[j] \in Float
      BY AveragesTyped DEF TypeOK
    <2> QED BY <1>5, <2>1 DEF TypeOK
  <1>13. IsRatio(x) /\ \A v \in Avgs(k) : IsRatio(v)
    <2>1. avg'[k][w] \in Float /\ \A v \in Worker : avg[k][v] \in Float
      BY <1>12 DEF TypeOK
    <2> QED BY <1>7, <1>8, <2>1, FloatIs DEF Avgs
  <1>14. /\ Update(avgMinMax[k], x).Max = IF Less(avgMinMax[k].Max, x) THEN x
                                          ELSE avgMinMax[k].Max
         /\ Update(avgMinMax[k], x).Min =
              IF Less(x, avgMinMax[k].Min) \/ IsZero(avgMinMax[k].Min) THEN x
              ELSE avgMinMax[k].Min
    BY DEF Update
  <1>15. LargestIn(avgMinMax'[k].Max, Avgs(k)')
    <2>1. LargestIn(avgMinMax[k].Max, Avgs(k))
      BY DEF AveragesVisited
    <2>2. LargestIn(IF Less(avgMinMax[k].Max, x) THEN x ELSE avgMinMax[k].Max, Avgs(k) \cup {x})
      BY <1>13, <2>1, MaxUpdated
    <2>3. avgMinMax'[k].Max = IF Less(avgMinMax[k].Max, x) THEN x ELSE avgMinMax[k].Max
      BY <1>6, <1>14
    <2> QED BY <1>9, <2>2, <2>3
  <1>16. ASSUME \A v \in Avgs(k)' : Positive(v)
         PROVE  SmallestIn(avgMinMax'[k].Min, Avgs(k)')
    <2>1. Positive(x) /\ \A v \in Avgs(k) : Positive(v)
      BY <1>9, <1>16
    <2>2. Usual(x) /\ ~IsZero(x)
      BY <2>1 DEF Positive, Usual, IsZero
    <2>3. SmallestIn(avgMinMax[k].Min, Avgs(k))
      BY <2>1 DEF AveragesVisited
    <2>4. SmallestIn(IF Less(x, avgMinMax[k].Min) \/ IsZero(avgMinMax[k].Min) THEN x
                     ELSE avgMinMax[k].Min, IF IsZero(x) THEN {} ELSE Avgs(k) \cup {x})
      BY <2>1, <2>2, <2>3, MinUpdated
    <2>5. avgMinMax'[k].Min =
            IF Less(x, avgMinMax[k].Min) \/ IsZero(avgMinMax[k].Min) THEN x
            ELSE avgMinMax[k].Min
      BY <1>6, <1>14
    <2> QED BY <1>9, <2>2, <2>4, <2>5
  <1> QED BY <1>10, <1>11, <1>15, <1>16

LEMMA StepVisits ==
  ASSUME TypeOK, Read, Read', AveragesVisited, [Next]_vars
  PROVE  AveragesVisited'
  <1>1. ASSUME NEW w \in Worker, Fold(w) PROVE AveragesVisited'
    <2>1. /\ pc = "fold" /\ pc' = "fold" /\ avg' = avg /\ avgMinMax' = avgMinMax
      BY <1>1 DEF Fold
    <2>2. Visited = {} /\ Visited' = {}
      BY <2>1 DEF Visited
    <2>3. \A k : Avgs(k) = {} /\ Avgs(k)' = {}
      BY <2>2 DEF Avgs
    <2> QED BY <2>1, <2>2, <2>3 DEF AveragesVisited, LargestIn, SmallestIn
  <1>2. ASSUME NEW w \in Worker, Average(w) PROVE AveragesVisited'
    BY <1>2, AverageVisits
  <1>3. ASSUME NEW w \in Worker, AddAverage(w) PROVE AveragesVisited'
    <2>1. pc = "total" /\ pc' = "total" /\ avg' = avg /\ avgMinMax' = avgMinMax /\ SameReports
      BY <1>3, OthersKeepReports DEF AddAverage
    <2>2. Visited' = Visited
      BY <2>1, SameInData DEF Visited
    <2> QED BY <2>1, <2>2, SameAverages
  <1>4. ASSUME EndFold PROVE AveragesVisited'
    <2>1. /\ pc = "fold" /\ pc' = "average" /\ avg' = avg /\ avgMinMax' = avgMinMax
          /\ SameReports /\ toVisit' = InData
      BY <1>4, OthersKeepReports DEF EndFold
    <2>2. InData' = InData
      BY <2>1, SameInData
    <2>3. Visited' = Visited
      BY <2>1, <2>2 DEF Visited
    <2> QED BY <2>1, <2>2, <2>3, SameAverages
  <1>5. ASSUME EndAverage PROVE AveragesVisited'
    <2>1. /\ pc = "average" /\ pc' = "total" /\ avg' = avg /\ avgMinMax' = avgMinMax
          /\ SameReports /\ toVisit = {}
      BY <1>5, OthersKeepReports DEF EndAverage
    <2>2. Visited' = Visited
      BY <2>1, SameInData DEF Visited
    <2> QED BY <2>1, <2>2, SameAverages
  <1>6. ASSUME AverageOfAverages PROVE AveragesVisited'
    <2>1. /\ pc = "total" /\ pc' = "done" /\ avg' = avg /\ avgMinMax' = avgMinMax
          /\ SameReports
      BY <1>6, OthersKeepReports DEF AverageOfAverages
    <2>2. Visited' = Visited
      BY <2>1, SameInData DEF Visited
    <2> QED BY <2>1, <2>2, SameAverages
  <1>7. ASSUME UNCHANGED vars PROVE AveragesVisited'
    <2>1. /\ pc' = pc /\ avg' = avg /\ avgMinMax' = avgMinMax /\ toVisit' = toVisit
          /\ SameReports
      BY <1>7, OthersKeepReports DEF vars
    <2>2. InData' = InData
      BY <2>1, SameInData
    <2>3. Visited' = Visited
      BY <2>1, <2>2 DEF Visited
    <2> QED BY <2>1, <2>2, <2>3, SameAverages DEF AveragesVisited
  <1> QED BY <1>1, <1>2, <1>3, <1>4, <1>5, <1>6, <1>7 DEF Next

LEMMA InitVisits == Init => AveragesVisited
  <1> SUFFICES ASSUME Init PROVE AveragesVisited
    OBVIOUS
  <1>1. pc = "fold" /\ Visited = {} /\ \A k : Avgs(k) = {}
    BY DEF Init, Visited, Avgs
  <1>2. \A k \in Kind : /\ avgMinMax[k].Max = Zero /\ avgMinMax[k].Min = Zero
                        /\ \A w \in Worker : avg[k][w] = Zero
    BY DEF Init, NoMinMax
  <1>3. IsZero(Zero)
    BY DEF IsZero, Zero
  <1> QED BY <1>1, <1>2, <1>3 DEF AveragesVisited, LargestIn, SmallestIn

\* The average of a worker that has a window is between its windows.
LEMMA MeanIsAverage ==
  ASSUME Read, NEW w \in Worker, rawOf[w] # <<>>, NEW k \in Kind,
         Usual(Mean(rawOf[w][1], Last(w), k))
  PROVE  Averages(data[w])[k] = Mean(rawOf[w][1], Last(w), k)
  <1> DEFINE f == rawOf[w][1]
             e == Last(w)
  <1>1. data[w] = DataOf(f, e) /\ f.Kops = 0
    BY DEF Read, ReadOf
  <1>2. e.Now - f.Now > 0 /\ e.Now - f.Now \in Int /\ Done(e, k) - Done(f, k) \in Int
    BY DEF Usual, Mean
  <1> HIDE DEF f, e
  <1>3. Averages(data[w])[k] = Ratio(Done(e, k) - Done(f, k), e.Now - f.Now)
    BY <1>1 DEF Averages, Throughput, Utilization, DataOf, Done
  <1>4. Averages(data[w])[k] = Mean(f, e, k)
    BY <1>2, <1>3, RatioIs DEF Mean
  <1> QED BY <1>4 DEF f, e

LEMMA MeansAreBetween ==
  Read /\ MinMaxRead /\ Means /\ AveragesVisited => AverageIsBetweenWindows
  <1> SUFFICES ASSUME Read, MinMaxRead, Means, AveragesVisited, pc = "done",
                      NEW w \in Worker, Regular(w), Windows(w) # {}, NEW k \in Kind
      PROVE  /\ ~Less(minMax[k][w].Max, avg[k][w])
             /\ \E i \in Windows(w) : ~Less(avg[k][w], Rate(i, k))
    BY DEF AverageIsBetweenWindows
  <1>1. rawOf[w] # <<>>
    <2>1. Of(w) # {}
      BY DEF Windows, Of
    <2> QED BY <2>1 DEF Read, ReadOf
  <1>2. PICK x : x = Mean(rawOf[w][1], Last(w), k)
    OBVIOUS
  <1>3. Usual(x) /\ Between(x, RatesOf(k, Windows(w)))
    BY <1>1, <1>2 DEF Means, MeanOf
  <1>4. avg[k][w] = x
    <2>1. w \in Visited
      BY <1>1 DEF Visited, InData
    <2>2. avg[k][w] = Averages(data[w])[k]
      BY <2>1 DEF AveragesVisited
    <2> QED BY <1>1, <1>2, <1>3, <2>2, MeanIsAverage
  <1>5. \E i \in Windows(w) : ~Less(x, Rate(i, k))
    BY <1>3 DEF Between, RatesOf
  <1>6. PICK i \in Windows(w) : ~Less(Rate(i, k), x)
    BY <1>3 DEF Between, RatesOf
  <1>7. PICK m : m = minMax[k][w].Max
    OBVIOUS
  <1>8. LargestIn(m, RatesOf(k, Windows(w)))
    BY <1>7 DEF MinMaxRead
  <1>9. ~Less(m, Rate(i, k)) /\ Usual(Rate(i, k)) /\ Usual(m)
    <2>1. \A v \in RatesOf(k, Windows(w)) : Usual(v)
      BY RateIs DEF RatesOf
    <2>2. Usual(Zero)
      BY DEF Usual, Zero
    <2> QED BY <1>8, <2>1, <2>2 DEF LargestIn, RatesOf
  <1>10. ~Less(m, x)
    BY <1>3, <1>6, <1>9, UsualNotLess
  <1> QED BY <1>4, <1>5, <1>7, <1>10

\* A worker's reports may come in any number: its average is no more than its
\* best window and no less than its worst, whatever the windows are.
THEOREM AverageCorrect == Spec => []AverageIsBetweenWindows
  <1>1. Init => Means /\ MinMaxRead /\ AveragesVisited
    <2>1. Init => \A w \in Worker : rawOf[w] = <<>>
      BY DEF Init
    <2> QED BY <2>1, InitMinMax, InitVisits DEF Means
  <1>2. TypeOK /\ Read /\ MinMaxRead /\ [Next]_vars => MinMaxRead'
    BY StepMinMax
  <1>3. TypeOK /\ Read /\ Means /\ AveragesVisited /\ [Next]_vars => Means' /\ AveragesVisited'
    <2> SUFFICES ASSUME TypeOK, Read, Means, AveragesVisited, [Next]_vars
                 PROVE  Means' /\ AveragesVisited'
      OBVIOUS
    <2>1. Read' /\ AveragesVisited'
      BY StepRead, StepVisits
    <2>2. ASSUME NEW w \in Worker, Fold(w) PROVE Means'
      <3>1. PICK e \in Possible(w) : Reads(w, e)
        BY <2>2, FoldReads
      <3> QED BY <3>1, FoldMeans
    <2>3. CASE ~ \E w \in Worker : Fold(w)
      BY <2>1, <2>3, OthersTyped, SameMeans
    <2> QED BY <2>1, <2>2, <2>3
  <1> QED BY <1>1, <1>2, <1>3, ReadHolds, MeansAreBetween, PTL DEF Spec

(***************************************************************************)
(* The third loop, over the set's workers.  How many it has counted does   *)
(* not matter: only that the total is that many times a number between the *)
(* extremes.                                                               *)
(***************************************************************************)
Added == IF pc = "total" THEN Counted \ toVisit ELSE IF pc = "done" THEN Counted ELSE {}

\* A total of c numbers no larger, or no smaller, than x; and one of them smaller.
AtMost(t, c, x)  == t.n * x.d <= x.n * c * t.d
AtLeast(t, c, x) == x.n * c * t.d <= t.n * x.d
Below(t, c, x)   == t.n * x.d < x.n * c * t.d

\* Every average positive: what Update neither forgets nor keeps for ever.
AllPositive(k) == \A w \in InData : Positive(avg[k][w])

TotalOf(k) ==
  /\ total[k].d > 0
  /\ AtMost(total[k], count, avgMinMax[k].Max)
  /\ Added \subseteq InData \/ Below(total[k], count, avgMinMax[k].Max)
  /\ Added \subseteq InData => AtLeast(total[k], count, avgMinMax[k].Min)

Totals ==
  /\ pc = "total" => toVisit \subseteq Counted
  /\ Added # {} => count > 0
  /\ pc \in {"fold", "average"} => count = 0 /\ \A k \in Kind : total[k] = Zero
  /\ \A k \in Kind : pc \in {"total", "done"} /\ InData # {} /\ AllPositive(k) => TotalOf(k)
  /\ pc = "done" => \A k \in Kind : avgAvg[k] = Over(total[k], count)

LEMMA TotalGrows ==
  ASSUME NEW t \in Int, NEW q \in Int, q > 0, NEW c \in Nat,
         NEW a \in Int, NEW p \in Int, p > 0, NEW m \in Int, NEW d \in Int, d > 0
  PROVE  /\ t * d <= m * c * q /\ a * d <= m * p
              => (t * p + a * q) * d <= m * (c + 1) * (q * p)
         /\ t * d <= m * c * q /\ a * d < m * p
              => (t * p + a * q) * d < m * (c + 1) * (q * p)
         /\ t * d < m * c * q /\ a * d <= m * p
              => (t * p + a * q) * d < m * (c + 1) * (q * p)
         /\ m * c * q <= t * d /\ m * p <= a * d
              => m * (c + 1) * (q * p) <= (t * p + a * q) * d
  <1> DEFINE x == t * d
             y == m * c * q
             u == a * d
             v == m * p
  <1>1. x \in Int /\ y \in Int /\ u \in Int /\ v \in Int
    OBVIOUS
  <1>2. (t * p + a * q) * d = x * p + u * q
    OBVIOUS
  <1>3. m * (c + 1) * (q * p) = y * p + v * q
    OBVIOUS
  <1> HIDE DEF x, y, u, v
  <1>4. /\ x <= y => x * p <= y * p
        /\ x < y => x * p < y * p
        /\ y <= x => y * p <= x * p
        /\ u <= v => u * q <= v * q
        /\ u < v => u * q < v * q
        /\ v <= u => v * q <= u * q
    BY <1>1
  <1>5. x * p \in Int /\ y * p \in Int /\ u * q \in Int /\ v * q \in Int
    BY <1>1
  <1> QED BY <1>2, <1>3, <1>4, <1>5 DEF x, y, u, v

\* One more average in the total.
LEMMA AddedOne ==
  ASSUME NEW t \in Float, t.d > 0, NEW c \in Nat, NEW a, Usual(a), NEW x, Usual(x)
  PROVE  /\ Plus(t, a).d > 0
         /\ AtMost(t, c, x) /\ ~Less(x, a) => AtMost(Plus(t, a), c + 1, x)
         /\ AtMost(t, c, x) /\ Less(a, x) => Below(Plus(t, a), c + 1, x)
         /\ Below(t, c, x) /\ ~Less(x, a) => Below(Plus(t, a), c + 1, x)
         /\ AtLeast(t, c, x) /\ ~Less(a, x) => AtLeast(Plus(t, a), c + 1, x)
  <1> DEFINE n == t.n
             q == t.d
             b == a.n
             p == a.d
             m == x.n
             d == x.d
  <1>1. /\ n \in Int /\ q \in Int /\ q > 0 /\ b \in Int /\ p \in Int /\ p > 0
        /\ m \in Int /\ d \in Int /\ d > 0
    BY DEF Float, Usual
  <1>2. Plus(t, a) = [n |-> n * p + b * q, d |-> q * p]
    <2>1. q # 0 /\ p # 0
      BY <1>1
    <2>2. Plus(t, a) = IF q = 0 /\ p = 0 THEN [n |-> IF n = b THEN n ELSE 0, d |-> 0]
                       ELSE IF q = 0 THEN t ELSE IF p = 0 THEN a
                       ELSE [n |-> n * p + b * q, d |-> q * p]
      BY Zenon DEF Plus
    <2> HIDE DEF n, q, b, p
    <2> QED BY <2>1, <2>2, Zenon
  <1>3. /\ Less(x, a) <=> ~(b * d <= m * p)
        /\ Less(a, x) <=> ~(m * p <= b * d)
    BY UsualLess
  <1> HIDE DEF n, q, b, p, m, d
  <1>4. b * d \in Int /\ m * p \in Int
    BY <1>1
  <1>5. Less(a, x) => b * d < m * p
    BY <1>3, <1>4
  <1>6. /\ n * d <= m * c * q /\ b * d <= m * p
              => (n * p + b * q) * d <= m * (c + 1) * (q * p)
        /\ n * d <= m * c * q /\ b * d < m * p
              => (n * p + b * q) * d < m * (c + 1) * (q * p)
        /\ n * d < m * c * q /\ b * d <= m * p
              => (n * p + b * q) * d < m * (c + 1) * (q * p)
        /\ m * c * q <= n * d /\ m * p <= b * d
              => m * (c + 1) * (q * p) <= (n * p + b * q) * d
    BY <1>1, TotalGrows
  <1>7. q * p > 0
    BY <1>1
  <1>8. /\ AtMost(t, c, x) <=> n * d <= m * c * q
        /\ Below(t, c, x) <=> n * d < m * c * q
        /\ AtLeast(t, c, x) <=> m * c * q <= n * d
    BY DEF AtMost, Below, AtLeast, n, q, m, d
  <1>9. PICK s : s = Plus(t, a)
    OBVIOUS
  <1>10. s.n = n * p + b * q /\ s.d = q * p
    BY <1>2, <1>9
  <1>11. /\ AtMost(s, c + 1, x) <=> (n * p + b * q) * d <= m * (c + 1) * (q * p)
         /\ Below(s, c + 1, x) <=> (n * p + b * q) * d < m * (c + 1) * (q * p)
         /\ AtLeast(s, c + 1, x) <=> m * (c + 1) * (q * p) <= (n * p + b * q) * d
    BY <1>10 DEF AtMost, Below, AtLeast, m, d
  <1> QED BY <1>3, <1>5, <1>6, <1>7, <1>8, <1>9, <1>10, <1>11

\* The extremes of positive averages are among them.
LEMMA ExtremesAre ==
  ASSUME AveragesVisited, Visited = InData, NEW k \in Kind, InData # {}, AllPositive(k)
  PROVE  LET hi == avgMinMax[k].Max
             lo == avgMinMax[k].Min
         IN  /\ Positive(hi) /\ Positive(lo)
             /\ \E w \in InData : hi = avg[k][w]
             /\ \E w \in InData : lo = avg[k][w]
             /\ \A w \in InData : ~Less(hi, avg[k][w]) /\ ~Less(avg[k][w], lo)
             /\ \A w \in Worker \ InData : avg[k][w] = Zero
  <1> DEFINE V == Avgs(k)
             hi == avgMinMax[k].Max
             lo == avgMinMax[k].Min
  <1>1. V # {} /\ (\A v \in V : Positive(v)) /\ (\A w \in InData : avg[k][w] \in V)
        /\ \A v \in V : \E w \in InData : v = avg[k][w]
    BY DEF Avgs, AllPositive
  <1>2. LargestIn(hi, V) /\ SmallestIn(lo, V)
    BY <1>1 DEF AveragesVisited
  <1>3. \A w \in Worker \ InData : avg[k][w] = Zero
    BY DEF AveragesVisited
  <1> HIDE DEF V, hi, lo
  <1>4. \A v \in V : Less(Zero, v)
    <2> SUFFICES ASSUME NEW v, Positive(v) PROVE Less(Zero, v)
      BY <1>1
    <2>1. 0 * v.d = 0 /\ v.n * 1 = v.n
      BY DEF Positive
    <2> QED BY <2>1 DEF Positive, Less, Zero, IsNaN
  <1>5. hi \in V
    BY <1>1, <1>2, <1>4 DEF LargestIn
  <1>6. lo \in V /\ \A v \in V : ~Less(v, lo)
    BY <1>1, <1>2 DEF SmallestIn
  <1> QED BY <1>1, <1>2, <1>3, <1>5, <1>6 DEF LargestIn, hi, lo

LEMMA PositiveUsual ==
  ASSUME NEW x, Positive(x)
  PROVE  Usual(x) /\ Usual(Zero) /\ Less(Zero, x) /\ ~Less(x, Zero)
  <1>1. Usual(x) /\ Usual(Zero)
    BY DEF Positive, Usual, Zero
  <1>2. /\ x.n \in Int /\ x.d \in Int /\ x.n > 0
        /\ 0 * x.d = 0 /\ x.n * 1 = x.n /\ Zero.n = 0 /\ Zero.d = 1
    BY DEF Positive, Zero
  <1> QED BY <1>1, <1>2, UsualLess

LEMMA AddTotal ==
  ASSUME TypeOK, AveragesVisited, Totals, NEW w \in Worker, AddAverage(w)
  PROVE  Totals'
  <1>1. /\ pc = "total" /\ pc' = "total" /\ w \in toVisit /\ toVisit' = toVisit \ {w}
        /\ count' = count + 1 /\ SameReports /\ avg' = avg /\ avgMinMax' = avgMinMax
        /\ total' = [k \in Kind |-> Plus(total[k], avg[k][w])]
        /\ InData' = InData /\ Counted' = Counted /\ toVisit \subseteq Counted
    BY SameInData DEF AddAverage, SameReports, Totals, Counted
  <1>2. Added' = Added \cup {w} /\ count \in Nat
    BY <1>1 DEF Added, TypeOK
  <1>3. count' > 0
    BY <1>1, <1>2
  <1>4. ASSUME NEW k \in Kind, InData # {}, AllPositive(k) PROVE TotalOf(k)'
    <2> DEFINE hi == avgMinMax[k].Max
               lo == avgMinMax[k].Min
               a == avg[k][w]
               t == total[k]
    <2>0. Visited = InData
      BY <1>1 DEF Visited
    <2>1. /\ Positive(hi) /\ Positive(lo)
          /\ \A v \in InData : ~Less(hi, avg[k][v]) /\ ~Less(avg[k][v], lo)
          /\ \A v \in Worker \ InData : avg[k][v] = Zero
      BY <1>4, <2>0, ExtremesAre
    <2>2. TotalOf(k)
      BY <1>1, <1>4 DEF Totals
    <2>3. total'[k] = Plus(t, a) /\ t \in Float
      BY <1>1 DEF TypeOK
    <2>4. /\ w \in InData => Positive(a) /\ ~Less(hi, a) /\ ~Less(a, lo)
          /\ w \notin InData => a = Zero
      BY <1>4, <2>1 DEF AllPositive
    <2>5. /\ t.d > 0 /\ AtMost(t, count, hi)
          /\ Added \subseteq InData \/ Below(t, count, hi)
          /\ Added \subseteq InData => AtLeast(t, count, lo)
      BY <2>2 DEF TotalOf
    <2> SUFFICES /\ Plus(t, a).d > 0 /\ AtMost(Plus(t, a), count + 1, hi)
                 /\ Added \cup {w} \subseteq InData \/ Below(Plus(t, a), count + 1, hi)
                 /\ Added \cup {w} \subseteq InData => AtLeast(Plus(t, a), count + 1, lo)
      BY <1>1, <1>2, <2>3 DEF TotalOf, AtMost, AtLeast, Below
    <2> HIDE DEF hi, lo, a, t
    <2>6. Usual(hi) /\ Usual(lo) /\ Usual(a) /\ ~Less(hi, a) /\ (w \notin InData => Less(a, hi))
      BY <2>1, <2>4, PositiveUsual
    <2>7. /\ Plus(t, a).d > 0
          /\ AtMost(t, count, hi) /\ ~Less(hi, a) => AtMost(Plus(t, a), count + 1, hi)
          /\ AtMost(t, count, hi) /\ Less(a, hi) => Below(Plus(t, a), count + 1, hi)
          /\ Below(t, count, hi) /\ ~Less(hi, a) => Below(Plus(t, a), count + 1, hi)
      BY <1>2, <2>3, <2>5, <2>6, AddedOne
    <2>8. AtLeast(t, count, lo) /\ ~Less(a, lo) => AtLeast(Plus(t, a), count + 1, lo)
      BY <1>2, <2>3, <2>5, <2>6, AddedOne
    <2> QED BY <2>4, <2>5, <2>6, <2>7, <2>8
  <1>5. \A k \in Kind : AllPositive(k)' <=> AllPositive(k)
    BY <1>1 DEF AllPositive, Positive
  <1> QED BY <1>1, <1>3, <1>4, <1>5 DEF Totals

\* Before the loop, when nothing is added.
LEMMA NothingAdded ==
  ASSUME NEW x, Positive(x)
  PROVE  AtMost(Zero, 0, x) /\ AtLeast(Zero, 0, x)
  <1>1. 0 * x.d = 0 /\ x.n * 0 * 1 = 0
    BY DEF Positive
  <1> QED BY <1>1 DEF AtMost, AtLeast, Zero

LEMMA StartTotal ==
  ASSUME AveragesVisited, Totals, EndAverage
  PROVE  Totals'
  <1>1. /\ pc = "average" /\ pc' = "total" /\ toVisit' = Counted /\ toVisit = {}
        /\ count' = count /\ total' = total /\ avg' = avg /\ avgMinMax' = avgMinMax
        /\ SameReports /\ InData' = InData /\ Counted' = Counted
    BY SameInData, OthersKeepReports DEF EndAverage, SameReports, Counted
  <1>2. Added' = {} /\ count' = 0 /\ \A k \in Kind : total'[k] = Zero
    BY <1>1 DEF Added, Totals
  <1>3. ASSUME NEW k \in Kind, InData # {}, AllPositive(k)' PROVE TotalOf(k)'
    <2>1. AllPositive(k) /\ Visited = InData
      BY <1>1, <1>3 DEF AllPositive, Visited, Positive
    <2>2. Positive(avgMinMax[k].Max) /\ Positive(avgMinMax[k].Min)
      BY <1>3, <2>1, ExtremesAre
    <2>3. AtMost(Zero, 0, avgMinMax[k].Max) /\ AtLeast(Zero, 0, avgMinMax[k].Min)
      BY <2>2, NothingAdded
    <2> QED BY <1>1, <1>2, <2>3 DEF TotalOf, AtMost, AtLeast, Zero
  <1> QED BY <1>1, <1>2, <1>3 DEF Totals


LEMMA StepTotals ==
  ASSUME TypeOK, Read, AveragesVisited, Totals, [Next]_vars
  PROVE  Totals'
  <1>1. ASSUME NEW w \in Worker, Fold(w) \/ Average(w) PROVE Totals'
    <2>1. /\ pc \in {"fold", "average"} /\ pc' = pc /\ count' = count /\ total' = total
      BY <1>1 DEF Fold, Average
    <2>2. Added' = {}
      BY <2>1 DEF Added
    <2> QED BY <2>1, <2>2 DEF Totals
  <1>2. ASSUME NEW w \in Worker, AddAverage(w) PROVE Totals'
    BY <1>2, AddTotal
  <1>3. CASE EndFold
    <2>1. pc = "fold" /\ pc' = "average" /\ count' = count /\ total' = total
      BY <1>3 DEF EndFold
    <2>2. Added' = {}
      BY <2>1 DEF Added
    <2> QED BY <2>1, <2>2 DEF Totals
  <1>4. CASE EndAverage
    BY <1>4, StartTotal
  <1>5. CASE AverageOfAverages
    <2>1. /\ pc = "total" /\ toVisit = {} /\ pc' = "done"
          /\ count' = count /\ total' = total /\ avg' = avg /\ avgMinMax' = avgMinMax
          /\ avgAvg' = [k \in Kind |-> Over(total[k], count)]
          /\ SameReports /\ InData' = InData /\ Counted' = Counted
      BY <1>5, SameInData, OthersKeepReports DEF AverageOfAverages, SameReports, Counted
    <2>2. Added' = Added
      BY <2>1 DEF Added
    <2>3. \A k \in Kind : /\ AllPositive(k)' <=> AllPositive(k)
                          /\ TotalOf(k)' <=> TotalOf(k)
      BY <2>1, <2>2 DEF AllPositive, Positive, TotalOf, AtMost, AtLeast, Below
    <2>4. \A k \in Kind : avgAvg'[k] = Over(total'[k], count')
      BY <2>1
    <2> QED BY <2>1, <2>2, <2>3, <2>4 DEF Totals
  <1>6. CASE UNCHANGED vars
    <2>1. /\ pc' = pc /\ toVisit' = toVisit /\ avgAvg' = avgAvg
          /\ count' = count /\ total' = total /\ avg' = avg /\ avgMinMax' = avgMinMax
          /\ SameReports /\ InData' = InData /\ Counted' = Counted
      BY <1>6, SameInData, OthersKeepReports DEF vars, SameReports, Counted
    <2>2. Added' = Added
      BY <2>1 DEF Added
    <2>3. \A k \in Kind : /\ AllPositive(k)' <=> AllPositive(k)
                          /\ TotalOf(k)' <=> TotalOf(k)
      BY <2>1, <2>2 DEF AllPositive, Positive, TotalOf, AtMost, AtLeast, Below
    <2>4. \A k \in Kind : Over(total'[k], count') = Over(total[k], count)
      BY <2>1
    <2> QED BY <2>1, <2>2, <2>3, <2>4 DEF Totals
  <1> QED BY <1>1, <1>2, <1>3, <1>4, <1>5, <1>6 DEF Next

LEMMA UsualIsPositive ==
  ASSUME NEW x \in Float, Less(Zero, x), x.d # 0
  PROVE  Positive(x)
  <1>1. x.n \in Int /\ x.d \in Int /\ x.d > 0
    BY DEF Float
  <1>2. 0 * x.d < x.n * 1
    BY <1>1 DEF Less, Zero
  <1> QED BY <1>1, <1>2 DEF Positive

LEMMA TotalsAreBetween ==
  TypeOK /\ Read /\ AveragesVisited /\ Totals => SetSummaryNeedsNoOrder
  <1> SUFFICES ASSUME TypeOK, Read, AveragesVisited, Totals, NEW k \in Kind,
                      pc = "done", InData # {}, AveragesAreUsual(k)
      PROVE  /\ \E w \in InData : avgMinMax[k].Max = avg[k][w]
             /\ \E w \in InData : avgMinMax[k].Min = avg[k][w]
             /\ \A w \in InData : /\ ~Less(avgMinMax[k].Max, avg[k][w])
                                   /\ ~Less(avg[k][w], avgMinMax[k].Min)
             /\ ~Less(avgMinMax[k].Max, avgAvg[k])
             /\ IF InData = Worker THEN ~Less(avgAvg[k], avgMinMax[k].Min)
                ELSE Less(avgAvg[k], avgMinMax[k].Max)
    BY DEF SetSummaryNeedsNoOrder
  <1> DEFINE hi == avgMinMax[k].Max
             lo == avgMinMax[k].Min
             t == total[k]
  <1>1. AllPositive(k)
    <2>1. \A w \in InData : avg[k][w] \in Float
      BY DEF TypeOK, InData
    <2> QED BY <2>1, UsualIsPositive DEF AveragesAreUsual, AllPositive
  <1>2. /\ Positive(hi) /\ Positive(lo)
        /\ \E w \in InData : hi = avg[k][w]
        /\ \E w \in InData : lo = avg[k][w]
        /\ \A w \in InData : ~Less(hi, avg[k][w]) /\ ~Less(avg[k][w], lo)
    <2>1. Visited = InData
      BY DEF Visited
    <2> QED BY <1>1, <2>1, ExtremesAre
  <1>3. Added = Worker /\ InData \subseteq Worker
    <2>1. PICK w \in Worker : rawOf[w] # <<>>
      BY DEF InData
    <2>2. Of(w) # {}
      BY <2>1 DEF Read, ReadOf
    <2>3. raw # <<>>
      BY <2>2 DEF Of
    <2> QED BY <2>3 DEF Added, Counted, InData
  <1>4. TotalOf(k) /\ avgAvg[k] = Over(t, count)
    BY <1>1 DEF Totals
  <1>5. count \in Nat /\ count > 0 /\ t \in Float /\ t.d > 0
    BY <1>3, <1>4 DEF Totals, TypeOK, InData, TotalOf
  <1>6. /\ AtMost(t, count, hi)
        /\ InData = Worker => AtLeast(t, count, lo)
        /\ InData # Worker => Below(t, count, hi)
    BY <1>3, <1>4 DEF TotalOf
  <1> HIDE DEF hi, lo, t
  <1>7. avgAvg[k] = [n |-> t.n, d |-> t.d * count] /\ t.d * count > 0
        /\ t.n \in Int /\ t.d * count \in Int /\ t.d \in Int
    <2>1. t.d * count > 0 /\ t.n \in Int /\ t.d * count \in Int /\ t.d \in Int
      BY <1>5 DEF Float
    <2> QED BY <1>4, <2>1, RatioIs DEF Over
  <1>8. ASSUME NEW x, Positive(x)
        PROVE  /\ AtMost(t, count, x) => ~Less(x, avgAvg[k])
               /\ AtLeast(t, count, x) => ~Less(avgAvg[k], x)
               /\ Below(t, count, x) => Less(avgAvg[k], x)
    <2>1. x.n \in Int /\ x.d \in Int /\ x.n > 0 /\ x.d > 0
      BY <1>8 DEF Positive
    <2>2. PICK a : a = avgAvg[k]
      OBVIOUS
    <2>3. a.n = t.n /\ a.d = t.d * count /\ a.d > 0 /\ a.d \in Int /\ a.n \in Int
      BY <1>7, <2>2
    <2>4. /\ Less(x, a) <=> x.n * a.d < a.n * x.d
          /\ Less(a, x) <=> a.n * x.d < x.n * a.d
      BY <2>1, <2>3 DEF Less, IsNaN
    <2>5. x.n * count * t.d = x.n * a.d
      BY <1>5, <1>7, <2>1, <2>3
    <2>6. x.n * a.d \in Int /\ t.n * x.d \in Int
      BY <1>7, <2>1, <2>3
    <2> QED BY <2>2, <2>3, <2>4, <2>5, <2>6 DEF AtMost, AtLeast, Below
  <1>9. /\ ~Less(hi, avgAvg[k])
        /\ InData = Worker => ~Less(avgAvg[k], lo)
        /\ InData # Worker => Less(avgAvg[k], hi)
    BY <1>2, <1>6, <1>8
  <1> QED BY <1>2, <1>9 DEF hi, lo

\* The two loops over maps may take the workers of a set in any order, and the
\* set may have any number of them: the extremes are those of the averages and
\* their mean lies between, unless an average is 0, NaN or infinite.
THEOREM SetSummaryCorrect == Spec => []SetSummaryNeedsNoOrder
  <1>1. Init => AveragesVisited /\ Totals
    <2>1. Init => Totals
      BY DEF Init, Totals, Added
    <2> QED BY <2>1, InitVisits
  <1>2. TypeOK /\ Read /\ AveragesVisited /\ Totals /\ [Next]_vars
          => AveragesVisited' /\ Totals'
    BY StepRead, StepVisits, StepTotals
  <1> QED BY <1>1, <1>2, ReadHolds, TotalsAreBetween, PTL DEF Spec

=============================================================================
