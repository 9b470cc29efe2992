--------------------------- MODULE BurnWait_proofs ---------------------------
(***************************************************************************)
(* Proofs about BurnWait, for every command line, every report interval,   *)
(* any size of work.data and a clock that wraps anywhere.                  *)
(***************************************************************************)
EXTENDS BurnWait, SequenceTheorems, FiniteSetTheorems, WellFoundedInduction, TLAPS

(***************************************************************************)
(* Numbers: a set of them has a least one, and the clock's are numbers.    *)
(***************************************************************************)
LEMMA LeastNat ==
  ASSUME NEW S \in SUBSET Nat, S # {}
  PROVE  Min(S) \in S /\ \A x \in S : Min(S) <= x
<1> DEFINE F == {0 .. k : k \in S}
<1>1. \A k \in S : 0 .. k \in FiniteSubsetsOf(Nat)
  BY FS_Interval DEF FiniteSubsetsOf
<1>2. F \subseteq FiniteSubsetsOf(Nat) /\ F # {}
  BY <1>1
<1>3. PICK I \in F : \A J \in F : ~ (<<J, I>> \in StrictSubsetOrdering(Nat))
  BY <1>2, WFMin, FS_StrictSubsetOrderingWellFounded
<1>4. PICK m \in S : I = 0 .. m
  OBVIOUS
<1>5. ASSUME NEW x \in S PROVE m =< x
  <2>1. CASE x < m
    <3>1. 0 .. x \subseteq 0 .. m /\ 0 .. x # 0 .. m
      BY <2>1
    <3>2. <<0 .. x, 0 .. m>> \in StrictSubsetOrdering(Nat)
      BY <3>1 DEF StrictSubsetOrdering
    <3> QED
      BY <3>2, <1>3, <1>4
  <2> QED
    BY <2>1
<1> QED
  BY <1>5 DEF Min

LEMMA NowIsNat == clock \in Nat => now \in Nat
BY WorkerAssumption DEF now

(***************************************************************************)
(* The sorted list: where insert puts an element, and what the list is     *)
(* afterwards.                                                             *)
(***************************************************************************)
Sorted(q) == \A k, m \in 1 .. Len(q) : k < m => q[k].start <= q[m].start

LEMMA PositionIsBetween ==
  ASSUME NEW q \in Seq(Element), NEW e \in Element
  PROVE  /\ Position(q, e) \in 1 .. Len(q) + 1
         /\ \A k \in 1 .. Len(q) : k < Position(q, e) => q[k].start < e.start
         /\ Position(q, e) <= Len(q) => e.start <= q[Position(q, e)].start
<1> DEFINE S == {k \in DOMAIN q : e.start <= q[k].start} \cup {Len(q) + 1}
<1>1. DOMAIN q = 1 .. Len(q) /\ Len(q) \in Nat /\ e.start \in Nat
      /\ \A k \in 1 .. Len(q) : q[k] \in Element /\ q[k].start \in Nat
  <2>1. DOMAIN q = 1 .. Len(q) /\ Len(q) \in Nat
    BY LenProperties
  <2>2. \A k \in 1 .. Len(q) : q[k] \in Element
    BY ElementOfSeq
  <2>3. \A x \in Element : x.start \in Nat
    BY DEF Element
  <2> QED
    BY <2>1, <2>2, <2>3
<1>2. S \in SUBSET Nat /\ S # {} /\ S \subseteq 1 .. Len(q) + 1
  BY <1>1
<1>3. Position(q, e) = Min(S)
  BY DEF Position
<1>4. Min(S) \in S /\ \A x \in S : Min(S) <= x
  BY <1>2, LeastNat
<1> HIDE DEF S
<1>5. Position(q, e) \in 1 .. Len(q) + 1
  BY <1>2, <1>3, <1>4
<1>6. ASSUME NEW k \in 1 .. Len(q), k < Position(q, e)
      PROVE  q[k].start < e.start
  <2>1. k \notin S
    BY <1>1, <1>2, <1>3, <1>4, <1>5, <1>6
  <2> QED
    BY <2>1, <1>1 DEF S
<1>7. Position(q, e) <= Len(q) => e.start <= q[Position(q, e)].start
  BY <1>1, <1>3, <1>4, <1>5 DEF S
<1> QED
  BY <1>5, <1>6, <1>7

LEMMA InsertAtElements ==
  ASSUME NEW q \in Seq(Element), NEW e \in Element, NEW p \in 1 .. Len(q) + 1
  PROVE  /\ InsertAt(q, p, e) \in Seq(Element)
         /\ Len(InsertAt(q, p, e)) = Len(q) + 1
         /\ \A k \in 1 .. Len(q) + 1 :
              InsertAt(q, p, e)[k] = IF k < p THEN q[k]
                                     ELSE IF k = p THEN e ELSE q[k - 1]
<1> DEFINE a == SubSeq(q, 1, p - 1)
           b == SubSeq(q, p, Len(q))
<1>0. Len(q) \in Nat /\ p \in Int /\ \A k \in 1 .. Len(q) : q[k] \in Element
  BY ElementOfSeq, LenProperties
<1>1. /\ a \in Seq(Element) /\ Len(a) = p - 1
      /\ \A k \in 1 .. p - 1 : a[k] = q[k]
  <2>1. \A k \in 1 .. p - 1 : q[k] \in Element
    BY <1>0
  <2> QED
    BY <2>1, <1>0, SubSeqProperties
<1>2. /\ b \in Seq(Element) /\ Len(b) = Len(q) - p + 1
      /\ \A k \in 1 .. Len(q) - p + 1 : b[k] = q[p + k - 1]
  <2>1. \A k \in p .. Len(q) : q[k] \in Element
    BY <1>0
  <2> QED
    BY <2>1, <1>0, SubSeqProperties
<1>3. <<e>> \in Seq(Element) /\ Len(<<e>>) = 1 /\ <<e>>[1] = e
  OBVIOUS
<1> HIDE DEF a, b
<1>4. /\ a \o <<e>> \in Seq(Element) /\ Len(a \o <<e>>) = p
      /\ \A k \in 1 .. p : (a \o <<e>>)[k] = IF k < p THEN q[k] ELSE e
  <2>1. /\ a \o <<e>> \in Seq(Element)
        /\ Len(a \o <<e>>) = Len(a) + 1
        /\ \A k \in 1 .. Len(a) + 1 :
             (a \o <<e>>)[k] = IF k <= Len(a) THEN a[k] ELSE <<e>>[k - Len(a)]
    BY <1>1, <1>3, ConcatProperties
  <2> QED
    BY <2>1, <1>0, <1>1, <1>3
<1> DEFINE c == a \o <<e>>
<1>5. /\ c \in Seq(Element) /\ Len(c) = p
      /\ \A k \in 1 .. p : c[k] = IF k < p THEN q[k] ELSE e
  BY <1>4
<1>6. InsertAt(q, p, e) = c \o b
  BY DEF InsertAt, a, b
<1> HIDE DEF c
<1>7. /\ c \o b \in Seq(Element)
      /\ Len(c \o b) = Len(c) + Len(b)
      /\ \A k \in 1 .. Len(c) + Len(b) :
           (c \o b)[k] = IF k <= Len(c) THEN c[k] ELSE b[k - Len(c)]
  BY <1>2, <1>5, ConcatProperties
<1>8. Len(c) + Len(b) = Len(q) + 1
  BY <1>0, <1>2, <1>5
<1>9. ASSUME NEW k \in 1 .. Len(q) + 1
      PROVE  (c \o b)[k] = IF k < p THEN q[k] ELSE IF k = p THEN e ELSE q[k - 1]
  <2>1. CASE k <= p
    <3>1. (c \o b)[k] = c[k]
      BY <2>1, <1>5, <1>7, <1>8
    <3> QED
      BY <3>1, <2>1, <1>0, <1>5
  <2>2. CASE k > p
    <3>1. (c \o b)[k] = b[k - p]
      BY <2>2, <1>0, <1>5, <1>7, <1>8
    <3>2. k - p \in 1 .. Len(q) - p + 1 /\ p + (k - p) - 1 = k - 1
      BY <2>2, <1>0
    <3>3. b[k - p] = q[p + (k - p) - 1]
      BY <3>2, <1>2
    <3>4. (c \o b)[k] = q[k - 1]
      BY <3>1, <3>2, <3>3
    <3>5. ~ (k < p) /\ k # p
      BY <2>2, <1>0
    <3> QED
      BY <3>4, <3>5
  <2>3. k <= p \/ k > p
    BY <1>0
  <2> QED
    BY <2>1, <2>2, <2>3
<1> QED
  BY <1>6, <1>7, <1>8, <1>9

Elements(q) == {q[k] : k \in 1 .. Len(q)}

\* Where an element of the list is after the insertion at p.
LEMMA InsertAtOrder ==
  ASSUME NEW q \in Seq(Element), NEW e \in Element, Sorted(q)
  PROVE  /\ Sorted(InsertAt(q, Position(q, e), e))
         /\ Elements(InsertAt(q, Position(q, e), e)) = Elements(q) \cup {e}
<1> DEFINE p == Position(q, e)
           r == InsertAt(q, p, e)
<1>0. /\ Len(q) \in Nat /\ e.start \in Nat
      /\ \A k \in 1 .. Len(q) : q[k].start \in Nat
  <2>1. \A k \in 1 .. Len(q) : q[k] \in Element
    BY ElementOfSeq
  <2>2. \A x \in Element : x.start \in Nat
    BY DEF Element
  <2> QED
    BY <2>1, <2>2, LenProperties
<1>1. /\ p \in 1 .. Len(q) + 1
      /\ \A k \in 1 .. Len(q) : k < p => q[k].start < e.start
      /\ p <= Len(q) => e.start <= q[p].start
  BY PositionIsBetween
<1> HIDE DEF p
<1>2. /\ Len(r) = Len(q) + 1
      /\ \A k \in 1 .. Len(q) + 1 :
           r[k] = IF k < p THEN q[k] ELSE IF k = p THEN e ELSE q[k - 1]
  BY <1>1, InsertAtElements
<1> HIDE DEF r
<1>3. \A k \in 1 .. Len(q) : k >= p => e.start <= q[k].start
  <2> SUFFICES ASSUME NEW k \in 1 .. Len(q), k >= p PROVE e.start <= q[k].start
    OBVIOUS
  <2>1. CASE k = p
    BY <2>1, <1>1
  <2>2. CASE k > p
    <3>1. p \in 1 .. Len(q) /\ p < k
      BY <2>2, <1>0, <1>1
    <3>2. q[p].start <= q[k].start
      BY <3>1 DEF Sorted
    <3> QED
      BY <3>1, <3>2, <1>0, <1>1
  <2> QED
    BY <2>1, <2>2, <1>0, <1>1
<1>4. Sorted(r)
  <2> SUFFICES ASSUME NEW k \in 1 .. Len(q) + 1, NEW m \in 1 .. Len(q) + 1, k < m
               PROVE  r[k].start <= r[m].start
    BY <1>2 DEF Sorted
  <2>1. CASE m < p
    <3>1. r[k] = q[k] /\ r[m] = q[m] /\ k \in 1 .. Len(q) /\ m \in 1 .. Len(q)
      BY <2>1, <1>0, <1>1, <1>2
    <3> QED
      BY <3>1 DEF Sorted
  <2>2. CASE m = p
    <3>1. r[k] = q[k] /\ r[m] = e /\ k \in 1 .. Len(q) /\ k < p
      BY <2>2, <1>0, <1>1, <1>2
    <3> QED
      BY <3>1, <1>0, <1>1
  <2>3. CASE m > p /\ k < p
    <3>1. r[k] = q[k] /\ r[m] = q[m - 1] /\ k \in 1 .. Len(q) /\ m - 1 \in 1 .. Len(q)
          /\ k < p /\ m - 1 >= p
      BY <2>3, <1>0, <1>1, <1>2
    <3>2. q[k].start < e.start /\ e.start <= q[m - 1].start
      BY <3>1, <1>1, <1>3
    <3> QED
      BY <3>1, <3>2, <1>0
  <2>4. CASE m > p /\ k = p
    <3>1. r[k] = e /\ r[m] = q[m - 1] /\ m - 1 \in 1 .. Len(q) /\ m - 1 >= p
      BY <2>4, <1>0, <1>1, <1>2
    <3> QED
      BY <3>1, <1>3
  <2>5. CASE m > p /\ k > p
    <3>1. r[k] = q[k - 1] /\ r[m] = q[m - 1]
          /\ k - 1 \in 1 .. Len(q) /\ m - 1 \in 1 .. Len(q) /\ k - 1 < m - 1
      BY <2>5, <1>0, <1>1, <1>2
    <3> QED
      BY <3>1 DEF Sorted
  <2> QED
    BY <2>1, <2>2, <2>3, <2>4, <2>5, <1>0, <1>1
<1>5. Elements(r) = Elements(q) \cup {e}
  <2>1. ASSUME NEW x \in Elements(r) PROVE x \in Elements(q) \cup {e}
    <3>1. PICK k \in 1 .. Len(q) + 1 : x = r[k]
      BY <1>2 DEF Elements
    <3>2. CASE k < p
      <4>1. x = q[k] /\ k \in 1 .. Len(q)
        BY <3>1, <3>2, <1>0, <1>1, <1>2
      <4> QED
        BY <4>1 DEF Elements
    <3>3. CASE k = p
      BY <3>1, <3>3, <1>0, <1>1, <1>2
    <3>4. CASE k > p
      <4>1. x = q[k - 1] /\ k - 1 \in 1 .. Len(q)
        BY <3>1, <3>4, <1>0, <1>1, <1>2
      <4> QED
        BY <4>1 DEF Elements
    <3> QED
      BY <3>2, <3>3, <3>4, <1>0, <1>1
  <2>2. ASSUME NEW k \in 1 .. Len(q) PROVE q[k] \in Elements(r)
    <3>1. CASE k < p
      <4>1. r[k] = q[k] /\ k \in 1 .. Len(r)
        BY <3>1, <1>0, <1>1, <1>2
      <4> QED
        BY <4>1 DEF Elements
    <3>2. CASE k >= p
      <4>1. k + 1 \in 1 .. Len(r) /\ k + 1 > p /\ (k + 1) - 1 = k
        BY <3>2, <1>0, <1>1, <1>2
      <4>2. r[k + 1] = q[k]
        BY <4>1, <1>0, <1>1, <1>2
      <4> QED
        BY <4>1, <4>2 DEF Elements
    <3> QED
      BY <3>1, <3>2, <1>0, <1>1
  <2>3. e \in Elements(r)
    <3>1. r[p] = e /\ p \in 1 .. Len(r)
      BY <1>0, <1>1, <1>2
    <3> QED
      BY <3>1 DEF Elements
  <2> QED
    BY <2>1, <2>2, <2>3 DEF Elements
<1> QED
  BY <1>4, <1>5 DEF r, p

\* Taking the head off the list.
LEMMA HeadIsEarliest ==
  ASSUME NEW q \in Seq(Element), q # <<>>, Sorted(q)
  PROVE  /\ Head(q) \in Element /\ Tail(q) \in Seq(Element)
         /\ Sorted(Tail(q))
         /\ \A k \in 1 .. Len(q) : Head(q).start <= q[k].start
         /\ Elements(q) = {Head(q)} \cup Elements(Tail(q))
<1>0. /\ Len(q) \in Nat \ {0}
      /\ \A k \in 1 .. Len(q) : q[k].start \in Nat
  <2>1. \A k \in 1 .. Len(q) : q[k] \in Element
    BY ElementOfSeq
  <2>2. \A x \in Element : x.start \in Nat
    BY DEF Element
  <2>3. Len(q) # 0
    BY EmptySeq
  <2> QED
    BY <2>1, <2>2, <2>3, LenProperties
<1>1. /\ Head(q) \in Element /\ Tail(q) \in Seq(Element)
      /\ Len(Tail(q)) = Len(q) - 1
      /\ \A k \in 1 .. Len(q) - 1 : Tail(q)[k] = q[k + 1]
  BY HeadTailProperties
<1>2. Head(q) = q[1]
  BY <1>0
<1>3. Sorted(Tail(q))
  <2> SUFFICES ASSUME NEW k \in 1 .. Len(q) - 1, NEW m \in 1 .. Len(q) - 1, k < m
               PROVE  Tail(q)[k].start <= Tail(q)[m].start
    BY <1>1 DEF Sorted
  <2>1. k + 1 \in 1 .. Len(q) /\ m + 1 \in 1 .. Len(q) /\ k + 1 < m + 1
    BY <1>0
  <2> QED
    BY <2>1, <1>1 DEF Sorted
<1>4. ASSUME NEW k \in 1 .. Len(q) PROVE Head(q).start <= q[k].start
  <2>1. CASE k = 1
    BY <2>1, <1>0, <1>2
  <2>2. CASE 1 < k
    BY <2>2, <1>0, <1>2 DEF Sorted
  <2> QED
    BY <2>1, <2>2, <1>0
<1>5. Elements(q) = {Head(q)} \cup Elements(Tail(q))
  <2>1. ASSUME NEW k \in 1 .. Len(q) PROVE q[k] \in {Head(q)} \cup Elements(Tail(q))
    <3>1. CASE k = 1
      BY <3>1, <1>2
    <3>2. CASE 1 < k
      <4>1. k - 1 \in 1 .. Len(Tail(q)) /\ (k - 1) + 1 = k
        BY <3>2, <1>0, <1>1
      <4>2. Tail(q)[k - 1] = q[k]
        BY <4>1, <1>1
      <4> QED
        BY <4>1, <4>2 DEF Elements
    <3> QED
      BY <3>1, <3>2, <1>0
  <2>2. Head(q) \in Elements(q)
    BY <1>0, <1>2 DEF Elements
  <2>3. ASSUME NEW k \in 1 .. Len(Tail(q)) PROVE Tail(q)[k] \in Elements(q)
    <3>1. k + 1 \in 1 .. Len(q) /\ Tail(q)[k] = q[k + 1]
      BY <1>0, <1>1
    <3> QED
      BY <3>1 DEF Elements
  <2> QED
    BY <2>1, <2>2, <2>3 DEF Elements
<1> QED
  BY <1>1, <1>3, <1>4, <1>5

-----------------------------------------------------------------------------
(***************************************************************************)
(* The types, the order of the list, and that the loop looks at the head   *)
(* of a list that has one.                                                 *)
(***************************************************************************)
TypeInv ==
  /\ TypeOK
  /\ Sorted(queue)
  /\ pc \in {"check", "sleep"} => queue # <<>>

\* Insert queues its element by the clock, keeps the order, and nothing else
\* comes to the list or leaves it.
LEMMA InsertEffect ==
  ASSUME TypeInv, NEW j \in Job, NEW t \in Nat, Insert(j, t)
  PROVE  /\ now + t \in Nat
         /\ queue' \in Seq(Element) /\ Sorted(queue') /\ queue' # <<>>
         /\ Elements(queue') = Elements(queue) \cup {[start |-> now + t, job |-> j]}
<1> DEFINE e == [start |-> now + t, job |-> j]
<1>1. now + t \in Nat /\ queue \in Seq(Element) /\ Sorted(queue)
  <2>1. clock \in Nat /\ queue \in Seq(Element) /\ Sorted(queue)
    BY DEF TypeInv, TypeOK
  <2>2. now \in Nat
    BY <2>1, NowIsNat
  <2> QED
    BY <2>1, <2>2
<1>2. e \in Element
  BY <1>1 DEF Element
<1>3. queue' = InsertAt(queue, Position(queue, e), e)
  BY DEF Insert
<1> HIDE DEF e
<1>4. Sorted(queue') /\ Elements(queue') = Elements(queue) \cup {e}
  BY <1>1, <1>2, <1>3, InsertAtOrder
<1>5. queue' \in Seq(Element) /\ Len(queue') = Len(queue) + 1
  BY <1>1, <1>2, <1>3, PositionIsBetween, InsertAtElements
<1>6. queue' # <<>>
  BY <1>1, <1>5, LenProperties, EmptySeq
<1> QED
  BY <1>1, <1>4, <1>5, <1>6 DEF e

LEMMA InitTypeInv == Init => TypeInv
<1> SUFFICES ASSUME Init PROVE TypeInv
  OBVIOUS
<1>1. queue \in Seq(Element) /\ Sorted(queue)
  <2>1. queue = <<>> /\ Len(queue) = 0
    BY DEF Init
  <2> QED
    BY <2>1 DEF Sorted
<1>2. cur \in Element
  BY DEF Init, Element
<1>3. given \in 0 .. Len(Args) /\ arg \in 0 .. given
  <2>1. Len(Args) \in Nat
    BY WorkerAssumption, LenProperties
  <2> QED
    BY <2>1 DEF Init
<1>4. index \in 0 .. Words /\ mayBegin \in [Job -> Nat]
  BY WorkerAssumption DEF Init
<1>5. reports \in [count : Nat, first : Nat, last : Nat]
  BY DEF Init
<1> QED
  BY <1>1, <1>2, <1>3, <1>4, <1>5 DEF Init, TypeInv, TypeOK

\* What the steps read: jobs of the command line, and numbers.
LEMMA StepFacts ==
  ASSUME TypeInv
  PROVE  /\ now \in Nat /\ Len(Args) \in Nat
         /\ \A k \in 1 .. Len(Args) : Args[k] \in Job
         /\ \A j \in Job : Wait[j] \in Nat /\ Kops[j] * OpsPerKop \in Nat
         /\ Interval \in Nat /\ cur.job \in Job /\ cur.start \in Nat
         /\ clock + 1 \in Nat /\ jitter + 1 \in Nat
         /\ clock > 0 => clock - 1 \in Nat
<1>1. now \in Nat
  BY NowIsNat DEF TypeInv, TypeOK
<1>2. Len(Args) \in Nat /\ \A k \in 1 .. Len(Args) : Args[k] \in Job
  BY WorkerAssumption, LenProperties, ElementOfSeq
<1>3. \A j \in Job : Wait[j] \in Nat /\ Kops[j] \in Nat
  BY WorkerAssumption
<1>4. \A j \in Job : Kops[j] * OpsPerKop \in Nat
  BY <1>3, WorkerAssumption
<1>5. Interval \in Nat
  BY WorkerAssumption
<1>6. cur.job \in Job /\ cur.start \in Nat
  BY DEF TypeInv, TypeOK, Element
<1>7. clock \in Nat /\ jitter \in Nat
  BY DEF TypeInv, TypeOK
<1> QED
  BY <1>1, <1>2, <1>3, <1>4, <1>5, <1>6, <1>7

LEMMA IndexStaysInRange ==
  ASSUME NEW i \in 0 .. Words, NEW ops \in Nat
  PROVE  IndexAfter(i, ops) \in 0 .. Words
<1>1. Words \in Nat \ {0}
  BY WorkerAssumption
<1>2. CASE ops = 0
  BY <1>2 DEF IndexAfter
<1>3. CASE ops > 0
  <2>1. i + ops - 1 \in Nat
    BY <1>1, <1>3
  <2>2. (i + ops - 1) % Words \in 0 .. Words - 1
    BY <1>1, <2>1
  <2>3. ((i + ops - 1) % Words) + 1 \in 0 .. Words
    BY <1>1, <2>2
  <2> QED
    BY <2>3, <1>3 DEF IndexAfter
<1> QED
  BY <1>2, <1>3

LEMMA NextTypeInv == TypeInv /\ [Next]_vars => TypeInv'
<1> SUFFICES ASSUME TypeInv, [Next]_vars PROVE TypeInv'
  OBVIOUS
<1> USE DEF machine, local, work, history
<1>1. CASE BurnwaitArgument
  <2>1. arg + 1 \in 1 .. Len(Args) /\ arg + 1 \in 0 .. given
    BY <1>1, StepFacts DEF BurnwaitArgument, TypeInv, TypeOK
  <2>2. Args[arg + 1] \in Job
    BY <2>1, StepFacts
  <2>3. queue' \in Seq(Element) /\ Sorted(queue') /\ queue' # <<>>
    BY <1>1, <2>2, InsertEffect DEF BurnwaitArgument
  <2> QED
    BY <1>1, <2>1, <2>3 DEF BurnwaitArgument, TypeInv, TypeOK
<1>2. CASE BeginLoop
  BY <1>2 DEF BeginLoop, TypeInv, TypeOK
<1>3. CASE LoopHead
  <2>1. /\ n' \in Nat /\ maxDelta' \in Nat /\ nextReport' \in Nat
        /\ reports' \in [count : Nat, first : Nat, last : Nat]
    <3>1. CASE ReportDue(now)
      <4>1. /\ now \in Nat /\ Interval \in Nat /\ nextReport \in Nat
            /\ reports.count \in Nat /\ reports.first \in Nat
        BY StepFacts DEF TypeInv, TypeOK
      <4>2. n' = now /\ Report(now)
        BY <1>3, <3>1 DEF LoopHead
      <4>3. nextReport' \in Nat /\ maxDelta' \in Nat
        BY <4>1, <4>2 DEF Report
      <4>4. reports' \in [count : Nat, first : Nat, last : Nat]
        BY <4>1, <4>2 DEF Report
      <4> QED
        BY <4>1, <4>2, <4>3, <4>4
    <3>2. CASE ~ ReportDue(now)
      BY <1>3, <3>2, StepFacts DEF LoopHead, TypeInv, TypeOK
    <3> QED
      BY <3>1, <3>2
  <2> QED
    BY <1>3, <2>1 DEF LoopHead, TypeInv, TypeOK
<1>4. CASE LoopEnds
  BY <1>4 DEF LoopEnds, TypeInv, TypeOK
<1>5. CASE Sleep
  <2>1. Head(queue).start \in Nat
    BY <1>5, HeadIsEarliest DEF Sleep, TypeInv, TypeOK, Element
  <2>2. wake' \in Nat
    BY <1>5, <2>1 DEF Sleep, TypeInv, TypeOK
  <2> QED
    BY <1>5, <2>2 DEF Sleep, TypeInv, TypeOK
<1>6. CASE Wake
  BY <1>6, StepFacts DEF Wake, TypeInv, TypeOK
<1>7. CASE Dispatch
  <2>1. /\ Head(queue) \in Element /\ Tail(queue) \in Seq(Element)
        /\ Sorted(Tail(queue)) /\ Head(queue).start \in Nat
    BY <1>7, HeadIsEarliest DEF Dispatch, TypeInv, TypeOK, Element
  <2>2. Lateness \in Nat
    <3>1. Head(queue).start <= n /\ n \in Nat
      BY <1>7 DEF Dispatch, TypeInv, TypeOK
    <3> QED
      BY <3>1, <2>1 DEF Lateness
  <2>3. Max({maxDelta, Lateness}) \in Nat
    <3>1. maxDelta \in Nat
      BY DEF TypeInv, TypeOK
    <3>2. \E x \in {maxDelta, Lateness} : \A y \in {maxDelta, Lateness} : x >= y
      BY <3>1, <2>2
    <3> QED
      BY <3>1, <3>2, <2>2 DEF Max
  <2>4. maxDelta' \in Nat /\ cur' = Head(queue) /\ queue' = Tail(queue) /\ pc' = "work"
    BY <1>7, <2>3 DEF Dispatch
  <2> QED
    BY <1>7, <2>1, <2>4 DEF Dispatch, TypeInv, TypeOK
<1>8. CASE Work
  <2> DEFINE ops == Kops[cur.job] * OpsPerKop
  <2>2. CASE pc' = "head" /\ index' = IndexAfter(index, ops)
             /\ Insert(cur.job, Wait[cur.job])
             /\ mayBegin' = [mayBegin EXCEPT ![cur.job] = now + Wait[cur.job]]
    <3>1. cur.job \in Job /\ Wait[cur.job] \in Nat /\ ops \in Nat
      BY StepFacts
    <3>2. now + Wait[cur.job] \in Nat /\ queue' \in Seq(Element) /\ Sorted(queue')
      BY <2>2, <3>1, InsertEffect
    <3>3. index' \in 0 .. Words
      BY <2>2, <3>1, IndexStaysInRange DEF TypeInv, TypeOK
    <3>4. mayBegin' \in [Job -> Nat]
      BY <2>2, <3>2 DEF TypeInv, TypeOK
    <3> QED
      BY <1>8, <2>2, <3>2, <3>3, <3>4 DEF Work, TypeInv, TypeOK
  <2>3. CASE pc' = "faulted" /\ UNCHANGED <<index, queue, mayBegin>>
    BY <1>8, <2>3 DEF Work, TypeInv, TypeOK
  <2> QED
    BY <1>8, <2>2, <2>3 DEF Work
<1>9. CASE Tick
  BY <1>9, StepFacts DEF Tick, TypeInv, TypeOK
<1>10. CASE StepBack
  BY <1>10, StepFacts DEF StepBack, TypeInv, TypeOK
<1>11. CASE UNCHANGED vars
  BY <1>11 DEF vars, TypeInv, TypeOK
<1> QED
  BY <1>1, <1>2, <1>3, <1>4, <1>5, <1>6, <1>7, <1>8, <1>9, <1>10, <1>11 DEF Next

\* Every variable has its type, for every command line.
THEOREM TypeCorrect == Spec => []TypeOK
<1>1. TypeInv => TypeOK
  BY DEF TypeInv
<1> QED
  BY <1>1, InitTypeInv, NextTypeInv, PTL DEF Spec

LEMMA TypeInvHolds == Spec => []TypeInv
BY InitTypeInv, NextTypeInv, PTL DEF Spec

(***************************************************************************)
(* The loop.                                                               *)
(***************************************************************************)

\* The head of the list that the loop takes was due no later than every other
\* job on it: the list is sorted whatever was inserted when.
THEOREM EarliestIsTaken == Spec => EarliestFirst
<1>1. TypeInv /\ [Next]_vars
        => [\A k \in DOMAIN queue : pc = "check" /\ pc' = "work" =>
              cur'.start <= queue[k].start]_vars
  <2> SUFFICES ASSUME TypeInv, Next, NEW k \in DOMAIN queue,
                      pc = "check", pc' = "work"
               PROVE  cur'.start <= queue[k].start
    BY DEF vars
  <2>1. Dispatch /\ cur' = Head(queue)
    BY DEF Next, BurnwaitArgument, BeginLoop, LoopHead, LoopEnds, Sleep, Wake,
           Dispatch, Work, Tick, StepBack
  <2>2. queue \in Seq(Element) /\ queue # <<>> /\ Sorted(queue)
    BY DEF TypeInv, TypeOK
  <2>3. DOMAIN queue = 1 .. Len(queue)
    BY <2>2, LenProperties
  <2> QED
    BY <2>1, <2>2, <2>3, HeadIsEarliest
<1> QED
  BY <1>1, TypeInvHolds, PTL DEF Spec, EarliestFirst

-----------------------------------------------------------------------------
(***************************************************************************)
(* The jobs on the list.                                                   *)
(***************************************************************************)
Distinct(q) == \A k, m \in 1 .. Len(q) : q[k].job = q[m].job => k = m
JobsOf(q)   == {q[k].job : k \in 1 .. Len(q)}

LEMMA JobsOfElements ==
  ASSUME NEW q PROVE JobsOf(q) = {x.job : x \in Elements(q)}
BY DEF JobsOf, Elements

LEMMA InsertAtDistinct ==
  ASSUME NEW q \in Seq(Element), NEW e \in Element, Distinct(q), e.job \notin JobsOf(q)
  PROVE  Distinct(InsertAt(q, Position(q, e), e))
<1> DEFINE p == Position(q, e)
           r == InsertAt(q, p, e)
           From(k) == IF k < p THEN k ELSE k - 1
<1>0. Len(q) \in Nat
  BY LenProperties
<1>1. p \in 1 .. Len(q) + 1
  BY PositionIsBetween
<1> HIDE DEF p
<1>2. /\ Len(r) = Len(q) + 1
      /\ \A k \in 1 .. Len(q) + 1 :
           r[k] = IF k < p THEN q[k] ELSE IF k = p THEN e ELSE q[k - 1]
  BY <1>1, InsertAtElements
<1> HIDE DEF r
<1>3. ASSUME NEW k \in 1 .. Len(q) + 1, k # p
      PROVE  From(k) \in 1 .. Len(q) /\ r[k] = q[From(k)]
  <2>1. CASE k < p
    BY <2>1, <1>0, <1>1, <1>2
  <2>2. CASE k > p
    BY <2>2, <1>0, <1>1, <1>2
  <2> QED
    BY <2>1, <2>2, <1>3, <1>0, <1>1
<1>4. r[p] = e
  BY <1>0, <1>1, <1>2
<1> SUFFICES ASSUME NEW k \in 1 .. Len(q) + 1, NEW m \in 1 .. Len(q) + 1, k < m
             PROVE  r[k].job # r[m].job
  BY <1>0, <1>2 DEF Distinct, r, p
<1>5. CASE k = p
  <2>1. m # p
    BY <1>5, <1>0
  <2>2. From(m) \in 1 .. Len(q) /\ r[m] = q[From(m)]
    BY <2>1, <1>3
  <2> HIDE DEF From
  <2> QED
    BY <2>2, <1>4, <1>5 DEF JobsOf
<1>6. CASE m = p
  <2>1. k # p
    BY <1>6, <1>0
  <2>2. From(k) \in 1 .. Len(q) /\ r[k] = q[From(k)]
    BY <2>1, <1>3
  <2> HIDE DEF From
  <2> QED
    BY <2>2, <1>4, <1>6 DEF JobsOf
<1>7. CASE k # p /\ m # p
  <2>1. /\ From(k) \in 1 .. Len(q) /\ r[k] = q[From(k)]
        /\ From(m) \in 1 .. Len(q) /\ r[m] = q[From(m)]
    BY <1>3, <1>7
  <2>2. From(k) # From(m)
    BY <1>0, <1>1, <1>7
  <2> HIDE DEF From
  <2> QED
    BY <2>1, <2>2 DEF Distinct
<1> QED
  BY <1>5, <1>6, <1>7

LEMMA TailDistinct ==
  ASSUME NEW q \in Seq(Element), q # <<>>, Distinct(q)
  PROVE  /\ Distinct(Tail(q))
         /\ JobsOf(q) = {Head(q).job} \cup JobsOf(Tail(q))
         /\ Head(q).job \notin JobsOf(Tail(q))
<1>0. Len(q) \in Nat \ {0}
  BY EmptySeq, LenProperties
<1>1. /\ Tail(q) \in Seq(Element) /\ Len(Tail(q)) = Len(q) - 1
      /\ \A k \in 1 .. Len(q) - 1 : Tail(q)[k] = q[k + 1]
  BY HeadTailProperties
<1>2. Head(q) = q[1] /\ 1 \in 1 .. Len(q)
  BY <1>0
<1>3. Distinct(Tail(q))
  <2> SUFFICES ASSUME NEW k \in 1 .. Len(q) - 1, NEW m \in 1 .. Len(q) - 1,
                      Tail(q)[k].job = Tail(q)[m].job
               PROVE  k = m
    BY <1>1 DEF Distinct
  <2>1. k + 1 \in 1 .. Len(q) /\ m + 1 \in 1 .. Len(q)
    BY <1>0
  <2>2. k + 1 = m + 1
    BY <2>1, <1>1 DEF Distinct
  <2> QED
    BY <2>2, <1>0
<1>4. ASSUME NEW k \in 1 .. Len(q) - 1
      PROVE  Tail(q)[k].job \in JobsOf(q) /\ Tail(q)[k].job # Head(q).job
  <2>1. k + 1 \in 1 .. Len(q) /\ k + 1 # 1 /\ Tail(q)[k] = q[k + 1]
    BY <1>0, <1>1
  <2> QED
    BY <2>1, <1>2 DEF Distinct, JobsOf
<1>5. ASSUME NEW k \in 1 .. Len(q), k # 1
      PROVE  q[k].job \in JobsOf(Tail(q))
  <2>1. k - 1 \in 1 .. Len(q) - 1 /\ (k - 1) + 1 = k
    BY <1>0, <1>5
  <2>2. Tail(q)[k - 1] = q[k]
    BY <2>1, <1>1
  <2> QED
    BY <2>1, <2>2, <1>1 DEF JobsOf
<1>6. JobsOf(q) \subseteq {Head(q).job} \cup JobsOf(Tail(q))
  BY <1>2, <1>5 DEF JobsOf
<1>7. Head(q).job \in JobsOf(q)
  BY <1>2 DEF JobsOf
<1>8. JobsOf(Tail(q)) \subseteq JobsOf(q) \ {Head(q).job}
  BY <1>1, <1>4 DEF JobsOf
<1> QED
  BY <1>3, <1>6, <1>7, <1>8

\* JobsConserved, in the words of the lemmas above.
Working == pc \in {"work", "faulted"}
JobInv ==
  /\ Distinct(queue)
  /\ Working => cur.job \notin JobsOf(queue)
  /\ JobsOf(queue) \cup (IF Working THEN {cur.job} ELSE {}) = {Args[k] : k \in 1 .. arg}

LEMMA JobInvIsJobsConserved == TypeInv => (JobInv <=> JobsConserved)
<1> SUFFICES ASSUME TypeInv PROVE JobInv <=> JobsConserved
  OBVIOUS
<1>1. DOMAIN queue = 1 .. Len(queue)
  BY LenProperties DEF TypeInv, TypeOK
<1>2. CASE Working
  BY <1>1, <1>2 DEF JobInv, JobsConserved, Working, Distinct, JobsOf
<1>3. CASE ~ Working
  BY <1>1, <1>3 DEF JobInv, JobsConserved, Working, Distinct, JobsOf
<1> QED
  BY <1>2, <1>3

LEMMA InsertJobs ==
  ASSUME TypeInv, NEW j \in Job, NEW t \in Nat, Insert(j, t),
         Distinct(queue), j \notin JobsOf(queue)
  PROVE  Distinct(queue') /\ JobsOf(queue') = JobsOf(queue) \cup {j}
<1> DEFINE e == [start |-> now + t, job |-> j]
<1>1. now + t \in Nat /\ Elements(queue') = Elements(queue) \cup {e}
  BY InsertEffect
<1>2. e \in Element /\ e.job = j /\ queue \in Seq(Element)
  BY <1>1 DEF Element, TypeInv, TypeOK
<1>3. queue' = InsertAt(queue, Position(queue, e), e)
  BY DEF Insert
<1> HIDE DEF e
<1>4. Distinct(queue')
  BY <1>2, <1>3, InsertAtDistinct
<1>5. JobsOf(queue) = {x.job : x \in Elements(queue)}
      /\ JobsOf(queue') = {x.job : x \in Elements(queue')}
  BY JobsOfElements
<1>6. JobsOf(queue') = JobsOf(queue) \cup {j}
  BY <1>1, <1>2, <1>5
<1> QED
  BY <1>4, <1>6

\* No job is lost by the list surgery, and none is there twice.
THEOREM JobsAreConserved == Spec => []JobsConserved
<1>1. Init => JobInv
  <2> SUFFICES ASSUME Init PROVE JobInv
    OBVIOUS
  <2>1. Len(queue) = 0 /\ queue = <<>> /\ arg = 0 /\ ~ Working
    BY DEF Init, Working
  <2> QED
    BY <2>1 DEF JobInv, Distinct, JobsOf
<1>2. TypeInv /\ JobInv /\ [Next]_vars => JobInv'
  <2> SUFFICES ASSUME TypeInv, JobInv, [Next]_vars PROVE JobInv'
    OBVIOUS
  <2>0. queue \in Seq(Element) /\ arg \in 0 .. given /\ given \in 0 .. Len(Args)
        /\ Len(Args) \in Nat
    BY StepFacts DEF TypeInv, TypeOK
  <2>1. CASE BurnwaitArgument
    <3> DEFINE j == Args[arg + 1]
    <3>1. /\ arg + 1 \in 1 .. Len(Args) /\ arg' = arg + 1 /\ Insert(j, 0)
          /\ ~ Working /\ ~ Working'
      BY <2>0, <2>1 DEF BurnwaitArgument, Working
    <3>2. JobsOf(queue) = {Args[k] : k \in 1 .. arg}
      BY <3>1 DEF JobInv
    <3>3. \A k \in 1 .. arg : Args[k] # Args[arg + 1]
      <4>1. DOMAIN Args = 1 .. Len(Args)
        BY WorkerAssumption, LenProperties
      <4>2. \A k \in 1 .. arg : k \in 1 .. Len(Args) /\ k # arg + 1
        BY <2>0
      <4> QED
        BY <4>1, <4>2, <3>1, WorkerAssumption DEF IsInjective
    <3>4. j \in Job /\ j \notin JobsOf(queue)
      BY <3>1, <3>2, <3>3, StepFacts
    <3>5. Distinct(queue') /\ JobsOf(queue') = JobsOf(queue) \cup {j}
      BY <3>1, <3>4, InsertJobs DEF JobInv
    <3>6. {Args[k] : k \in 1 .. arg + 1} = {Args[k] : k \in 1 .. arg} \cup {j}
      <4>1. 1 .. arg + 1 = (1 .. arg) \cup {arg + 1}
        BY <2>0
      <4> QED
        BY <4>1
    <3> QED
      BY <3>1, <3>2, <3>5, <3>6 DEF JobInv
  <2>2. CASE Dispatch
    <3>1. queue # <<>>
      BY <2>2 DEF Dispatch, TypeInv, TypeOK
    <3>4. /\ cur' = Head(queue) /\ queue' = Tail(queue) /\ arg' = arg
          /\ ~ Working /\ Working'
      BY <2>2 DEF Dispatch, Working
    <3>5. /\ Distinct(Tail(queue))
          /\ JobsOf(queue) = {Head(queue).job} \cup JobsOf(Tail(queue))
          /\ Head(queue).job \notin JobsOf(Tail(queue))
      BY <2>0, <3>1, TailDistinct DEF JobInv
    <3> QED
      BY <3>4, <3>5 DEF JobInv
  <2>3. CASE Work /\ pc' = "head"
    <3>1. /\ Insert(cur.job, Wait[cur.job]) /\ arg' = arg /\ cur' = cur
          /\ Working /\ ~ Working'
      BY <2>3 DEF Work, Working, local
    <3>2. cur.job \in Job /\ Wait[cur.job] \in Nat
      BY StepFacts
    <3>3. Distinct(queue') /\ JobsOf(queue') = JobsOf(queue) \cup {cur.job}
      BY <3>1, <3>2, InsertJobs DEF JobInv
    <3> QED
      BY <3>1, <3>3 DEF JobInv
  <2>4. CASE Work /\ pc' # "head"
    <3>1. UNCHANGED <<queue, arg, cur>> /\ Working /\ Working'
      BY <2>4 DEF Work, Working, local
    <3> QED
      BY <3>1 DEF JobInv, Distinct, JobsOf
  <2>5. CASE \/ BeginLoop \/ LoopHead \/ LoopEnds \/ Sleep \/ Wake \/ Tick \/ StepBack
             \/ UNCHANGED vars
    <3>1. UNCHANGED <<queue, arg, cur>>
      BY <2>5 DEF BeginLoop, LoopHead, LoopEnds, Sleep, Wake, Tick, StepBack, vars, local
    <3>2. pc' = pc \/ (~ Working /\ ~ Working')
      BY <2>5 DEF BeginLoop, LoopHead, LoopEnds, Sleep, Wake, Tick, StepBack, vars, Working
    <3>3. Working' <=> Working
      BY <3>2 DEF Working
    <3> QED
      BY <3>1, <3>3 DEF JobInv, Distinct, JobsOf
  <2> QED
    BY <2>1, <2>2, <2>3, <2>4, <2>5 DEF Next
<1>3. TypeInv /\ JobInv => JobsConserved
  BY JobInvIsJobsConserved
<1> QED
  BY <1>1, <1>2, <1>3, TypeInvHolds, PTL DEF Spec

LEMMA JobInvHolds == Spec => []JobInv
<1>1. TypeInv /\ JobsConserved => JobInv
  BY JobInvIsJobsConserved
<1> QED
  BY <1>1, TypeInvHolds, JobsAreConserved, PTL

-----------------------------------------------------------------------------
(***************************************************************************)
(* The waits.                                                              *)
(***************************************************************************)
WaitInv ==
  /\ \A x \in Elements(queue) : mayBegin[x.job] <= x.start
  /\ pc = "args" => \A j \in Job : mayBegin[j] = 0
  /\ WaitsAtLeast

\* Between the end of a job and its next beginning its wait passes on the
\* worker's clock: the other jobs, the preemption before nanosleep and the
\* steps back of the clock may only make it longer.
THEOREM WaitsAreKept == Spec => []WaitsAtLeast
<1>1. Init => WaitInv
  <2> SUFFICES ASSUME Init PROVE WaitInv
    OBVIOUS
  <2>1. Elements(queue) = {} /\ pc = "args" /\ \A j \in Job : mayBegin[j] = 0
    BY DEF Init, Elements
  <2> QED
    BY <2>1 DEF WaitInv, WaitsAtLeast
<1>2. TypeInv /\ JobInv /\ WaitInv /\ [Next]_vars => WaitInv'
  <2> SUFFICES ASSUME TypeInv, JobInv, WaitInv, [Next]_vars PROVE WaitInv'
    OBVIOUS
  <2>0. /\ queue \in Seq(Element) /\ mayBegin \in [Job -> Nat] /\ n \in Nat
        /\ now \in Nat /\ cur.job \in Job /\ Wait[cur.job] \in Nat
        /\ \A x \in Elements(queue) : x.job \in Job /\ x.start \in Nat
    <3>1. queue \in Seq(Element) /\ mayBegin \in [Job -> Nat] /\ n \in Nat
      BY DEF TypeInv, TypeOK
    <3>2. Elements(queue) \subseteq Element
      BY <3>1, ElementOfSeq DEF Elements
    <3>3. \A x \in Element : x.job \in Job /\ x.start \in Nat
      BY DEF Element
    <3> QED
      BY <3>1, <3>2, <3>3, StepFacts
  <2>1. CASE BurnwaitArgument
    <3> DEFINE j == Args[arg + 1]
               e == [start |-> now + 0, job |-> j]
    <3>1. /\ Insert(j, 0) /\ pc = "args" /\ pc' = "args" /\ mayBegin' = mayBegin
          /\ arg + 1 \in 1 .. Len(Args)
      BY <2>1, StepFacts DEF BurnwaitArgument, TypeInv, TypeOK, history
    <3>2. j \in Job
      BY <3>1, StepFacts
    <3>3. Elements(queue') = Elements(queue) \cup {e}
      BY <3>1, <3>2, InsertEffect
    <3>4. mayBegin[e.job] <= e.start
      BY <3>1, <3>2, <2>0 DEF WaitInv
    <3> HIDE DEF e, j
    <3>5. \A x \in Elements(queue') : mayBegin'[x.job] <= x.start
      BY <3>1, <3>3, <3>4 DEF WaitInv
    <3> QED
      BY <3>1, <3>5 DEF WaitInv, WaitsAtLeast
  <2>2. CASE Dispatch
    <3>1. /\ Head(queue).start <= n /\ n' = n /\ queue # <<>> /\ mayBegin' = mayBegin
          /\ Sorted(queue)
      BY <2>2 DEF Dispatch, TypeInv, TypeOK, history
    <3>2. Head(queue).job \in Job /\ Head(queue).start \in Nat
          /\ Elements(queue) = {Head(queue)} \cup Elements(Tail(queue))
      BY <2>0, <3>1, HeadIsEarliest DEF Element
    <3>4. cur' = Head(queue) /\ queue' = Tail(queue) /\ pc' = "work"
      BY <2>2 DEF Dispatch
    <3>5. mayBegin[Head(queue).job] <= Head(queue).start
      BY <3>2 DEF WaitInv
    <3>6. n' >= mayBegin'[cur'.job]
      BY <3>1, <3>2, <3>4, <3>5, <2>0
    <3> QED
      BY <3>1, <3>2, <3>4, <3>6 DEF WaitInv, WaitsAtLeast
  <2>3. CASE Work /\ pc' = "head"
    <3> DEFINE e == [start |-> now + Wait[cur.job], job |-> cur.job]
    <3>1. /\ Insert(cur.job, Wait[cur.job]) /\ pc = "work"
          /\ mayBegin' = [mayBegin EXCEPT ![cur.job] = now + Wait[cur.job]]
      BY <2>3 DEF Work
    <3>2. Elements(queue') = Elements(queue) \cup {e} /\ now + Wait[cur.job] \in Nat
      BY <3>1, <2>0, InsertEffect
    <3>3. \A x \in Elements(queue) : x.job # cur.job
      BY <3>1, JobsOfElements DEF JobInv, Working
    <3>4. mayBegin'[e.job] <= e.start
      BY <3>1, <3>2, <2>0
    <3>5. \A x \in Elements(queue) : mayBegin'[x.job] <= x.start
      BY <3>1, <3>3, <2>0 DEF WaitInv
    <3> HIDE DEF e
    <3>6. \A x \in Elements(queue') : mayBegin'[x.job] <= x.start
      BY <3>2, <3>4, <3>5
    <3> QED
      BY <2>3, <3>6 DEF WaitInv, WaitsAtLeast
  <2>4. CASE Work /\ pc' # "head"
    BY <2>4 DEF Work, WaitInv, WaitsAtLeast, Elements
  <2>5. CASE \/ BeginLoop \/ LoopHead \/ LoopEnds \/ Sleep \/ Wake
    <3>1. UNCHANGED <<queue, mayBegin>> /\ pc' # "work" /\ pc' # "args"
      BY <2>5 DEF BeginLoop, LoopHead, LoopEnds, Sleep, Wake, history
    <3> QED
      BY <3>1 DEF WaitInv, WaitsAtLeast, Elements
  <2>6. CASE Tick \/ StepBack \/ UNCHANGED vars
    <3>1. UNCHANGED <<queue, mayBegin, pc, cur, n>>
      BY <2>6 DEF Tick, StepBack, vars, local, history
    <3> QED
      BY <3>1 DEF WaitInv, WaitsAtLeast, Elements
  <2> QED
    BY <2>1, <2>2, <2>3, <2>4, <2>5, <2>6 DEF Next
<1>3. WaitInv => WaitsAtLeast
  BY DEF WaitInv
<1> QED
  BY <1>1, <1>2, <1>3, TypeInvHolds, JobInvHolds, PTL DEF Spec

-----------------------------------------------------------------------------
(***************************************************************************)
(* The reports.                                                            *)
(***************************************************************************)
ReportInv ==
  /\ reports.count = 0 => nextReport = 0
  /\ reports.count > 0 => nextReport = reports.first + reports.count * Interval
                          /\ nextReport > 0
  /\ ReportsKeepSchedule

\* However late reports come and however many follow at once to catch up, the
\* worker never gets ahead of one report in every interval since the first.
THEOREM ReportsOnSchedule == ASSUME Interval > 0 PROVE Spec => []ReportsKeepSchedule
<1>1. Init => ReportInv
  BY DEF Init, ReportInv, ReportsKeepSchedule
<1>2. TypeInv /\ ReportInv /\ [Next]_vars => ReportInv'
  <2> SUFFICES ASSUME TypeInv, ReportInv, [Next]_vars PROVE ReportInv'
    OBVIOUS
  <2> DEFINE c == reports.count
             f == reports.first
  <2>0. /\ now \in Nat /\ Interval \in Nat /\ nextReport \in Nat
        /\ c \in Nat /\ f \in Nat
    BY StepFacts DEF TypeInv, TypeOK
  <2>1. CASE LoopHead /\ ReportDue(now)
    <3>1. /\ nextReport' = (IF nextReport = 0 THEN now ELSE nextReport) + Interval
          /\ reports' = [count |-> c + 1, first |-> IF c = 0 THEN now ELSE f, last |-> now]
      BY <2>1 DEF LoopHead, Report
    <3>2. reports'.count = c + 1 /\ reports'.last = now
          /\ reports'.first = IF c = 0 THEN now ELSE f
      BY <3>1
    <3>3. CASE c = 0
      <4>1. nextReport' = now + Interval /\ reports'.count = 1 /\ reports'.first = now
        BY <3>1, <3>2, <3>3 DEF ReportInv
      <4> QED
        BY <4>1, <2>0 DEF ReportInv, ReportsKeepSchedule
    <3>4. CASE c > 0
      <4>1. nextReport = f + c * Interval /\ nextReport > 0
        BY <3>4 DEF ReportInv
      <4>2. now > nextReport
        BY <2>0, <2>1, <4>1 DEF ReportDue
      <4>3. nextReport' = nextReport + Interval /\ reports'.first = f
        BY <2>0, <3>1, <3>2, <3>4, <4>1
      <4>4. (c + 1) * Interval = c * Interval + Interval /\ (c + 1) - 1 = c
        BY <2>0
      <4>5. nextReport' = f + (c + 1) * Interval /\ nextReport' > 0
        <5>1. c * Interval \in Nat
          BY <2>0
        <5> QED
          BY <5>1, <2>0, <4>1, <4>3, <4>4
      <4>6. now > f + ((c + 1) - 1) * Interval
        BY <4>1, <4>2, <4>4
      <4> HIDE DEF c, f
      <4>7. ReportsKeepSchedule'
        BY <4>3, <4>6, <3>2 DEF ReportsKeepSchedule
      <4>8. reports'.count > 0
        BY <3>2, <2>0
      <4> QED
        BY <2>0, <3>2, <4>3, <4>5, <4>7, <4>8 DEF ReportInv
    <3> QED
      BY <2>0, <3>3, <3>4
  <2>2. CASE UNCHANGED <<reports, nextReport>>
    BY <2>2 DEF ReportInv, ReportsKeepSchedule
  <2>3. (LoopHead /\ ReportDue(now)) \/ UNCHANGED <<reports, nextReport>>
    BY DEF Next, BurnwaitArgument, BeginLoop, LoopHead, LoopEnds, Sleep, Wake,
           Dispatch, Work, Tick, StepBack, vars, work, history
  <2> QED
    BY <2>1, <2>2, <2>3
<1>3. ReportInv => ReportsKeepSchedule
  BY DEF ReportInv
<1> QED
  BY <1>1, <1>2, <1>3, TypeInvHolds, PTL DEF Spec

-----------------------------------------------------------------------------
(***************************************************************************)
(* The sleeps, as long as now() has not come to the end of its range.      *)
(***************************************************************************)
SleepInv ==
  /\ clock <= MaxTime
  /\ \A x \in Elements(queue) : x.start <= clock + Wait[x.job] + jitter
  /\ pc = "check" => \A x \in Elements(queue) : x.start <= n + Wait[x.job] + jitter
  /\ SleepIsBounded

\* A time to sleep as the clock goes on or steps back.
LEMMA LaterIsShorter ==
  ASSUME NEW w \in Nat, NEW t \in Nat, NEW c \in Nat, NEW cc \in Nat,
         NEW j \in Nat, NEW jj \in Nat,
         t - c <= w + j, cc + jj >= c + j
  PROVE  t - cc <= w + jj
OBVIOUS

\* A bound on a start as the clock goes on or steps back.
LEMMA LaterIsEnough ==
  ASSUME NEW s \in Nat, NEW w \in Nat, NEW c \in Nat, NEW cc \in Nat,
         NEW j \in Nat, NEW jj \in Nat,
         s <= c + w + j, cc + jj >= c + j
  PROVE  s <= cc + w + jj
OBVIOUS

\* The same bound at a fixed time, when only the steps back grow.
LEMMA MoreJitterIsEnough ==
  ASSUME NEW s \in Nat, NEW w \in Nat, NEW c \in Nat,
         NEW j \in Nat, NEW jj \in Nat,
         s <= c + w + j, jj >= j
  PROVE  s <= c + w + jj
OBVIOUS

LEMMA TimeToSleep ==
  ASSUME NEW c \in Nat, NEW s \in Nat, NEW m \in Nat, NEW w \in Nat, NEW j \in Nat, NEW v,
         v = c + (s - m), s <= m + w + j
  PROVE  v - c <= w + j
OBVIOUS

\* Before now() wraps, the worker sleeps no longer than the wait of the job it
\* sleeps for, and what the clock has stepped back.
THEOREM SleepsAreBounded == ASSUME MaxTime < Wrap PROVE Spec => []SleepIsBounded
<1>0. MaxTime \in Nat /\ Wrap \in Nat \ {0}
  BY WorkerAssumption
<1>1. Init => SleepInv
  <2> SUFFICES ASSUME Init PROVE SleepInv
    OBVIOUS
  <2>1. Elements(queue) = {} /\ pc = "args" /\ clock = 0
    BY DEF Init, Elements
  <2> QED
    BY <1>0, <2>1 DEF SleepInv, SleepIsBounded
<1>2. TypeInv /\ SleepInv /\ [Next]_vars => SleepInv'
  <2> SUFFICES ASSUME TypeInv, SleepInv, [Next]_vars PROVE SleepInv'
    OBVIOUS
  <2>0. /\ clock \in Nat /\ jitter \in Nat /\ n \in Nat /\ cur.job \in Job
        /\ queue \in Seq(Element)
        /\ \A x \in Elements(queue) : x.start \in Nat /\ x.job \in Job /\ Wait[x.job] \in Nat
    <3>1. queue \in Seq(Element) /\ clock \in Nat /\ jitter \in Nat /\ n \in Nat
      BY DEF TypeInv, TypeOK
    <3>2. Elements(queue) \subseteq Element
      BY <3>1, ElementOfSeq DEF Elements
    <3>3. \A x \in Element : x.job \in Job /\ x.start \in Nat
      BY DEF Element
    <3> QED
      BY <3>1, <3>2, <3>3, StepFacts
  <2>1. now = clock
    <3>1. clock < Wrap
      BY <1>0, <2>0 DEF SleepInv
    <3> QED
      BY <1>0, <2>0, <3>1 DEF now
  <2>2. ASSUME NEW j \in Job, NEW t \in 0 .. Wait[j], Insert(j, t), UNCHANGED <<clock, jitter>>,
               pc' \notin {"check", "sleep"}
        PROVE  SleepInv'
    <3> DEFINE e == [start |-> now + t, job |-> j]
    <3>1. Wait[j] \in Nat /\ t \in Nat
      BY StepFacts
    <3>2. Elements(queue') = Elements(queue) \cup {e}
      BY <2>2, <3>1, InsertEffect
    <3>3. e.start <= clock + Wait[e.job] + jitter
      BY <2>0, <2>1, <3>1
    <3> HIDE DEF e
    <3>4. \A x \in Elements(queue') : x.start <= clock + Wait[x.job] + jitter
      BY <3>2, <3>3 DEF SleepInv
    <3> QED
      BY <2>2, <3>4 DEF SleepInv, SleepIsBounded
  <2>3. CASE BurnwaitArgument
    <3>1. arg + 1 \in 1 .. Len(Args)
      BY <2>3, StepFacts DEF BurnwaitArgument, TypeInv, TypeOK
    <3>2. Args[arg + 1] \in Job /\ 0 \in 0 .. Wait[Args[arg + 1]]
      BY <3>1, StepFacts
    <3>3. Insert(Args[arg + 1], 0) /\ UNCHANGED <<clock, jitter>> /\ pc' \notin {"check", "sleep"}
      BY <2>3 DEF BurnwaitArgument, machine
    <3> QED
      BY <2>2, <3>2, <3>3
  <2>4. CASE Work /\ pc' = "head"
    <3>1. cur.job \in Job /\ Wait[cur.job] \in 0 .. Wait[cur.job]
      BY StepFacts
    <3>2. Insert(cur.job, Wait[cur.job]) /\ UNCHANGED <<clock, jitter>>
      BY <2>4 DEF Work, machine
    <3> QED
      BY <2>2, <2>4, <3>1, <3>2
  <2>5. CASE Dispatch
    <3>1. queue # <<>> /\ Sorted(queue) /\ UNCHANGED <<clock, jitter>> /\ pc' \notin {"check", "sleep"}
      BY <2>5 DEF Dispatch, TypeInv, TypeOK, machine
    <3>2. Elements(queue') \subseteq Elements(queue)
      <4>1. Elements(Tail(queue)) \subseteq Elements(queue)
        BY <2>0, <3>1, HeadIsEarliest
      <4>2. queue' = Tail(queue) \/ queue' = queue
        BY <2>5 DEF Dispatch
      <4> QED
        BY <4>1, <4>2
    <3> QED
      BY <3>1, <3>2 DEF SleepInv, SleepIsBounded
  <2>6. CASE LoopHead \/ Wake
    <3>1. /\ UNCHANGED <<clock, jitter, queue>> /\ pc' # "sleep"
          /\ pc' = "check" => n' = clock
      BY <2>1, <2>6 DEF LoopHead, Wake, machine
    <3> QED
      BY <3>1 DEF SleepInv, SleepIsBounded, Elements
  <2>7. CASE Sleep
    <3> DEFINE h == Head(queue)
    <3>1. /\ UNCHANGED <<clock, jitter, queue, n>> /\ pc = "check" /\ pc' = "sleep"
          /\ wake' = clock + (h.start - n) /\ queue # <<>> /\ Sorted(queue)
      BY <2>7 DEF Sleep, TypeInv, machine
    <3>2. h \in Elements(queue)
      BY <2>0, <3>1, HeadIsEarliest
    <3>3. h.start <= n + Wait[h.job] + jitter
      BY <3>1, <3>2 DEF SleepInv
    <3>4. h.start \in Nat /\ Wait[h.job] \in Nat
      BY <2>0, <3>2
    <3> HIDE DEF h
    <3>5. wake' - clock <= Wait[h.job] + jitter
      <4>1. wake' = clock + (h.start - n) /\ clock \in Nat /\ n \in Nat /\ jitter \in Nat
        BY <2>0, <3>1
      <4> QED
        BY <3>3, <3>4, <4>1, TimeToSleep
    <3>6. SleepIsBounded'
      BY <3>1, <3>5 DEF SleepIsBounded, h
    <3> QED
      BY <3>1, <3>6 DEF SleepInv, Elements
  <2>8. CASE Tick \/ StepBack
    <3>1. /\ UNCHANGED <<queue, pc, n, wake>> /\ clock' \in Nat /\ clock' <= MaxTime
          /\ jitter' \in Nat /\ jitter' >= jitter
          /\ clock' + jitter' >= clock + jitter
      BY <2>0, <2>8, <1>0 DEF Tick, StepBack, local, SleepInv
    <3>2. \A x \in Elements(queue) : x.start <= clock' + Wait[x.job] + jitter'
      <4> SUFFICES ASSUME NEW x \in Elements(queue)
                   PROVE  x.start <= clock' + Wait[x.job] + jitter'
        OBVIOUS
      <4>1. x.start \in Nat /\ Wait[x.job] \in Nat
        BY <2>0
      <4>2. x.start <= clock + Wait[x.job] + jitter
        BY DEF SleepInv
      <4>3. /\ clock' \in Nat /\ jitter' \in Nat
            /\ clock' + jitter' >= clock + jitter
        BY <3>1
      <4> QED
        BY <2>0, <4>1, <4>2, <4>3, LaterIsEnough
    <3>3. pc = "check" => \A x \in Elements(queue) : x.start <= n + Wait[x.job] + jitter'
      <4> SUFFICES ASSUME pc = "check", NEW x \in Elements(queue)
                   PROVE  x.start <= n + Wait[x.job] + jitter'
        OBVIOUS
      <4>1. x.start \in Nat /\ Wait[x.job] \in Nat
        BY <2>0
      <4>2. x.start <= n + Wait[x.job] + jitter
        BY DEF SleepInv
      <4>3. jitter' \in Nat /\ jitter' >= jitter
        BY <3>1
      <4> QED
        BY <2>0, <4>1, <4>2, <4>3, MoreJitterIsEnough
    <3>4. SleepIsBounded'
      <4> SUFFICES ASSUME pc = "sleep"
                   PROVE  wake - clock' <= Wait[Head(queue).job] + jitter'
        BY <3>1 DEF SleepIsBounded
      <4> DEFINE w == Wait[Head(queue).job]
      <4>1. queue # <<>> /\ Sorted(queue) /\ wake \in Nat
        BY DEF TypeInv, TypeOK
      <4>2. w \in Nat
        BY <2>0, <4>1, HeadIsEarliest
      <4>3. wake - clock <= w + jitter
        BY DEF SleepInv, SleepIsBounded
      <4>4. clock' + jitter' >= clock + jitter /\ clock' \in Nat /\ jitter' \in Nat
        BY <3>1
      <4>5. wake - clock' <= w + jitter'
        BY <2>0, <4>1, <4>2, <4>3, <4>4, LaterIsShorter
      <4> QED
        BY <4>5
    <3> QED
      BY <3>1, <3>2, <3>3, <3>4 DEF SleepInv, Elements
  <2>9. CASE BeginLoop \/ LoopEnds \/ (Work /\ pc' # "head")
    <3>1. UNCHANGED <<clock, jitter, queue>> /\ pc' \notin {"check", "sleep"}
      BY <2>9 DEF BeginLoop, LoopEnds, Work, machine
    <3> QED
      BY <3>1 DEF SleepInv, SleepIsBounded, Elements
  <2>10. CASE UNCHANGED vars
    BY <2>10 DEF vars, machine, local, SleepInv, SleepIsBounded, Elements
  <2> QED
    BY <2>3, <2>4, <2>5, <2>6, <2>7, <2>8, <2>9, <2>10 DEF Next
<1>3. SleepInv => SleepIsBounded
  BY DEF SleepInv
<1> QED
  BY <1>1, <1>2, <1>3, TypeInvHolds, PTL DEF Spec
=============================================================================
