-------------------------- MODULE PlanExpand_proofs --------------------------
(***************************************************************************)
(* PlanIsTheMatrix for every plan file, of lists of any length, and any    *)
(* series of plan commands.  The crossings append to a slice in two nested *)
(* loops; what has to be shown is where in the slice a run comes to stand. *)
(***************************************************************************)
EXTENDS PlanExpand, SequenceTheorems, FiniteSetTheorems, WellFoundedInduction, TLAPS

(***************************************************************************)
(* Two nested loops.                                                       *)
(***************************************************************************)

\* The place of round q and turn r of an inner loop of n turns says which they are.
LEMMA RoundAndTurn ==
  ASSUME NEW q \in Nat, NEW n \in Nat, n > 0, NEW r \in 0 .. n - 1
  PROVE  (q * n + r) \div n = q /\ (q * n + r) % n = r
  OBVIOUS

LEMMA Division ==
  ASSUME NEW k \in Int, NEW n \in Nat, n > 0,
         NEW d, d = k \div n, NEW e, e = k % n
  PROVE  d \in Int /\ e \in 0 .. n - 1 /\ k = d * n + e
  OBVIOUS

LEMMA PlaceOf ==
  ASSUME NEW l \in Nat, NEW n \in Nat, n > 0, NEW m \in 1 .. l * n,
         NEW d \in Int, NEW e \in 0 .. n - 1, m - 1 = d * n + e
  PROVE  d + 1 \in 1 .. l /\ e + 1 \in 1 .. n
  <1>1. d >= 0
    <2> SUFFICES ASSUME d <= -1 PROVE FALSE
      OBVIOUS
    <2>1. d * n <= -n
      OBVIOUS
    <2> QED BY <2>1
  <1>2. d < l
    <2> SUFFICES ASSUME d >= l PROVE FALSE
      OBVIOUS
    <2>1. d * n >= l * n
      OBVIOUS
    <2> QED BY <2>1
  <1> QED BY <1>1, <1>2

\* Every place is that of a round and a turn.
LEMMA PlaceIs ==
  ASSUME NEW l \in Nat, NEW n \in Nat, n > 0, NEW m \in 1 .. l * n
  PROVE  (m - 1) \div n + 1 \in 1 .. l /\ ((m - 1) % n) + 1 \in 1 .. n
  <1>1. m - 1 \in Int
    OBVIOUS
  <1>2. PICK d, e : d = (m - 1) \div n /\ e = (m - 1) % n
    OBVIOUS
  <1>3. d \in Int /\ e \in 0 .. n - 1 /\ m - 1 = d * n + e
    BY <1>1, <1>2, Division
  <1>4. d + 1 \in 1 .. l /\ e + 1 \in 1 .. n
    BY <1>3, PlaceOf
  <1> QED BY <1>2, <1>4

LEMMA PlaceAgain ==
  ASSUME NEW n \in Nat, n > 0, NEW k \in Int
  PROVE  k = ((k - 1) \div n + 1 - 1) * n + (((k - 1) % n) + 1)
  <1>1. PICK d, e : d = (k - 1) \div n /\ e = (k - 1) % n
    OBVIOUS
  <1>2. k - 1 \in Int
    OBVIOUS
  <1>3. d \in Int /\ e \in 0 .. n - 1 /\ k - 1 = d * n + e
    BY <1>1, <1>2, Division
  <1>4. k = (d + 1 - 1) * n + (e + 1)
    BY <1>3
  <1> QED BY <1>1, <1>4

\* A set of numbers has a least one.
LEMMA LeastOf ==
  ASSUME NEW S \in SUBSET Nat, S # {}
  PROVE  \E m \in S : \A x \in S : m <= x
  <1> DEFINE F == {0 .. k : k \in S}
  <1>a. \A k \in S : 0 .. k \in FiniteSubsetsOf(Nat)
    BY FS_Interval DEF FiniteSubsetsOf
  <1>1. F \subseteq FiniteSubsetsOf(Nat) /\ F # {}
    BY <1>a
  <1>2. PICK I \in F : \A J \in F : ~(<<J, I>> \in StrictSubsetOrdering(Nat))
    BY <1>1, WFMin, FS_StrictSubsetOrderingWellFounded
  <1>3. PICK m \in S : I = 0 .. m
    OBVIOUS
  <1>4. ASSUME NEW x \in S, x < m PROVE FALSE
    <2>1. 0 .. x \subseteq 0 .. m /\ 0 .. x # 0 .. m
      BY <1>4
    <2>2. <<0 .. x, 0 .. m>> \in StrictSubsetOrdering(Nat)
      BY <2>1 DEF StrictSubsetOrdering
    <2> QED BY <2>2, <1>2, <1>3
  <1> QED BY <1>3, <1>4

\* The equation of the loop in FlattenSeq.
Flattens(f, s) == f = [i \in 1 .. Len(s) |-> IF i = 1 THEN s[i] ELSE f[i - 1] \o s[i]]

LEMMA FlattenChooses ==
  ASSUME NEW s, Len(s) # 0
  PROVE  FlattenSeq(s) = (CHOOSE f : Flattens(f, s))[Len(s)]
  BY Zenon DEF FlattenSeq, Flattens

\* It has one solution.
LEMMA OneFlattening ==
  ASSUME NEW s, Len(s) \in Nat, NEW f, NEW g, Flattens(f, s), Flattens(g, s)
  PROVE  f = g
  <1> DEFINE Differ == {i \in 1 .. Len(s) : f[i] # g[i]}
  <1>1. \A i \in 1 .. Len(s) :
          /\ f[i] = IF i = 1 THEN s[i] ELSE f[i - 1] \o s[i]
          /\ g[i] = IF i = 1 THEN s[i] ELSE g[i - 1] \o s[i]
    BY DEF Flattens
  <1>2. Differ = {}
    <2> SUFFICES ASSUME Differ # {} PROVE FALSE
      OBVIOUS
    <2>a. Differ \in SUBSET Nat
      OBVIOUS
    <2>1. PICK m \in Differ : \A x \in Differ : m <= x
      <3> HIDE DEF Differ
      <3> QED BY <2>a, LeastOf
    <2>2. m # 1 /\ m - 1 \in 1 .. Len(s)
      BY <1>1, <2>1
    <2>3. f[m - 1] = g[m - 1]
      BY <2>1, <2>2
    <2> QED BY <1>1, <2>1, <2>2, <2>3
  <1>3. f = [i \in 1 .. Len(s) |-> f[i]] /\ g = [i \in 1 .. Len(s) |-> g[i]]
    BY DEF Flattens
  <1> QED BY <1>2, <1>3

\* Where the slices that are appended have the same length, element y of slice x
\* comes to stand at (x - 1) * n + y.
LEMMA FlattenIs ==
  ASSUME NEW T, NEW s \in Seq(Seq(T)), NEW n \in Nat, n > 0,
         \A x \in 1 .. Len(s) : Len(s[x]) = n
  PROVE  /\ FlattenSeq(s) \in Seq(T)
         /\ Len(FlattenSeq(s)) = Len(s) * n
         /\ \A x \in 1 .. Len(s), y \in 1 .. n : FlattenSeq(s)[(x - 1) * n + y] = s[x][y]
  <1> DEFINE At(m) == s[(m - 1) \div n + 1][((m - 1) % n) + 1]
             To(i) == [m \in 1 .. i * n |-> At(m)]
             f     == [i \in 1 .. Len(s) |-> To(i)]
  <1>1. Len(s) \in Nat /\ \A x \in 1 .. Len(s) : s[x] \in Seq(T)
    OBVIOUS
  <1>2. ASSUME NEW i \in 1 .. Len(s), NEW m \in 1 .. i * n PROVE At(m) \in T
    <2>1. (m - 1) \div n + 1 \in 1 .. i /\ ((m - 1) % n) + 1 \in 1 .. n
      <3>1. i \in Nat
        BY <1>1
      <3> QED BY <3>1, PlaceIs
    <2>2. (m - 1) \div n + 1 \in 1 .. Len(s)
      BY <2>1, <1>1
    <2> QED BY <2>1, <2>2, <1>1, ElementOfSeq
  <1>3. ASSUME NEW i \in 1 .. Len(s), NEW y \in 1 .. n
        PROVE  /\ (i - 1) * n + y \in 1 .. i * n
               /\ At((i - 1) * n + y) = s[i][y]
    <2>1. i - 1 \in Nat /\ y - 1 \in 0 .. n - 1 /\ (i - 1) * n + y - 1 = (i - 1) * n + (y - 1)
      BY <1>1
    <2>2. ((i - 1) * n + y - 1) \div n = i - 1 /\ ((i - 1) * n + y - 1) % n = y - 1
      BY <2>1, RoundAndTurn
    <2>3. (i - 1) * n >= 0 /\ i * n = (i - 1) * n + n
      BY <2>1
    <2>4. At((i - 1) * n + y) = s[i - 1 + 1][y - 1 + 1] /\ i - 1 + 1 = i /\ y - 1 + 1 = y
      BY <2>1, <2>2
    <2>5. (i - 1) * n + y \in 1 .. i * n
      <3> HIDE DEF At, f
      <3> DEFINE k == (i - 1) * n
      <3>1. k \in Nat /\ i * n = k + n
        BY <2>1, <2>3
      <3> HIDE DEF k
      <3>2. k + y \in 1 .. i * n
        BY <3>1
      <3> QED BY <3>2 DEF k
    <2> QED BY <2>4, <2>5
  <1> HIDE DEF At
  <1>4. \A i \in 1 .. Len(s) : f[i] \in Seq(T) /\ Len(f[i]) = i * n
    <2> SUFFICES ASSUME NEW i \in 1 .. Len(s) PROVE f[i] \in Seq(T) /\ Len(f[i]) = i * n
      OBVIOUS
    <2>1. i * n \in Nat /\ f[i] = [m \in 1 .. i * n |-> At(m)]
      BY <1>1
    <2> QED BY <2>1, <1>2, IsASeq
  <1>f. /\ f = [i \in 1 .. Len(s) |-> f[i]]
        /\ \A i \in 1 .. Len(s) : \A m \in 1 .. i * n : f[i][m] = At(m)
    <2>1. \A i \in 1 .. Len(s) : f[i] = [m \in 1 .. i * n |-> At(m)]
      OBVIOUS
    <2>2. \A i \in 1 .. Len(s) : \A m \in 1 .. i * n : f[i][m] = At(m)
      BY <2>1
    <2>3. f = [i \in 1 .. Len(s) |-> f[i]]
      <3> HIDE DEF To
      <3> QED OBVIOUS
    <2> QED BY <2>2, <2>3
  <1> HIDE DEF f
  <1>5. ASSUME NEW i \in 1 .. Len(s)
        PROVE  f[i] = IF i = 1 THEN s[i] ELSE f[i - 1] \o s[i]
    <2>1. CASE i = 1
      <3>1. f[1] \in Seq(T) /\ Len(f[1]) = n /\ s[1] \in Seq(T) /\ Len(s[1]) = n
        BY <2>1, <1>1, <1>4
      <3>2. ASSUME NEW y \in 1 .. n PROVE f[1][y] = s[1][y]
        <4>1. (1 - 1) * n + y = y /\ 1 * n = n
          OBVIOUS
        <4>2. At(y) = s[1][y]
          BY <2>1, <4>1, <1>3
        <4>3. f[1][y] = At(y)
          BY <2>1, <4>1, <1>f
        <4> QED BY <4>2, <4>3
      <3> QED BY <2>1, <3>1, <3>2, SeqEqual
    <2>2. CASE i # 1
      <3>1. i - 1 \in 1 .. Len(s) /\ (i - 1) * n \in Nat /\ i * n = (i - 1) * n + n
        BY <1>1, <2>2
      <3>2. f[i - 1] \in Seq(T) /\ Len(f[i - 1]) = (i - 1) * n /\ s[i] \in Seq(T) /\ Len(s[i]) = n
        BY <3>1, <1>1, <1>4
      <3>3. /\ f[i - 1] \o s[i] \in Seq(T) /\ Len(f[i - 1] \o s[i]) = i * n
            /\ \A m \in 1 .. i * n : (f[i - 1] \o s[i])[m] =
                 IF m <= (i - 1) * n THEN f[i - 1][m] ELSE s[i][m - (i - 1) * n]
        <4> DEFINE u == f[i - 1]
                   v == s[i]
                   k == (i - 1) * n
        <4>1. u \in Seq(T) /\ Len(u) = k /\ v \in Seq(T) /\ Len(v) = n
          BY <3>2
        <4> HIDE DEF u, v, k
        <4>2. /\ u \o v \in Seq(T) /\ Len(u \o v) = k + n
              /\ \A m \in 1 .. k + n : (u \o v)[m] = IF m <= k THEN u[m] ELSE v[m - k]
          BY <4>1, ConcatProperties
        <4>3. i * n = k + n
          BY <3>1 DEF k
        <4>4. /\ u \o v \in Seq(T) /\ Len(u \o v) = i * n
              /\ \A m \in 1 .. i * n : (u \o v)[m] = IF m <= k THEN u[m] ELSE v[m - k]
          BY <4>2, <4>3
        <4> QED BY <4>4 DEF u, v, k
      <3>4. ASSUME NEW m \in 1 .. i * n PROVE f[i][m] = (f[i - 1] \o s[i])[m]
        <4> DEFINE k == (i - 1) * n
        <4>3. m \in Int /\ k \in Int
          BY <3>1
        <4> HIDE DEF k
        <4>1. CASE m <= k
          <5> USE DEF k
          <5>1. f[i][m] = At(m) /\ m \in 1 .. (i - 1) * n
            BY <4>1, <3>1, <1>f
          <5>2. f[i - 1][m] = At(m)
            BY <3>1, <5>1, <1>f
          <5> QED BY <4>1, <5>1, <5>2, <3>3
        <4>2. CASE m > k
          <5> USE DEF k
          <5>1. m - (i - 1) * n \in 1 .. n /\ m = (i - 1) * n + (m - (i - 1) * n)
            BY <4>2, <3>1
          <5>2. At((i - 1) * n + (m - (i - 1) * n)) = s[i][m - (i - 1) * n]
            BY <5>1, <1>3
          <5>3. f[i][m] = s[i][m - (i - 1) * n]
            BY <5>1, <5>2, <1>f
          <5>4. ~(m <= (i - 1) * n)
            BY <4>2, <3>1
          <5> QED BY <5>3, <5>4, <3>3
        <4>4. m <= k \/ m > k
          BY <4>3
        <4> QED BY <4>1, <4>2, <4>4, Zenon
      <3>5. f[i] \in Seq(T) /\ Len(f[i]) = i * n
        BY <1>4
      <3> QED BY <2>2, <3>3, <3>4, <3>5, SeqEqual
    <2> QED BY <2>1, <2>2
  <1>6. Flattens(f, s)
    BY <1>5, <1>f DEF Flattens
  <1>7. CASE Len(s) = 0
    <2>1. FlattenSeq(s) = s /\ s = <<>>
      BY <1>7, EmptySeq DEF FlattenSeq
    <2> QED BY <1>7, <2>1
  <1>8. CASE Len(s) # 0
    <2>1. (CHOOSE g : Flattens(g, s)) = f
      <3> QED BY <1>1, <1>6, OneFlattening
    <2>2. FlattenSeq(s) = f[Len(s)] /\ Len(s) \in 1 .. Len(s)
      BY <1>1, <1>8, <2>1, FlattenChooses
    <2>3. \A x \in 1 .. Len(s), y \in 1 .. n : (x - 1) * n + y \in 1 .. Len(s) * n
      <3> SUFFICES ASSUME NEW x \in 1 .. Len(s), NEW y \in 1 .. n
                   PROVE  (x - 1) * n + y \in 1 .. Len(s) * n
        OBVIOUS
      <3>1. (x - 1) * n + y \in 1 .. x * n
        BY <1>3
      <3>2. x * n <= Len(s) * n
        BY <1>1
      <3> QED BY <3>1, <3>2, <1>1
    <2>4. \A x \in 1 .. Len(s), y \in 1 .. n :
            f[Len(s)][(x - 1) * n + y] = At((x - 1) * n + y)
      BY <2>2, <2>3, <1>f
    <2> QED BY <1>3, <1>4, <2>2, <2>4
  <1> QED BY <1>7, <1>8

(***************************************************************************)
(* The crossings.  Crosses says what they make of a slice a: for each base *)
(* n runs next to each other, with the base's fields but for one.          *)
(***************************************************************************)
IsSlice(a) == a \in Seq({a[x] : x \in 1 .. Len(a)}) /\ Len(a) \in Nat

LEMMA SliceIs ==
  ASSUME NEW n \in Nat, NEW a, a = [x \in 1 .. n |-> a[x]]
  PROVE  IsSlice(a) /\ Len(a) = n
  <1> DEFINE T == {a[x] : x \in 1 .. n}
  <1>1. [x \in 1 .. n |-> a[x]] \in Seq(T) /\ Len([x \in 1 .. n |-> a[x]]) = n
    <2>1. \A x \in 1 .. n : a[x] \in T
      OBVIOUS
    <2> HIDE DEF T
    <2> QED BY <2>1, IsASeq
  <1> QED BY <1>1 DEF IsSlice

\* s is l slices of n elements.
IsRounds(s, l, n) ==
  /\ s = [x \in 1 .. l |-> s[x]]
  /\ \A x \in 1 .. l : s[x] = [y \in 1 .. n |-> s[x][y]]

\* The slice of slices that a crossing makes, flattened.
LEMMA CrossedIs ==
  ASSUME NEW a, IsSlice(a), NEW n \in Nat, n > 0,
         NEW s, IsRounds(s, Len(a), n)
  PROVE  /\ IsSlice(FlattenSeq(s))
         /\ Len(FlattenSeq(s)) = Len(a) * n
         /\ \A x \in 1 .. Len(a), y \in 1 .. n :
              FlattenSeq(s)[(x - 1) * n + y] = s[x][y]
  <1> DEFINE T == UNION {{s[x][y] : y \in 1 .. n} : x \in 1 .. Len(a)}
  <1>1. Len(a) \in Nat
    BY DEF IsSlice
  <1>2. \A x \in 1 .. Len(a), y \in 1 .. n : s[x][y] \in T
    OBVIOUS
  <1> HIDE DEF T
  <1>3. ASSUME NEW x \in 1 .. Len(a) PROVE s[x] \in Seq(T) /\ Len(s[x]) = n
    <2>1. s[x] = [y \in 1 .. n |-> s[x][y]]
      BY DEF IsRounds
    <2>2. /\ [y \in 1 .. n |-> s[x][y]] \in Seq(T)
          /\ Len([y \in 1 .. n |-> s[x][y]]) = n
      BY <1>2, IsASeq
    <2> QED BY <2>1, <2>2
  <1>4. s = [x \in 1 .. Len(a) |-> s[x]]
    BY DEF IsRounds
  <1>5. /\ [x \in 1 .. Len(a) |-> s[x]] \in Seq(Seq(T))
        /\ Len([x \in 1 .. Len(a) |-> s[x]]) = Len(a)
    BY <1>1, <1>3, IsASeq
  <1>6. s \in Seq(Seq(T)) /\ Len(s) = Len(a)
    BY <1>4, <1>5
  <1>7. /\ FlattenSeq(s) \in Seq(T)
        /\ Len(FlattenSeq(s)) = Len(a) * n
        /\ \A x \in 1 .. Len(a), y \in 1 .. n :
             FlattenSeq(s)[(x - 1) * n + y] = s[x][y]
    <2>0. \A x \in 1 .. Len(s) : Len(s[x]) = n
      BY <1>3, <1>6
    <2>1. /\ FlattenSeq(s) \in Seq(T)
          /\ Len(FlattenSeq(s)) = Len(s) * n
          /\ \A x \in 1 .. Len(s), y \in 1 .. n : FlattenSeq(s)[(x - 1) * n + y] = s[x][y]
      BY <2>0, <1>6, FlattenIs
    <2> QED BY <1>6, <2>1
  <1>8. IsSlice(FlattenSeq(s))
    <2> DEFINE b == FlattenSeq(s)
    <2>1. Len(b) \in Nat /\ b = [x \in 1 .. Len(b) |-> b[x]]
      BY <1>7, LenProperties
    <2> HIDE DEF b
    <2>2. IsSlice(b)
      BY <2>1, SliceIs
    <2> QED BY <2>2 DEF b
  <1> QED BY <1>7, <1>8

\* A place in a slice of l rounds of n turns.
LEMMA PlaceIn ==
  ASSUME NEW l \in Nat, NEW n \in Nat, NEW x \in 1 .. l, NEW y \in 1 .. n
  PROVE  (x - 1) * n + y \in 1 .. l * n
  <1>1. (x - 1) * n >= 0
    OBVIOUS
  <1>2. (x - 1) * n + n <= l * n
    <2>1. x * n <= l * n /\ (x - 1) * n + n = x * n
      OBVIOUS
    <2> QED BY <2>1
  <1> DEFINE k == (x - 1) * n
             m == l * n
  <1>3. k \in Nat /\ m \in Nat /\ k + n <= m
    BY <1>1, <1>2
  <1> HIDE DEF k, m
  <1>4. k + y \in 1 .. m
    BY <1>3
  <1> QED BY <1>4 DEF k, m

\* The options that a crossing comes to, one that changes nothing if there are none.
OrOne(options, one) == IF options = <<>> THEN <<one>> ELSE options

LEMMA OrOneIs ==
  ASSUME NEW T, NEW options \in Seq(T), NEW one
  PROVE  LET o == OrOne(options, one)
         IN  Len(o) \in Nat /\ Len(o) > 0 /\ DOMAIN o = 1 .. Len(o)
  <1>1. CASE options = <<>>
    BY <1>1 DEF OrOne
  <1>2. CASE options # <<>>
    BY <1>2, EmptySeq, LenProperties DEF OrOne
  <1> QED BY <1>1, <1>2

\* With one option that changes nothing there is nothing to cross.
LEMMA NotCrossed ==
  ASSUME NEW a, IsSlice(a), NEW v
  PROVE  /\ Len(a) = Len(a) * Len(<<v>>)
         /\ \A x \in 1 .. Len(a), y \in 1 .. Len(<<v>>) :
              (x - 1) * Len(<<v>>) + y = x /\ <<v>>[y] = v
  <1>1. Len(a) \in Nat
    BY DEF IsSlice
  <1> DEFINE o == <<v>>
  <1>2. Len(o) = 1 /\ o[1] = v
    OBVIOUS
  <1> HIDE DEF o
  <1>3. Len(a) = Len(a) * Len(o)
    BY <1>1, <1>2
  <1>4. ASSUME NEW x \in 1 .. Len(a), NEW y \in 1 .. Len(o)
        PROVE  (x - 1) * Len(o) + y = x /\ o[y] = v
    <2>1. y = 1 /\ x \in Int
      BY <1>1, <1>2
    <2>2. (x - 1) * 1 + 1 = x
      BY <2>1
    <2> QED BY <1>2, <2>1, <2>2
  <1>5. Len(a) = Len(a) * Len(o) /\ \A x \in 1 .. Len(a), y \in 1 .. Len(o) :
              (x - 1) * Len(o) + y = x /\ o[y] = v
    BY <1>3, <1>4
  <1> QED BY <1>5 DEF o

CrossedWithSchedulers(b, a, o) ==
  /\ IsSlice(b) /\ Len(b) = Len(a) * Len(o)
  /\ \A x \in 1 .. Len(a), y \in 1 .. Len(o) :
       LET r == b[(x - 1) * Len(o) + y] IN
       /\ r.Label = a[x].Label /\ r.WorkerSets = a[x].WorkerSets
       /\ r.Scheduler = o[y] /\ r.NumaDisable = a[x].NumaDisable

CrossedWithNumaDisable(b, a, o) ==
  /\ IsSlice(b) /\ Len(b) = Len(a) * Len(o)
  /\ \A x \in 1 .. Len(a), y \in 1 .. Len(o) :
       LET r == b[(x - 1) * Len(o) + y] IN
       /\ r.Label = a[x].Label /\ r.WorkerSets = a[x].WorkerSets
       /\ r.Scheduler = a[x].Scheduler /\ r.NumaDisable = o[y]

\* The loop over the schedulers.
LEMMA SchedulersCrossed ==
  ASSUME NEW a, IsSlice(a), NEW T, NEW schedulers \in Seq(T), NEW none,
         \A x \in 1 .. Len(a) : a[x].Scheduler = none
  PROVE  CrossedWithSchedulers(BySchedulers(a, schedulers), a, OrOne(schedulers, none))
  <1>1. /\ Len(a) \in Nat /\ DOMAIN a = 1 .. Len(a)
        /\ Len(schedulers) \in Nat /\ DOMAIN schedulers = 1 .. Len(schedulers)
    BY LenProperties DEF IsSlice
  <1>2. CASE schedulers = <<>>
    <2> DEFINE o == <<none>>
    <2>1. BySchedulers(a, schedulers) = a /\ OrOne(schedulers, none) = o
      BY <1>2 DEF BySchedulers, OrOne
    <2>2. /\ Len(a) = Len(a) * Len(o)
          /\ \A x \in 1 .. Len(a), y \in 1 .. Len(o) :
               (x - 1) * Len(o) + y = x /\ o[y] = none
      BY NotCrossed
    <2> HIDE DEF o
    <2> QED BY <2>1, <2>2 DEF CrossedWithSchedulers
  <1>3. CASE schedulers # <<>>
    <2> DEFINE Made(x, y) == [Label |-> a[x].Label, WorkerSets |-> a[x].WorkerSets,
                              Scheduler |-> schedulers[y], NumaDisable |-> a[x].NumaDisable]
               n == Len(schedulers)
               Round(x) == [y \in 1 .. n |-> Made(x, y)]
               s == [x \in 1 .. Len(a) |-> Round(x)]
    <2>1. BySchedulers(a, schedulers) = FlattenSeq(s) /\ OrOne(schedulers, none) = schedulers
      BY <1>1, <1>3 DEF BySchedulers, OrOne
    <2>2. n \in Nat /\ n > 0
      <3>1. n # 0
        BY <1>3, EmptySeq
      <3> QED BY <1>1, <3>1
    <2>3. \A x \in 1 .. Len(a) : s[x] = Round(x)
      OBVIOUS
    <2>4. \A x \in 1 .. Len(a), y \in 1 .. n : s[x][y] = Made(x, y)
      <3> HIDE DEF Made, n
      <3> QED OBVIOUS
    <2>5. IsRounds(s, Len(a), n)
      <3>1. ASSUME NEW x \in 1 .. Len(a)
            PROVE  s[x] = [y \in 1 .. n |-> s[x][y]]
        <4> HIDE DEF Made, n, s
        <4> QED BY <2>3
      <3>2. s = [x \in 1 .. Len(a) |-> s[x]]
        <4> HIDE DEF Made, n, Round
        <4> QED OBVIOUS
      <3> HIDE DEF n, s
      <3> QED BY <3>1, <3>2 DEF IsRounds
    <2> HIDE DEF n, s
    <2>6. /\ IsSlice(FlattenSeq(s)) /\ Len(FlattenSeq(s)) = Len(a) * n
          /\ \A x \in 1 .. Len(a), y \in 1 .. n :
               FlattenSeq(s)[(x - 1) * n + y] = s[x][y]
      BY <2>2, <2>5, CrossedIs
    <2>7. \A x \in 1 .. Len(a), y \in 1 .. n :
            LET r == FlattenSeq(s)[(x - 1) * n + y] IN
            /\ r.Label = a[x].Label /\ r.WorkerSets = a[x].WorkerSets
            /\ r.Scheduler = schedulers[y] /\ r.NumaDisable = a[x].NumaDisable
      <3> SUFFICES ASSUME NEW x \in 1 .. Len(a), NEW y \in 1 .. n
                   PROVE  LET r == FlattenSeq(s)[(x - 1) * n + y] IN
                   /\ r.Label = a[x].Label /\ r.WorkerSets = a[x].WorkerSets
                   /\ r.Scheduler = schedulers[y] /\ r.NumaDisable = a[x].NumaDisable
        OBVIOUS
      <3> DEFINE r == FlattenSeq(s)[(x - 1) * n + y]
      <3>1. r = Made(x, y)
        <4> HIDE DEF Made
        <4> QED BY <2>4, <2>6
      <3> HIDE DEF r
      <3>2. /\ r.Label = a[x].Label /\ r.WorkerSets = a[x].WorkerSets
            /\ r.Scheduler = schedulers[y] /\ r.NumaDisable = a[x].NumaDisable
        BY <3>1
      <3> QED BY <3>2 DEF r
    <2> HIDE DEF Made
    <2>8. CrossedWithSchedulers(FlattenSeq(s), a, schedulers)
      <3>1. \A x \in 1 .. Len(a), y \in 1 .. Len(schedulers) :
              LET r == FlattenSeq(s)[(x - 1) * Len(schedulers) + y] IN
              /\ r.Label = a[x].Label /\ r.WorkerSets = a[x].WorkerSets
              /\ r.Scheduler = schedulers[y] /\ r.NumaDisable = a[x].NumaDisable
        BY Zenon, <2>7 DEF n
      <3>2. IsSlice(FlattenSeq(s)) /\ Len(FlattenSeq(s)) = Len(a) * Len(schedulers)
        BY Zenon, <2>6 DEF n
      <3> QED BY Zenon, <3>1, <3>2 DEF CrossedWithSchedulers
    <2> QED BY Zenon, <2>1, <2>8
  <1> QED BY <1>2, <1>3

\* The loop over NumaDisable.
LEMMA NumaDisableCrossed ==
  ASSUME NEW a, IsSlice(a), NEW T, NEW options \in Seq(T), NEW none,
         \A x \in 1 .. Len(a) : a[x].NumaDisable = none
  PROVE  CrossedWithNumaDisable(ByNumaDisable(a, options), a, OrOne(options, none))
  <1>1. /\ Len(a) \in Nat /\ DOMAIN a = 1 .. Len(a)
        /\ Len(options) \in Nat /\ DOMAIN options = 1 .. Len(options)
    BY LenProperties DEF IsSlice
  <1>2. CASE options = <<>>
    <2> DEFINE o == <<none>>
    <2>1. ByNumaDisable(a, options) = a /\ OrOne(options, none) = o
      BY <1>2 DEF ByNumaDisable, OrOne
    <2>2. /\ Len(a) = Len(a) * Len(o)
          /\ \A x \in 1 .. Len(a), y \in 1 .. Len(o) :
               (x - 1) * Len(o) + y = x /\ o[y] = none
      BY NotCrossed
    <2> HIDE DEF o
    <2> QED BY <2>1, <2>2 DEF CrossedWithNumaDisable
  <1>3. CASE options # <<>>
    <2> DEFINE Made(x, y) == [Label |-> a[x].Label, WorkerSets |-> a[x].WorkerSets,
                              Scheduler |-> a[x].Scheduler, NumaDisable |-> options[y]]
               n == Len(options)
               Round(x) == [y \in 1 .. n |-> Made(x, y)]
               s == [x \in 1 .. Len(a) |-> Round(x)]
    <2>1. ByNumaDisable(a, options) = FlattenSeq(s) /\ OrOne(options, none) = options
      BY <1>1, <1>3 DEF ByNumaDisable, OrOne
    <2>2. n \in Nat /\ n > 0
      <3>1. n # 0
        BY <1>3, EmptySeq
      <3> QED BY <1>1, <3>1
    <2>3. \A x \in 1 .. Len(a) : s[x] = Round(x)
      OBVIOUS
    <2>4. \A x \in 1 .. Len(a), y \in 1 .. n : s[x][y] = Made(x, y)
      <3> HIDE DEF Made, n
      <3> QED OBVIOUS
    <2>5. IsRounds(s, Len(a), n)
      <3>1. ASSUME NEW x \in 1 .. Len(a)
            PROVE  s[x] = [y \in 1 .. n |-> s[x][y]]
        <4> HIDE DEF Made, n, s
        <4> QED BY <2>3
      <3>2. s = [x \in 1 .. Len(a) |-> s[x]]
        <4> HIDE DEF Made, n, Round
        <4> QED OBVIOUS
      <3> HIDE DEF n, s
      <3> QED BY <3>1, <3>2 DEF IsRounds
    <2> HIDE DEF n, s
    <2>6. /\ IsSlice(FlattenSeq(s)) /\ Len(FlattenSeq(s)) = Len(a) * n
          /\ \A x \in 1 .. Len(a), y \in 1 .. n :
               FlattenSeq(s)[(x - 1) * n + y] = s[x][y]
      BY <2>2, <2>5, CrossedIs
    <2>7. \A x \in 1 .. Len(a), y \in 1 .. n :
            LET r == FlattenSeq(s)[(x - 1) * n + y] IN
            /\ r.Label = a[x].Label /\ r.WorkerSets = a[x].WorkerSets
            /\ r.Scheduler = a[x].Scheduler /\ r.NumaDisable = options[y]
      <3> SUFFICES ASSUME NEW x \in 1 .. Len(a), NEW y \in 1 .. n
                   PROVE  LET r == FlattenSeq(s)[(x - 1) * n + y] IN
                   /\ r.Label = a[x].Label /\ r.WorkerSets = a[x].WorkerSets
                   /\ r.Scheduler = a[x].Scheduler /\ r.NumaDisable = options[y]
        OBVIOUS
      <3> DEFINE r == FlattenSeq(s)[(x - 1) * n + y]
      <3>1. r = Made(x, y)
        <4> HIDE DEF Made
        <4> QED BY <2>4, <2>6
      <3> HIDE DEF r
      <3>2. /\ r.Label = a[x].Label /\ r.WorkerSets = a[x].WorkerSets
            /\ r.Scheduler = a[x].Scheduler /\ r.NumaDisable = options[y]
        BY <3>1
      <3> QED BY <3>2 DEF r
    <2> HIDE DEF Made
    <2>8. CrossedWithNumaDisable(FlattenSeq(s), a, options)
      <3>1. \A x \in 1 .. Len(a), y \in 1 .. Len(options) :
              LET r == FlattenSeq(s)[(x - 1) * Len(options) + y] IN
              /\ r.Label = a[x].Label /\ r.WorkerSets = a[x].WorkerSets
              /\ r.Scheduler = a[x].Scheduler /\ r.NumaDisable = options[y]
        BY Zenon, <2>7 DEF n
      <3>2. IsSlice(FlattenSeq(s)) /\ Len(FlattenSeq(s)) = Len(a) * Len(options)
        BY Zenon, <2>6 DEF n
      <3> QED BY Zenon, <3>1, <3>2 DEF CrossedWithNumaDisable
    <2> QED BY Zenon, <2>1, <2>8
  <1> QED BY <1>2, <1>3

(***************************************************************************)
(* The bases that are crossed, and the whole of ExpandInput.               *)
(***************************************************************************)
LEMMA AppendedIs ==
  ASSUME NEW n \in Nat, NEW u, u = [x \in 1 .. n |-> u[x]],
         NEW k \in Nat, NEW v, v = [x \in 1 .. k |-> v[x]]
  PROVE  /\ IsSlice(u \o v) /\ Len(u \o v) = n + k
         /\ \A x \in 1 .. n : (u \o v)[x] = u[x]
         /\ \A x \in n + 1 .. n + k : (u \o v)[x] = v[x - n]
  <1> DEFINE T == {u[x] : x \in 1 .. n} \cup {v[x] : x \in 1 .. k}
  <1>1. (\A x \in 1 .. n : u[x] \in T) /\ (\A x \in 1 .. k : v[x] \in T)
    OBVIOUS
  <1> HIDE DEF T
  <1>2. u \in Seq(T) /\ Len(u) = n
    <2>1. /\ [x \in 1 .. n |-> u[x]] \in Seq(T)
          /\ Len([x \in 1 .. n |-> u[x]]) = n
      BY <1>1, IsASeq
    <2> QED BY <2>1
  <1>3. v \in Seq(T) /\ Len(v) = k
    <2>1. /\ [x \in 1 .. k |-> v[x]] \in Seq(T)
          /\ Len([x \in 1 .. k |-> v[x]]) = k
      BY <1>1, IsASeq
    <2> QED BY <2>1
  <1>4. /\ u \o v \in Seq(T) /\ Len(u \o v) = n + k
        /\ \A x \in 1 .. n + k : (u \o v)[x] = IF x <= n THEN u[x] ELSE v[x - n]
    BY <1>2, <1>3, ConcatProperties
  <1>5. IsSlice(u \o v)
    <2> DEFINE w == u \o v
    <2>1. Len(w) \in Nat /\ w = [x \in 1 .. Len(w) |-> w[x]]
      BY <1>4, LenProperties
    <2> HIDE DEF w
    <2>2. IsSlice(w)
      BY <2>1, SliceIs
    <2> QED BY <2>2 DEF w
  <1> QED BY <1>4, <1>5

NoScheduler == ""

Bases(m, p) == Baselines(m, p) \o Counts(m, p)

\* The WorkerSets of base x.
SetsOf(m, p, x) ==
  IF x <= Len(m.Workers) THEN <<WorkerSet(p, m.Workers[x], 1)>>
  ELSE [y \in 1 .. Len(m.Workers) |->
          WorkerSet(p, m.Workers[y], m.Count[x - Len(m.Workers)])]

\* What the bases are: every worker alone, then every count of all of them.
LEMMA BasesAre ==
  ASSUME NEW m \in Matrix, NEW p
  PROVE  /\ IsSlice(Bases(m, p)) /\ Len(Bases(m, p)) = Len(Labels(m))
         /\ Len(Labels(m)) \in Nat /\ DOMAIN Labels(m) = 1 .. Len(Labels(m))
         /\ \A x \in 1 .. Len(Labels(m)) :
              /\ Bases(m, p)[x].Label = Labels(m)[x]
              /\ Bases(m, p)[x].Scheduler = NoScheduler
              /\ Bases(m, p)[x].NumaDisable = Default
              /\ Bases(m, p)[x].WorkerSets = SetsOf(m, p, x)
  <1> DEFINE w  == Len(m.Workers)
             c  == Len(m.Count)
             One(x) == <<WorkerSet(p, m.Workers[x], 1)>>
             All(x) == [y \in 1 .. w |-> WorkerSet(p, m.Workers[y], m.Count[x])]
             BL(x) == <<"baseline", x>>
             CL(x) == <<"count", x>>
             B(x) == [Label |-> BL(x), WorkerSets |-> One(x),
                      Scheduler |-> NoScheduler, NumaDisable |-> Default]
             C(x) == [Label |-> CL(x), WorkerSets |-> All(x),
                      Scheduler |-> NoScheduler, NumaDisable |-> Default]
             u  == [x \in 1 .. w |-> B(x)]
             v  == [x \in 1 .. c |-> C(x)]
             lu == [x \in 1 .. w |-> BL(x)]
             lv == [x \in 1 .. c |-> CL(x)]
             a  == u \o v
             l  == lu \o lv
  <1>1. /\ w \in Nat /\ DOMAIN m.Workers = 1 .. w
        /\ c \in Nat /\ DOMAIN m.Count = 1 .. c
    BY LenProperties DEF Matrix
  <1>2. Bases(m, p) = a /\ Labels(m) = l
    BY <1>1 DEF Bases, Baselines, Counts, Labels, NoScheduler
  <1> HIDE DEF w, c, BL, CL, One, All
  <1>3. \A x \in 1 .. w : /\ B(x).Label = BL(x) /\ B(x).WorkerSets = One(x)
                          /\ B(x).Scheduler = NoScheduler /\ B(x).NumaDisable = Default
    OBVIOUS
  <1>4. \A x \in 1 .. c : /\ C(x).Label = CL(x) /\ C(x).WorkerSets = All(x)
                          /\ C(x).Scheduler = NoScheduler /\ C(x).NumaDisable = Default
    OBVIOUS
  <1> HIDE DEF B, C
  <1>5. /\ u = [x \in 1 .. w |-> u[x]] /\ v = [x \in 1 .. c |-> v[x]]
        /\ lu = [x \in 1 .. w |-> lu[x]] /\ lv = [x \in 1 .. c |-> lv[x]]
    OBVIOUS
  <1>6. /\ \A x \in 1 .. w : u[x] = B(x) /\ lu[x] = BL(x)
        /\ \A x \in 1 .. c : v[x] = C(x) /\ lv[x] = CL(x)
    OBVIOUS
  <1> HIDE DEF u, v, lu, lv
  <1>7. /\ IsSlice(a) /\ Len(a) = w + c
        /\ \A x \in 1 .. w : a[x] = u[x]
        /\ \A x \in w + 1 .. w + c : a[x] = v[x - w]
    BY <1>1, <1>5, AppendedIs
  <1>8. /\ IsSlice(l) /\ Len(l) = w + c
        /\ \A x \in 1 .. w : l[x] = lu[x]
        /\ \A x \in w + 1 .. w + c : l[x] = lv[x - w]
    BY <1>1, <1>5, AppendedIs
  <1> HIDE DEF a, l
  <1>9. Len(l) \in Nat /\ DOMAIN l = 1 .. Len(l)
    BY <1>8, LenProperties DEF IsSlice
  <1>10. ASSUME NEW x \in 1 .. Len(a)
         PROVE  /\ a[x].Label = l[x]
                /\ a[x].Scheduler = NoScheduler /\ a[x].NumaDisable = Default
                /\ x <= w => a[x].WorkerSets = One(x)
                /\ x > w => a[x].WorkerSets = All(x - w)
    <2>1. x \in Int /\ w \in Int /\ c \in Int /\ x \in 1 .. w + c
      BY <1>1, <1>7
    <2>2. CASE x <= w
      <3>1. x \in 1 .. w
        BY <2>1, <2>2
      <3>2. a[x] = B(x) /\ l[x] = BL(x)
        BY <3>1, <1>6, <1>7, <1>8
      <3>3. ~(x > w)
        BY <2>1, <2>2
      <3> QED BY <3>1, <3>2, <3>3, <1>3
    <2>3. CASE x > w
      <3>1. x \in w + 1 .. w + c /\ x - w \in 1 .. c
        BY <2>1, <2>3
      <3>2. a[x] = C(x - w) /\ l[x] = CL(x - w)
        BY <3>1, <1>6, <1>7, <1>8
      <3>3. ~(x <= w)
        BY <2>1, <2>3
      <3> QED BY <3>1, <3>2, <3>3, <1>4
    <2>4. x <= w \/ x > w
      BY <2>1
    <2> QED BY <2>2, <2>3, <2>4
  <1>11. Len(a) = Len(l)
    BY <1>7, <1>8
  <1>12. \A x \in 1 .. Len(a) : SetsOf(m, p, x) = IF x <= w THEN One(x) ELSE All(x - w)
    BY DEF SetsOf, w, One, All
  <1>13. \A x \in 1 .. Len(a) : a[x].WorkerSets = SetsOf(m, p, x)
    <2> SUFFICES ASSUME NEW x \in 1 .. Len(a) PROVE a[x].WorkerSets = SetsOf(m, p, x)
      OBVIOUS
    <2>1. x \in Int /\ w \in Int
      BY <1>1, <1>7
    <2>2. x <= w \/ x > w
      BY <2>1
    <2>3. x > w => ~(x <= w)
      BY <2>1
    <2> QED BY <1>10, <1>12, <2>2, <2>3
  <1> QED BY <1>2, <1>7, <1>9, <1>10, <1>11, <1>13

\* Where the run of base x under scheduler y and NumaDisable z comes to stand.
Place(m, x, y, z) ==
  (((x - 1) * Len(AllScheds(m))) + y - 1) * Len(AllNumas(m)) + z

\* The places of the options z of y of x.
LEMMA PlacesOfThree ==
  ASSUME NEW l \in Nat, NEW s \in Nat, NEW n \in Nat,
         NEW x \in 1 .. l, NEW y \in 1 .. s, NEW z \in 1 .. n
  PROVE  /\ (x - 1) * s + y \in 1 .. l * s
         /\ (((x - 1) * s) + y - 1) * n + z \in 1 .. l * s * n
  <1>1. (x - 1) * s + y \in 1 .. l * s
    BY PlaceIn
  <1> DEFINE k == (x - 1) * s
             c == l * s
  <1>2. k \in Int /\ c \in Nat /\ k + y \in 1 .. c
    <2>1. l * s >= 0
      OBVIOUS
    <2> QED BY <1>1, <2>1
  <1> HIDE DEF k, c
  <1>3. (k + y - 1) * n + z \in 1 .. c * n
    BY <1>2, PlaceIn
  <1> QED BY <1>1, <1>3 DEF k, c

\* The runs, by the base and the options that they are of.
LEMMA ExpandedIs ==
  ASSUME NEW m \in Matrix, NEW p,
         NEW s, s = AllScheds(m), NEW d, d = AllNumas(m), NEW l, l = Labels(m)
  PROVE  /\ Len(l) \in Nat /\ DOMAIN l = 1 .. Len(l)
         /\ Len(s) \in Nat /\ DOMAIN s = 1 .. Len(s)
         /\ Len(d) \in Nat /\ DOMAIN d = 1 .. Len(d)
         /\ IsSlice(Expanded(m, p)) /\ Len(Expanded(m, p)) = Len(l) * Len(s) * Len(d)
         /\ \A x \in 1 .. Len(l), y \in 1 .. Len(s), z \in 1 .. Len(d) :
              LET run == Expanded(m, p)[Place(m, x, y, z)] IN
              /\ run.Label = l[x] /\ run.Scheduler = s[y] /\ run.NumaDisable = d[z]
              /\ run.WorkerSets = SetsOf(m, p, x)
  <1>s. s = OrOne(Schedulers(m), NoScheduler)
    <2>1. s = IF m.Schedulers \in {Default, <<>>} THEN <<NoScheduler>> ELSE m.Schedulers
      BY Zenon DEF NoScheduler, AllScheds
    <2>2. Schedulers(m) = IF m.Schedulers = Default THEN <<NoScheduler>> ELSE m.Schedulers
      BY Zenon DEF Schedulers, NoScheduler
    <2> QED BY <2>1, <2>2 DEF OrOne
  <1>d. d = OrOne(m.NumaDisable, Default)
    BY DEF OrOne, AllNumas
  <1> DEFINE a == Bases(m, p)
             scheds == Schedulers(m)
             b == BySchedulers(a, scheds)
             r == ByNumaDisable(b, m.NumaDisable)
  <1>1. Expanded(m, p) = r
    BY DEF Expanded, Bases
  <1>2. PICK T : scheds \in Seq(T)
    <2>1. Schedulers(m) = IF m.Schedulers = Default THEN <<NoScheduler>> ELSE m.Schedulers
      BY Zenon DEF Schedulers, NoScheduler
    <2>2. CASE m.Schedulers = Default
      <3>1. <<NoScheduler>> \in Seq({NoScheduler})
        OBVIOUS
      <3> QED BY <2>1, <2>2, <3>1
    <2>3. CASE m.Schedulers # Default
      BY <2>1, <2>3 DEF Matrix
    <2> QED BY <2>2, <2>3
  <1>3. m.NumaDisable \in Seq(BOOLEAN)
    BY DEF Matrix
  <1>4. /\ IsSlice(a) /\ Len(a) = Len(l) /\ Len(l) \in Nat /\ DOMAIN l = 1 .. Len(l)
        /\ \A x \in 1 .. Len(l) :
             /\ a[x].Label = l[x] /\ a[x].WorkerSets = SetsOf(m, p, x)
             /\ a[x].Scheduler = NoScheduler /\ a[x].NumaDisable = Default
    BY BasesAre
  <1> HIDE DEF scheds
  <1>5. /\ Len(s) \in Nat /\ DOMAIN s = 1 .. Len(s)
        /\ Len(d) \in Nat /\ DOMAIN d = 1 .. Len(d)
    <2>1. s = OrOne(scheds, NoScheduler)
      BY <1>s DEF scheds
    <2> QED BY <1>2, <1>3, <1>d, <2>1, OrOneIs
  <1> HIDE DEF a
  <1>6. /\ IsSlice(b) /\ Len(b) = Len(l) * Len(s)
        /\ \A x \in 1 .. Len(l), y \in 1 .. Len(s) :
             LET q == b[(x - 1) * Len(s) + y] IN
             /\ q.Label = a[x].Label /\ q.WorkerSets = a[x].WorkerSets
             /\ q.Scheduler = s[y] /\ q.NumaDisable = a[x].NumaDisable
    <2>1. s = OrOne(scheds, NoScheduler)
      BY <1>s DEF scheds
    <2>2. \A x \in 1 .. Len(a) : a[x].Scheduler = NoScheduler
      BY <1>4
    <2>3. IsSlice(a)
      BY <1>4
    <2>4. CrossedWithSchedulers(b, a, s)
      BY <1>2, <2>1, <2>2, <2>3, SchedulersCrossed
    <2> QED BY <1>4, <2>4 DEF CrossedWithSchedulers
  <1> HIDE DEF b
  <1>7. \A k \in 1 .. Len(b) : b[k].NumaDisable = Default
    <2> SUFFICES ASSUME NEW k \in 1 .. Len(l) * Len(s) PROVE b[k].NumaDisable = Default
      BY <1>6
    <2> DEFINE x == (k - 1) \div Len(s) + 1
               y == ((k - 1) % Len(s)) + 1
    <2>1. Len(s) > 0
      <3>1. Len(l) * 0 = 0
        BY <1>4
      <3>2. Len(s) # 0
        BY <3>1
      <3> QED BY <1>5, <3>2
    <2>2. x \in 1 .. Len(l) /\ y \in 1 .. Len(s)
      BY <1>4, <1>5, <2>1, PlaceIs
    <2>3. k = (x - 1) * Len(s) + y
      <3>1. k \in Int
        <4>1. Len(l) * Len(s) \in Int
          BY <1>4, <1>5
        <4> QED BY <4>1
      <3> QED BY <1>5, <2>1, <3>1, PlaceAgain
    <2> HIDE DEF x, y
    <2>4. b[k].NumaDisable = a[x].NumaDisable
      BY <1>6, <2>2, <2>3
    <2> QED BY <1>4, <2>2, <2>4
  <1>8. CrossedWithNumaDisable(r, b, d)
    BY <1>3, <1>6, <1>7, <1>d, NumaDisableCrossed
  <1>9. IsSlice(r) /\ Len(r) = Len(l) * Len(s) * Len(d)
    BY <1>6, <1>8 DEF CrossedWithNumaDisable
  <1>10. ASSUME NEW x \in 1 .. Len(l), NEW y \in 1 .. Len(s), NEW z \in 1 .. Len(d)
         PROVE  LET run == r[(((x - 1) * Len(s)) + y - 1) * Len(d) + z] IN
                /\ run.Label = l[x] /\ run.Scheduler = s[y] /\ run.NumaDisable = d[z]
                /\ run.WorkerSets = SetsOf(m, p, x)
    <2> DEFINE k == (x - 1) * Len(s) + y
    <2>1. k \in 1 .. Len(b)
      BY <1>4, <1>5, <1>6, PlacesOfThree
    <2>2. /\ b[k].Label = l[x] /\ b[k].WorkerSets = SetsOf(m, p, x) /\ b[k].Scheduler = s[y]
      <3>1. /\ b[k].Label = a[x].Label /\ b[k].WorkerSets = a[x].WorkerSets
            /\ b[k].Scheduler = s[y]
        BY <1>6
      <3> HIDE DEF k
      <3> QED BY <1>4, <3>1
    <2> DEFINE j == (k - 1) * Len(d) + z
    <2>3. j = (((x - 1) * Len(s)) + y - 1) * Len(d) + z
      OBVIOUS
    <2> HIDE DEF k, r
    <2>4. /\ r[j].Label = b[k].Label /\ r[j].WorkerSets = b[k].WorkerSets
          /\ r[j].Scheduler = b[k].Scheduler /\ r[j].NumaDisable = d[z]
      BY <1>8, <2>1 DEF CrossedWithNumaDisable
    <2> HIDE DEF j
    <2>5. /\ r[j].Label = l[x] /\ r[j].Scheduler = s[y] /\ r[j].NumaDisable = d[z]
          /\ r[j].WorkerSets = SetsOf(m, p, x)
      BY <2>2, <2>4
    <2> QED BY <2>3, <2>5
  <1>11. \A x, y, z : Place(m, x, y, z) = (((x - 1) * Len(s)) + y - 1) * Len(d) + z
    BY DEF Place
  <1> QED BY <1>1, <1>4, <1>5, <1>9, <1>10, <1>11

(***************************************************************************)
(* The commands.                                                           *)
(***************************************************************************)

\* After an accepted command the runs are the expansion of its input, and its
\* own presets are the ones that stand.
Expansion ==
  /\ presets \in Presets /\ input \in Inputs
  /\ ended = "ok" =>
       /\ runs = Expanded(input.SimpleMatrix, presets)
       /\ \A n \in input.own : presets[n] = input.WorkerPresets[n]

LEMMA MergedIs ==
  ASSUME Expansion, NEW in \in Inputs
  PROVE  /\ Merged(in) \in Presets
         /\ \A n \in in.own : Merged(in)[n] = in.WorkerPresets[n]
  <1>1. in \in Input /\ presets \in Presets
    BY ExpandAssumption DEF Expansion
  <1>2. in.own \subseteq Preset /\ in.WorkerPresets \in Presets
    BY <1>1 DEF Input
  <1> QED BY <1>1, <1>2 DEF Merged, Presets

LEMMA ExpansionHolds == Spec => []Expansion
  <1>1. Init => Expansion
    BY ExpandAssumption DEF Init, Expansion
  <1>2. Expansion /\ [Next]_vars => Expansion'
    <2> SUFFICES ASSUME Expansion, [Next]_vars PROVE Expansion'
      OBVIOUS
    <2>1. CASE NewProcess
      BY <2>1, ExpandAssumption DEF NewProcess, Expansion
    <2>2. ASSUME NEW in \in Inputs, NEW template \in BOOLEAN, PlanCommand(in, template)
          PROVE  Expansion'
      <3>1. /\ input' = in
            /\ presets' = IF ended' \in {"ok", "preset"} THEN Merged(in) ELSE presets
            /\ ended' = "ok" => runs' = Expanded(in.SimpleMatrix, Merged(in))
        BY <2>2 DEF PlanCommand
      <3>2. presets' \in Presets /\ input' \in Inputs
        BY <3>1, MergedIs DEF Expansion
      <3>3. ASSUME ended' = "ok"
            PROVE  /\ runs' = Expanded(input'.SimpleMatrix, presets')
                   /\ \A n \in input'.own : presets'[n] = input'.WorkerPresets[n]
        <4>1. presets' = Merged(in) /\ runs' = Expanded(in.SimpleMatrix, Merged(in))
          BY <3>1, <3>3
        <4> QED BY <3>1, <4>1, MergedIs
      <3> QED BY <3>2, <3>3 DEF Expansion, Expanded, Baselines, Counts, BySchedulers,
                 ByNumaDisable, Schedulers, WorkerSet
    <2>3. CASE UNCHANGED vars
      BY <2>3 DEF vars, Expansion
    <2> QED BY <2>1, <2>2, <2>3 DEF Next
  <1> QED BY <1>1, <1>2, PTL DEF Spec

\* What IsRunOf says of the WorkerSets is what SetsOf gives.
LEMMA SetsAre ==
  ASSUME NEW m \in Matrix, NEW p, NEW x \in Nat, NEW t, t = SetsOf(m, p, x)
  PROVE  /\ x <= Len(m.Workers) => t = <<[Params |-> p[m.Workers[x]], Count |-> 1]>>
         /\ x > Len(m.Workers) =>
              /\ Len(t) = Len(m.Workers)
              /\ \A w \in DOMAIN m.Workers :
                   t[w] = [Params |-> p[m.Workers[w]], Count |-> m.Count[x - Len(m.Workers)]]
  <1> DEFINE n == Len(m.Workers)
             c == m.Count[x - n]
  <1>1. n \in Nat /\ DOMAIN m.Workers = 1 .. n
    BY LenProperties DEF Matrix
  <1> DEFINE One(w, k) == WorkerSet(p, m.Workers[w], k)
  <1>2. t = IF x <= n THEN <<One(x, 1)>> ELSE [w \in 1 .. n |-> One(w, c)]
    BY DEF SetsOf
  <1>3. \A w, k : One(w, k) = [Params |-> p[m.Workers[w]], Count |-> k]
    BY DEF WorkerSet
  <1> HIDE DEF n, c, One
  <1>4. x <= n => t = <<One(x, 1)>>
    BY <1>2
  <1>5. x > n => Len(t) = n /\ \A w \in 1 .. n : t[w] = One(w, c)
    <2> SUFFICES ASSUME x > n PROVE Len(t) = n /\ \A w \in 1 .. n : t[w] = One(w, c)
      OBVIOUS
    <2>1. t = [w \in 1 .. n |-> One(w, c)]
      BY <1>1, <1>2
    <2>2. \A w \in 1 .. n : One(w, c) \in {One(u, c) : u \in 1 .. n}
      OBVIOUS
    <2>3. Len([w \in 1 .. n |-> One(w, c)]) = n
      BY <1>1, <2>2, IsASeq
    <2> QED BY <2>1, <2>3
  <1>6. /\ x <= n => t = <<[Params |-> p[m.Workers[x]], Count |-> 1]>>
        /\ x > n => /\ Len(t) = n
                    /\ \A w \in 1 .. n : t[w] = [Params |-> p[m.Workers[w]], Count |-> c]
    BY <1>3, <1>4, <1>5
  <1> QED BY <1>1, <1>6 DEF n, c

LEMMA PlanOfExpansion == Expansion => PlanIsTheMatrix
  <1> DEFINE m == input.SimpleMatrix
             args == [n \in Preset |-> IF n \in input.own THEN input.WorkerPresets[n]
                                       ELSE Builtin[n]]
             Len3 == Len(Labels(m)) * Len(AllScheds(m)) * Len(AllNumas(m))
  <1> SUFFICES ASSUME Expansion, ended = "ok", ToSet(m.Workers) \cap Leaked = {}
               PROVE  /\ Len(runs) = Len3
                      /\ \A x \in DOMAIN Labels(m), y \in DOMAIN AllScheds(m),
                            z \in DOMAIN AllNumas(m) :
                           \E i \in DOMAIN runs : IsRunOf(runs[i], m, args, x, y, z)
    BY Zenon DEF PlanIsTheMatrix
  <1>1. m \in Matrix /\ input.own \subseteq Preset
    BY ExpandAssumption DEF Expansion, Input
  <1>2. runs = Expanded(m, presets)
    BY DEF Expansion
  <1>3. \A w \in DOMAIN m.Workers : args[m.Workers[w]] = presets[m.Workers[w]]
    <2> SUFFICES ASSUME NEW w \in DOMAIN m.Workers
                 PROVE  args[m.Workers[w]] = presets[m.Workers[w]]
      OBVIOUS
    <2>1. m.Workers[w] \in Preset
      BY <1>1 DEF Matrix
    <2>2. m.Workers[w] \in ToSet(m.Workers)
      BY DEF ToSet
    <2>3. m.Workers[w] \in input.own => presets[m.Workers[w]] = input.WorkerPresets[m.Workers[w]]
      BY DEF Expansion
    <2>4. m.Workers[w] \notin Leaked
      BY <2>2
    <2> HIDE DEF m
    <2> QED BY <2>1, <2>3, <2>4 DEF Leaked
  <1> HIDE DEF m, args
  <1>4. /\ Len(runs) = Len3 /\ DOMAIN Labels(m) = 1 .. Len(Labels(m))
        /\ \A x \in DOMAIN Labels(m), y \in DOMAIN AllScheds(m), z \in DOMAIN AllNumas(m) :
             LET run == runs[Place(m, x, y, z)] IN
             /\ run.Label = Labels(m)[x] /\ run.Scheduler = AllScheds(m)[y]
             /\ run.NumaDisable = AllNumas(m)[z]
             /\ run.WorkerSets = SetsOf(m, presets, x)
             /\ Place(m, x, y, z) \in DOMAIN runs
    <2> DEFINE l == Labels(m)
               s == AllScheds(m)
               d == AllNumas(m)
               r == Expanded(m, presets)
    <2>0. \A x, y, z : Place(m, x, y, z) = (((x - 1) * Len(s)) + y - 1) * Len(d) + z
      BY DEF Place
    <2> HIDE DEF l, s, d, r
    <2>1. /\ Len(l) \in Nat /\ DOMAIN l = 1 .. Len(l)
          /\ Len(s) \in Nat /\ DOMAIN s = 1 .. Len(s)
          /\ Len(d) \in Nat /\ DOMAIN d = 1 .. Len(d)
          /\ IsSlice(r) /\ Len(r) = Len(l) * Len(s) * Len(d)
          /\ \A x \in 1 .. Len(l), y \in 1 .. Len(s), z \in 1 .. Len(d) :
               LET run == r[Place(m, x, y, z)] IN
               /\ run.Label = l[x] /\ run.Scheduler = s[y] /\ run.NumaDisable = d[z]
               /\ run.WorkerSets = SetsOf(m, presets, x)
      BY <1>1, ExpandedIs DEF l, s, d, r
    <2>2. runs = r
      BY <1>2 DEF r
    <2>3. DOMAIN r = 1 .. Len(r)
      BY <2>1, LenProperties DEF IsSlice
    <2>4. \A x \in 1 .. Len(l), y \in 1 .. Len(s), z \in 1 .. Len(d) :
            Place(m, x, y, z) \in DOMAIN r
      <3> SUFFICES ASSUME NEW x \in 1 .. Len(l), NEW y \in 1 .. Len(s), NEW z \in 1 .. Len(d)
                   PROVE  Place(m, x, y, z) \in DOMAIN r
        OBVIOUS
      <3>1. (((x - 1) * Len(s)) + y - 1) * Len(d) + z \in 1 .. Len(l) * Len(s) * Len(d)
        BY <2>1, PlacesOfThree
      <3> QED BY <2>0, <2>1, <2>3, <3>1, Zenon
    <2> QED BY <2>1, <2>2, <2>4 DEF l, s, d
  <1>5. ASSUME NEW x \in DOMAIN Labels(m), NEW y \in DOMAIN AllScheds(m),
               NEW z \in DOMAIN AllNumas(m)
        PROVE  IsRunOf(runs[Place(m, x, y, z)], m, args, x, y, z)
    <2> DEFINE run == runs[Place(m, x, y, z)]
    <2>1. /\ run.Label = Labels(m)[x] /\ run.Scheduler = AllScheds(m)[y]
          /\ run.NumaDisable = AllNumas(m)[z]
          /\ run.WorkerSets = SetsOf(m, presets, x)
      BY <1>4
    <2> HIDE DEF run
    <2>2. x \in Nat
      BY <1>4
    <2>3. LET t == run.WorkerSets IN
          /\ x <= Len(m.Workers) => t = <<[Params |-> presets[m.Workers[x]], Count |-> 1]>>
          /\ x > Len(m.Workers) =>
               /\ Len(t) = Len(m.Workers)
               /\ \A w \in DOMAIN m.Workers :
                    t[w] = [Params |-> presets[m.Workers[w]],
                            Count |-> m.Count[x - Len(m.Workers)]]
      BY <1>1, <2>1, <2>2, SetsAre
    <2>4. x <= Len(m.Workers) => x \in DOMAIN m.Workers
      <3>1. DOMAIN m.Workers = 1 .. Len(m.Workers) /\ x >= 1
        BY <1>1, <1>4, LenProperties DEF Matrix
      <3> QED BY <2>2, <3>1
    <2>5. IsRunOf(run, m, args, x, y, z)
      BY <1>3, <2>1, <2>3, <2>4 DEF IsRunOf
    <2> QED BY <2>5 DEF run
  <1> QED BY <1>4, <1>5

\* For every set of plan files, and whatever lists they have, the runs of an
\* accepted plan command (ExpandInput) are the combinations of its input, with its
\* own presets or the program's.
THEOREM PlanMatches == Spec => []PlanIsTheMatrix
  BY ExpansionHolds, PlanOfExpansion, PTL

==============================================================================
