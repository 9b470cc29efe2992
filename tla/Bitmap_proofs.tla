---------------------------- MODULE Bitmap_proofs ----------------------------
(***************************************************************************)
(* The Bitmap for bitmaps of any length: its bytes and masks implement a   *)
(* set of cpus, and the list of ranges that String writes names them.      *)
(* ListInv is the invariant of String's loop.                              *)
(***************************************************************************)
EXTENDS Bitmap, TLAPS

-----------------------------------------------------------------------------
(* Bits and bytes.                                                         *)

\* A cpu number is a byte and a bit, and no two pairs are the same number.
LEMMA ByteOf ==
  ASSUME NEW c \in Nat
  PROVE  c \div 8 \in Nat /\ (c % 8) \in 0 .. 7 /\ c = 8 * (c \div 8) + (c % 8)
  OBVIOUS

LEMMA NumberOf ==
  ASSUME NEW k \in Nat \ {0}, NEW b \in 0 .. 7
  PROVE  /\ 8 * (k - 1) + b \in Nat
         /\ (8 * (k - 1) + b) \div 8 + 1 = k /\ (8 * (k - 1) + b) % 8 = b
  OBVIOUS

LEMMA InTheMap ==
  ASSUME NEW n \in Nat, NEW c \in Nat
  PROVE  c <= n * 8 - 1 <=> c \div 8 + 1 \in 1 .. n
  OBVIOUS

\* The cpus of a map are those that Test finds in it.
LEMMA TestedCpus ==
  ASSUME NEW bm \in Seq(Byte)
  PROVE  /\ Cpus(bm) \subseteq Nat
         /\ \A c \in Nat : c \in Cpus(bm) <=> Test(bm, c)
  <1>0. Len(bm) \in Nat
    OBVIOUS
  <1>1. ASSUME NEW c \in Cpus(bm) PROVE c \in Nat /\ Test(bm, c)
    <2>1. PICK x \in (1 .. Len(bm)) \X (0 .. 7) : x[2] \in bm[x[1]] /\ c = 8 * (x[1] - 1) + x[2]
      BY <1>1 DEF Cpus
    <2>2. x[1] \in 1 .. Len(bm) /\ x[1] \in Nat \ {0} /\ x[2] \in 0 .. 7
      BY <1>0, <2>1
    <2>3. c \in Nat /\ c \div 8 + 1 = x[1] /\ c % 8 = x[2]
      BY <2>1, <2>2, NumberOf
    <2>4. c <= Len(bm) * 8 - 1
      BY <1>0, <2>2, <2>3, InTheMap
    <2> QED BY <2>1, <2>3, <2>4 DEF Test, Max
  <1>2. ASSUME NEW c \in Nat, Test(bm, c) PROVE c \in Cpus(bm)
    <2> DEFINE x == <<c \div 8 + 1, c % 8>>
    <2>1. c \div 8 + 1 \in 1 .. Len(bm) /\ (c % 8) \in 0 .. 7
      BY <1>0, <1>2, ByteOf, InTheMap DEF Test, Max
    <2>2. x \in (1 .. Len(bm)) \X (0 .. 7) /\ x[2] \in bm[x[1]]
      BY <1>2, <2>1 DEF Test
    <2>3. c = 8 * (x[1] - 1) + x[2]
      BY ByteOf
    <2> QED BY <2>2, <2>3 DEF Cpus
  <1> QED BY <1>1, <1>2

\* A map as long as n bytes, given byte by byte.
LEMMA BytesAreAMap ==
  ASSUME NEW n \in Nat, NEW f \in [1 .. n -> Byte]
  PROVE  f \in Seq(Byte) /\ Len(f) = n
  OBVIOUS

LEMMA LongerIs ==
  ASSUME NEW a \in Nat, NEW b \in Nat
  PROVE  Longer(a, b) \in Nat /\ Longer(a, b) >= a /\ Longer(a, b) >= b
  BY DEF Longer

\* Two maps with the same bytes up to a byte have the same cpus there.
LEMMA SetIsUnion ==
  ASSUME NEW bm \in Seq(Byte), NEW bit \in Nat
  PROVE  SetBit(bm, bit) \in Seq(Byte) /\ Cpus(SetBit(bm, bit)) = Cpus(bm) \cup {bit}
  <1> DEFINE n == Longer(bit \div 8 + 1, Len(bm))
             new == SetBit(bm, bit)
  <1>0. Len(bm) \in Nat /\ bit \div 8 + 1 \in Nat
    BY ByteOf
  <1>1. n \in Nat /\ n >= Len(bm) /\ n >= bit \div 8 + 1 /\ Len(bm) \in Nat
    BY <1>0, LongerIs
  <1>2. new \in [1 .. n -> Byte]
    BY ByteOf DEF SetBit, ByteAt, Byte
  <1>3. new \in Seq(Byte) /\ Len(new) = n
    BY <1>1, <1>2, BytesAreAMap
  <1>4. ASSUME NEW c \in Nat PROVE Test(new, c) <=> Test(bm, c) \/ c = bit
    <2>1. /\ c <= Max(new) <=> c \div 8 + 1 \in 1 .. n
          /\ c <= Max(bm) <=> c \div 8 + 1 \in 1 .. Len(bm)
      BY <1>1, <1>3, InTheMap DEF Max
    <2>2. c \div 8 + 1 \in 1 .. n =>
            new[c \div 8 + 1] = ByteAt(bm, c \div 8 + 1) \cup
              (IF c \div 8 + 1 = bit \div 8 + 1 THEN {bit % 8} ELSE {})
      BY DEF SetBit
    <2>3. c = bit <=> (c \div 8 + 1 = bit \div 8 + 1 /\ c % 8 = bit % 8)
      BY ByteOf
    <2>4. bit \div 8 + 1 \in 1 .. n /\ c \div 8 + 1 >= 1
      BY <1>1, ByteOf
    <2>5. c \div 8 + 1 \in 1 .. Len(bm) => c \div 8 + 1 \in 1 .. n
      BY <1>1, ByteOf
    <2> HIDE DEF new, n
    <2> QED BY <1>1, <2>1, <2>2, <2>3, <2>4, <2>5, ByteOf DEF Test, ByteAt
  <1>5. bit \in Nat
    OBVIOUS
  <1> HIDE DEF new, n
  <1>6. Cpus(new) = Cpus(bm) \cup {bit}
    BY <1>3, <1>4, <1>5, TestedCpus
  <1> QED BY <1>3, <1>6 DEF new

LEMMA ClearIsMinus ==
  ASSUME NEW bm \in Seq(Byte), NEW bit \in Nat
  PROVE  ClearBit(bm, bit) \in Seq(Byte) /\ Cpus(ClearBit(bm, bit)) = Cpus(bm) \ {bit}
  <1> DEFINE new == ClearBit(bm, bit)
  <1>1. Len(bm) \in Nat
    OBVIOUS
  <1>2. CASE bit > Max(bm)
    <2>1. ~Test(bm, bit)
      BY <1>1, <1>2 DEF Test, Max
    <2> QED BY <1>2, <2>1, TestedCpus DEF ClearBit
  <1>3. CASE ~(bit > Max(bm))
    <2>1. bit \div 8 + 1 \in 1 .. Len(bm)
      BY <1>1, <1>3, InTheMap DEF Max
    <2>2. new = [bm EXCEPT ![bit \div 8 + 1] = bm[bit \div 8 + 1] \ {bit % 8}]
      BY <1>3 DEF ClearBit
    <2>3. bm[bit \div 8 + 1] \ {bit % 8} \in Byte
      BY <2>1 DEF Byte
    <2>4. new \in Seq(Byte) /\ Len(new) = Len(bm)
      BY <2>1, <2>2, <2>3
    <2>5. \A k \in 1 .. Len(bm) :
            new[k] = IF k = bit \div 8 + 1 THEN bm[k] \ {bit % 8} ELSE bm[k]
      <3> HIDE DEF new
      <3>1. bm \in [1 .. Len(bm) -> Byte]
        OBVIOUS
      <3> QED BY <2>1, <2>2, <3>1
    <2> HIDE DEF new
    <2>6. ASSUME NEW c \in Nat PROVE Test(new, c) <=> Test(bm, c) /\ c # bit
      <3>1. c <= Max(bm) <=> c \div 8 + 1 \in 1 .. Len(bm)
        BY <1>1, InTheMap DEF Max
      <3>2. c = bit <=> (c \div 8 + 1 = bit \div 8 + 1 /\ c % 8 = bit % 8)
        BY ByteOf
      <3>3. Max(new) = Max(bm)
        BY <2>4 DEF Max
      <3> QED BY <2>5, <3>1, <3>2, <3>3 DEF Test
    <2>7. Cpus(new) = Cpus(bm) \ {bit}
      BY <2>4, <2>6, TestedCpus
    <2> QED BY <2>4, <2>7 DEF new
  <1> QED BY <1>2, <1>3

LEMMA AndIsIntersection ==
  ASSUME NEW a \in Seq(Byte), NEW b \in Seq(Byte)
  PROVE  And(a, b) \in Seq(Byte) /\ Cpus(And(a, b)) = Cpus(a) \cap Cpus(b)
  <1> DEFINE n == Longer(Len(a), Len(b))
             new == And(a, b)
  <1>1. n \in Nat /\ n >= Len(a) /\ n >= Len(b) /\ Len(a) \in Nat /\ Len(b) \in Nat
    <2>1. Len(a) \in Nat /\ Len(b) \in Nat
      OBVIOUS
    <2> QED BY <2>1, LongerIs
  <1>2. new \in [1 .. n -> Byte]
    BY DEF And, ByteAt, Byte
  <1>3. new \in Seq(Byte) /\ Len(new) = n
    BY <1>1, <1>2, BytesAreAMap
  <1>4. \A k \in 1 .. n : new[k] = ByteAt(a, k) \cap ByteAt(b, k)
    BY DEF And
  <1> HIDE DEF new, n
  <1>5. ASSUME NEW c \in Nat PROVE Test(new, c) <=> Test(a, c) /\ Test(b, c)
    <2>1. /\ c <= Max(new) <=> c \div 8 + 1 \in 1 .. n
          /\ c <= Max(a) <=> c \div 8 + 1 \in 1 .. Len(a)
          /\ c <= Max(b) <=> c \div 8 + 1 \in 1 .. Len(b)
      BY <1>1, <1>3, InTheMap DEF Max
    <2>2. c \div 8 + 1 \in Nat /\ c \div 8 + 1 >= 1
      BY ByteOf
    <2> QED BY <1>1, <1>4, <2>1, <2>2 DEF Test, ByteAt
  <1>6. Cpus(new) = Cpus(a) \cap Cpus(b)
    BY <1>3, <1>5, TestedCpus
  <1> QED BY <1>3, <1>6 DEF new
-----------------------------------------------------------------------------
(* The list that String writes, as a function of the turn it has come to.  *)

Closed(item) ==
  /\ item.dash <=> item.hi # NoNumber
  /\ item.dash => item.hi > item.lo

\* The commas, the gaps, and every item but an open last one closed.
Form(str, on) ==
  \A n \in 1 .. Len(str) :
    /\ str[n].comma <=> n > 1
    /\ n > 1 => str[n].lo > Last(str[n - 1]) + 1
    /\ ~(on /\ n = Len(str)) => Closed(str[n])

\* The last item: open, with a dash if two cpus were seen; or over before j - 1.
AtEnd(str, on, cr, j) ==
  LET item == str[Len(str)] IN
  /\ on => /\ Len(str) > 0
           /\ item.lo <= j - 1 /\ (cr <=> item.lo < j - 1)
           /\ (item.dash <=> cr) /\ item.hi = NoNumber
  /\ ~on => ~cr /\ (Len(str) > 0 => Last(item) < j - 1)

\* The last cpu of an item, j - 1 while it is open.
Reach(str, on, j, n) == IF on /\ n = Len(str) THEN j - 1 ELSE Last(str[n])

\* The items so far name the cpus below j.
Covered(bm, str, on, j) ==
  \A c \in Nat : c < j /\ Test(bm, c) <=>
    \E n \in 1 .. Len(str) : str[n].lo <= c /\ c <= Reach(str, on, j, n)

Listed(bm, str, on, cr, j) ==
  /\ bm \in Seq(Byte) /\ str \in Seq(Item) /\ j \in Nat
  /\ on \in BOOLEAN /\ cr \in BOOLEAN
  /\ Form(str, on) /\ AtEnd(str, on, cr, j) /\ Covered(bm, str, on, j)

\* What an item is.
LEMMA ItemIs ==
  ASSUME NEW str \in Seq(Item), NEW n \in 1 .. Len(str)
  PROVE  /\ str[n] \in Item /\ str[n].lo \in Nat /\ str[n].hi \in Nat \cup {NoNumber}
         /\ str[n].comma \in BOOLEAN /\ str[n].dash \in BOOLEAN /\ Last(str[n]) \in Int
  <1>1. str[n] \in Item
    OBVIOUS
  <1>2. /\ str[n].lo \in Nat /\ str[n].hi \in Nat \cup {NoNumber}
        /\ str[n].comma \in BOOLEAN /\ str[n].dash \in BOOLEAN
    BY <1>1 DEF Item
  <1> QED BY <1>1, <1>2 DEF Last, NoNumber

LEMMA NothingListed ==
  ASSUME NEW bm \in Seq(Byte)
  PROVE  Listed(bm, <<>>, FALSE, FALSE, 0)
  BY DEF Listed, Form, AtEnd, Covered

\* A cpu that follows one that is not there begins an item.
LEMMA ListedCpu ==
  ASSUME NEW bm, NEW str, NEW j, Listed(bm, str, FALSE, FALSE, j), Test(bm, j),
         NEW comma \in BOOLEAN, comma <=> Len(str) > 0
  PROVE  Listed(bm, Append(str, [comma |-> comma, lo |-> j, dash |-> FALSE, hi |-> NoNumber]),
                TRUE, FALSE, j + 1)
  <1> DEFINE item == [comma |-> comma, lo |-> j, dash |-> FALSE, hi |-> NoNumber]
             new == Append(str, item)
  <1>1. bm \in Seq(Byte) /\ str \in Seq(Item) /\ j \in Nat /\ Len(str) \in Nat
    BY DEF Listed
  <1>2. /\ item \in Item /\ item.lo = j /\ item.dash = FALSE /\ item.hi = NoNumber
        /\ item.comma = comma
    BY <1>1 DEF Item
  <1> HIDE DEF item
  <1>3. new \in Seq(Item) /\ Len(new) = Len(str) + 1 /\ new[Len(str) + 1] = item
    BY <1>1, <1>2
  <1>4. \A n \in 1 .. Len(str) : new[n] = str[n]
    BY <1>1, <1>2
  <1> HIDE DEF new
  <1>5. Form(new, TRUE)
    <2> SUFFICES ASSUME NEW n \in 1 .. Len(new)
                 PROVE  /\ new[n].comma <=> n > 1
                        /\ n > 1 => new[n].lo > Last(new[n - 1]) + 1
                        /\ ~(TRUE /\ n = Len(new)) => Closed(new[n])
      BY DEF Form
    <2>1. CASE n \in 1 .. Len(str)
      <3>1. n > 1 => n - 1 \in 1 .. Len(str)
        BY <1>1, <2>1
      <3> QED BY <1>1, <1>4, <2>1, <3>1 DEF Listed, Form
    <2>2. CASE n = Len(str) + 1
      <3>1. n > 1 => /\ n - 1 = Len(str) /\ new[n - 1] = str[Len(str)]
                     /\ Last(str[Len(str)]) \in Int
        BY <1>1, <1>4, <2>2, ItemIs
      <3>2. n > 1 => Last(str[Len(str)]) < j - 1
        BY <1>1, <2>2 DEF Listed, AtEnd
      <3>3. new[n].comma <=> n > 1
        BY <1>1, <1>2, <1>3, <2>2
      <3> QED BY <1>1, <1>2, <1>3, <2>2, <3>1, <3>2, <3>3
    <2> QED BY <1>1, <1>3, <2>1, <2>2
  <1>6. AtEnd(new, TRUE, FALSE, j + 1)
    BY <1>1, <1>2, <1>3 DEF AtEnd
  <1>7. Covered(bm, new, TRUE, j + 1)
    <2> SUFFICES ASSUME NEW c \in Nat
                 PROVE  c < j + 1 /\ Test(bm, c) <=>
                          \E n \in 1 .. Len(new) :
                            new[n].lo <= c /\ c <= Reach(new, TRUE, j + 1, n)
      BY DEF Covered
    <2>1. c < j /\ Test(bm, c) <=>
            \E n \in 1 .. Len(str) : str[n].lo <= c /\ c <= Last(str[n])
      BY DEF Listed, Covered, Reach
    <2>2. \A n \in 1 .. Len(str) : Reach(new, TRUE, j + 1, n) = Last(str[n])
      BY <1>1, <1>3, <1>4 DEF Reach
    <2>3. Reach(new, TRUE, j + 1, Len(new)) = j
      BY <1>1 DEF Reach
    <2>4. c < j + 1 <=> c < j \/ c = j
      BY <1>1
    <2>5. new[Len(new)].lo <= c /\ c <= j <=> c = j
      BY <1>1, <1>2, <1>3
    <2>6. 1 .. Len(new) = (1 .. Len(str)) \cup {Len(new)}
      BY <1>1, <1>3
    <2> QED BY <1>4, <2>1, <2>2, <2>3, <2>4, <2>5, <2>6
  <1>8. Listed(bm, new, TRUE, FALSE, j + 1)
    <2>1. j + 1 \in Nat /\ TRUE \in BOOLEAN /\ FALSE \in BOOLEAN
      BY <1>1
    <2> QED BY <1>1, <1>3, <1>5, <1>6, <1>7, <2>1, Zenon DEF Listed
  <1> QED BY <1>8, Zenon DEF new, item

\* The list with the end of its last item written.
With(str, dash, hi) ==
  [str EXCEPT ![Len(str)] =
     [comma |-> str[Len(str)].comma, lo |-> str[Len(str)].lo, dash |-> dash, hi |-> hi]]

LEMMA WithIs ==
  ASSUME NEW str \in Seq(Item), Len(str) > 0,
         NEW dash \in BOOLEAN, NEW hi \in Nat \cup {NoNumber}
  PROVE  /\ With(str, dash, hi) \in Seq(Item)
         /\ Len(With(str, dash, hi)) = Len(str)
         /\ \A n \in 1 .. Len(str) : n # Len(str) => With(str, dash, hi)[n] = str[n]
         /\ With(str, dash, hi)[Len(str)].comma = str[Len(str)].comma
         /\ With(str, dash, hi)[Len(str)].lo = str[Len(str)].lo
         /\ With(str, dash, hi)[Len(str)].dash = dash
         /\ With(str, dash, hi)[Len(str)].hi = hi
  <1> DEFINE item == [comma |-> str[Len(str)].comma, lo |-> str[Len(str)].lo,
                      dash |-> dash, hi |-> hi]
  <1>1. Len(str) \in 1 .. Len(str)
    OBVIOUS
  <1>2. item \in Item
    BY <1>1, ItemIs DEF Item
  <1>3. /\ item.comma = str[Len(str)].comma /\ item.lo = str[Len(str)].lo
        /\ item.dash = dash /\ item.hi = hi
    OBVIOUS
  <1> HIDE DEF item
  <1>4. With(str, dash, hi) = [str EXCEPT ![Len(str)] = item]
    BY DEF With, item
  <1>5. /\ With(str, dash, hi) \in Seq(Item) /\ Len(With(str, dash, hi)) = Len(str)
        /\ \A n \in 1 .. Len(str) : n # Len(str) => With(str, dash, hi)[n] = str[n]
        /\ With(str, dash, hi)[Len(str)] = item
    BY <1>1, <1>2, <1>4
  <1> QED BY <1>3, <1>5

\* A second cpu in a row opens a range, and more of them go on with it.
LEMMA ListedDash ==
  ASSUME NEW bm, NEW str, NEW j, Listed(bm, str, TRUE, FALSE, j), Test(bm, j)
  PROVE  Listed(bm, With(str, TRUE, str[Len(str)].hi), TRUE, TRUE, j + 1)
  <1> DEFINE last == Len(str)
             new == With(str, TRUE, str[Len(str)].hi)
  <1>1. /\ bm \in Seq(Byte) /\ str \in Seq(Item) /\ j \in Nat /\ last \in Nat /\ last > 0
        /\ str[last].lo <= j - 1 /\ ~(str[last].lo < j - 1) /\ str[last].hi = NoNumber
    BY DEF Listed, AtEnd
  <1>2. last \in 1 .. last /\ str[last].lo \in Nat
    BY <1>1, ItemIs
  <1>3. /\ new \in Seq(Item) /\ Len(new) = last
        /\ \A n \in 1 .. last : n # last => new[n] = str[n]
        /\ new[last].comma = str[last].comma /\ new[last].lo = str[last].lo
        /\ new[last].dash = TRUE /\ new[last].hi = NoNumber
    <2>1. str[last].hi \in Nat \cup {NoNumber} /\ TRUE \in BOOLEAN
      BY <1>1
    <2>2. new = With(str, TRUE, NoNumber)
      BY <1>1
    <2> HIDE DEF new
    <2>3. /\ With(str, TRUE, NoNumber) \in Seq(Item)
          /\ Len(With(str, TRUE, NoNumber)) = Len(str)
          /\ \A n \in 1 .. Len(str) : n # Len(str) => With(str, TRUE, NoNumber)[n] = str[n]
          /\ With(str, TRUE, NoNumber)[Len(str)].comma = str[Len(str)].comma
          /\ With(str, TRUE, NoNumber)[Len(str)].lo = str[Len(str)].lo
          /\ With(str, TRUE, NoNumber)[Len(str)].dash = TRUE
          /\ With(str, TRUE, NoNumber)[Len(str)].hi = NoNumber
      <3>1. str \in Seq(Item) /\ Len(str) > 0 /\ NoNumber \in Nat \cup {NoNumber}
        BY <1>1
      <3> QED BY <2>1, <3>1, WithIs, Zenon
    <2> QED BY <2>2, <2>3
  <1> HIDE DEF new
  <1>4. Form(new, TRUE)
    <2>1. \A n \in 1 .. last : n > 1 => n - 1 \in 1 .. last /\ n - 1 # last
      BY <1>1
    <2> QED BY <1>1, <1>2, <1>3, <2>1 DEF Listed, Form
  <1>5. AtEnd(new, TRUE, TRUE, j + 1)
    BY <1>1, <1>2, <1>3 DEF AtEnd
  <1>6. Covered(bm, new, TRUE, j + 1)
    <2> SUFFICES ASSUME NEW c \in Nat
                 PROVE  c < j + 1 /\ Test(bm, c) <=>
                          \E n \in 1 .. last :
                            new[n].lo <= c /\ c <= Reach(new, TRUE, j + 1, n)
      BY <1>3 DEF Covered
    <2>1. c < j /\ Test(bm, c) <=>
            \E n \in 1 .. last : str[n].lo <= c /\ c <= Reach(str, TRUE, j, n)
      BY DEF Listed, Covered
    <2>2. \A n \in 1 .. last : n # last =>
            new[n].lo = str[n].lo /\ Reach(new, TRUE, j + 1, n) = Reach(str, TRUE, j, n)
      BY <1>3 DEF Reach
    <2>3. Reach(new, TRUE, j + 1, last) = j /\ Reach(str, TRUE, j, last) = j - 1
      BY <1>1, <1>3 DEF Reach
    <2>4. new[last].lo <= c /\ c <= j <=> (str[last].lo <= c /\ c <= j - 1) \/ c = j
      BY <1>1, <1>2, <1>3
    <2>5. c < j + 1 <=> c < j \/ c = j
      BY <1>1
    <2> QED BY <1>2, <2>1, <2>2, <2>3, <2>4, <2>5
  <1>7. Listed(bm, new, TRUE, TRUE, j + 1)
    <2>1. j + 1 \in Nat /\ TRUE \in BOOLEAN
      BY <1>1
    <2> QED BY <1>1, <1>3, <1>4, <1>5, <1>6, <2>1, Zenon DEF Listed
  <1> QED BY <1>7, Zenon DEF new

LEMMA ListedMore ==
  ASSUME NEW bm, NEW str, NEW j, Listed(bm, str, TRUE, TRUE, j), Test(bm, j)
  PROVE  Listed(bm, str, TRUE, TRUE, j + 1)
  <1> DEFINE last == Len(str)
  <1>1. /\ bm \in Seq(Byte) /\ str \in Seq(Item) /\ j \in Nat /\ last \in Nat /\ last > 0
        /\ str[last].lo <= j - 1 /\ str[last].lo < j - 1
        /\ str[last].dash /\ str[last].hi = NoNumber
    BY DEF Listed, AtEnd
  <1>2. last \in 1 .. last /\ str[last].lo \in Nat
    BY <1>1, ItemIs
  <1>3. AtEnd(str, TRUE, TRUE, j + 1)
    BY <1>1, <1>2 DEF AtEnd
  <1>4. Covered(bm, str, TRUE, j + 1)
    <2> SUFFICES ASSUME NEW c \in Nat
                 PROVE  c < j + 1 /\ Test(bm, c) <=>
                          \E n \in 1 .. last :
                            str[n].lo <= c /\ c <= Reach(str, TRUE, j + 1, n)
      BY DEF Covered
    <2>1. c < j /\ Test(bm, c) <=>
            \E n \in 1 .. last : str[n].lo <= c /\ c <= Reach(str, TRUE, j, n)
      BY DEF Listed, Covered
    <2>2. \A n \in 1 .. last : n # last =>
            Reach(str, TRUE, j + 1, n) = Reach(str, TRUE, j, n)
      BY DEF Reach
    <2>3. Reach(str, TRUE, j + 1, last) = j /\ Reach(str, TRUE, j, last) = j - 1
      BY <1>1 DEF Reach
    <2>4. str[last].lo <= c /\ c <= j <=> (str[last].lo <= c /\ c <= j - 1) \/ c = j
      BY <1>1, <1>2
    <2>5. c < j + 1 <=> c < j \/ c = j
      BY <1>1
    <2> QED BY <1>2, <2>1, <2>2, <2>3, <2>4, <2>5
  <1>5. j + 1 \in Nat
    BY <1>1
  <1> QED BY <1>3, <1>4, <1>5, Zenon DEF Listed

\* Where the range at hand, if there is one, is ended, every item is over.
Ended(str, on, cr, j) == IF on /\ cr THEN With(str, str[Len(str)].dash, j - 1) ELSE str

LEMMA ListEnded ==
  ASSUME NEW bm, NEW str, NEW on, NEW cr, NEW j, Listed(bm, str, on, cr, j)
  PROVE  /\ Ended(str, on, cr, j) \in Seq(Item)
         /\ Len(Ended(str, on, cr, j)) > 0 <=> Len(str) > 0
         /\ Form(Ended(str, on, cr, j), FALSE)
         /\ Covered(bm, Ended(str, on, cr, j), FALSE, j)
         /\ Len(Ended(str, on, cr, j)) > 0 =>
              Last(Ended(str, on, cr, j)[Len(Ended(str, on, cr, j))]) <= j - 1
  <1> DEFINE last == Len(str)
             new == Ended(str, on, cr, j)
  <1>1. bm \in Seq(Byte) /\ str \in Seq(Item) /\ j \in Nat /\ last \in Nat
    BY DEF Listed
  <1>2. last > 0 => last \in 1 .. last /\ str[last].lo \in Nat /\ Last(str[last]) \in Int
    BY <1>1, ItemIs
  <1>3. CASE ~on
    <2>1. new = str
      BY <1>3 DEF Ended
    <2> HIDE DEF new
    <2>2. Form(str, FALSE)
      BY <1>3 DEF Listed, Form
    <2>3. Covered(bm, str, FALSE, j)
      BY <1>3 DEF Listed, Covered, Reach
    <2>4. last > 0 => Last(str[last]) <= j - 1
      BY <1>1, <1>2, <1>3 DEF Listed, AtEnd
    <2>5. /\ new \in Seq(Item) /\ (Len(new) > 0 <=> last > 0) /\ Form(new, FALSE)
          /\ Covered(bm, new, FALSE, j)
          /\ Len(new) > 0 => Last(new[Len(new)]) <= j - 1
      BY <1>1, <2>1, <2>2, <2>3, <2>4
    <2> QED BY <2>5, Zenon DEF new
  <1>4. CASE on /\ ~cr
    <2>1. new = str
      BY <1>4 DEF Ended
    <2> HIDE DEF new
    <2>2. /\ last > 0 /\ str[last].lo = j - 1 /\ ~str[last].dash /\ str[last].hi = NoNumber
      BY <1>1, <1>2, <1>4 DEF Listed, AtEnd
    <2>3. Last(str[last]) = j - 1 /\ Closed(str[last])
      BY <2>2 DEF Last, Closed
    <2>4. Form(str, FALSE)
      BY <1>1, <1>4, <2>3 DEF Listed, Form
    <2>5. \A n \in 1 .. last : Reach(str, on, j, n) = Reach(str, FALSE, j, n)
      BY <1>4, <2>3 DEF Reach
    <2>6. Covered(bm, str, FALSE, j)
      BY <2>5 DEF Listed, Covered
    <2>7. /\ new \in Seq(Item) /\ (Len(new) > 0 <=> last > 0) /\ Form(new, FALSE)
          /\ Covered(bm, new, FALSE, j)
          /\ Len(new) > 0 => Last(new[Len(new)]) <= j - 1
      <3>1. Last(new[Len(new)]) <= j - 1
        BY <1>1, <2>1, <2>3
      <3> QED BY <1>1, <2>1, <2>4, <2>6, <3>1, Zenon
    <2> QED BY <2>7, Zenon DEF new
  <1>5. CASE on /\ cr
    <2>1. /\ last > 0 /\ str[last].lo < j - 1 /\ str[last].dash = TRUE
      BY <1>5, <1>1, <1>2, ItemIs DEF Listed, AtEnd
    <2>2. j - 1 \in Nat
      BY <1>1, <1>2, <2>1
    <2>3. str[last].dash \in BOOLEAN /\ j - 1 \in Nat \cup {NoNumber} /\ j - 1 # NoNumber
      BY <1>1, <1>2, <2>1, <2>2, ItemIs DEF NoNumber
    <2>4. new = With(str, str[last].dash, j - 1)
      BY <1>5 DEF Ended
    <2> HIDE DEF new
    <2>5. /\ new \in Seq(Item) /\ Len(new) = last
          /\ \A n \in 1 .. last : n # last => new[n] = str[n]
          /\ new[last].comma = str[last].comma /\ new[last].lo = str[last].lo
          /\ new[last].dash = str[last].dash /\ new[last].hi = j - 1
      BY <1>1, <2>1, <2>3, <2>4, WithIs
    <2>6. Last(new[last]) = j - 1 /\ Closed(new[last])
      BY <2>1, <2>3, <2>5 DEF Last, Closed
    <2>7. Form(new, FALSE)
      <3>1. \A n \in 1 .. last : n > 1 => n - 1 \in 1 .. last /\ n - 1 # last
        BY <1>1
      <3> QED BY <1>1, <1>2, <1>5, <2>1, <2>5, <2>6, <3>1 DEF Listed, Form
    <2>8. \A n \in 1 .. last : Reach(str, on, j, n) = Reach(new, FALSE, j, n)
      BY <1>5, <2>5, <2>6 DEF Reach
    <2>9. \A n \in 1 .. last : new[n].lo = str[n].lo
      BY <2>5
    <2>10. Covered(bm, new, FALSE, j)
      BY <2>5, <2>8, <2>9 DEF Listed, Covered
    <2>11. /\ new \in Seq(Item) /\ (Len(new) > 0 <=> last > 0) /\ Form(new, FALSE)
           /\ Covered(bm, new, FALSE, j)
           /\ Len(new) > 0 => Last(new[Len(new)]) <= j - 1
      <3>1. Last(new[Len(new)]) <= j - 1
        BY <1>1, <2>2, <2>5, <2>6
      <3> QED BY <2>5, <2>7, <2>10, <3>1, Zenon
    <2> QED BY <2>11, Zenon DEF new
  <1> QED BY <1>3, <1>4, <1>5

\* At a cpu that is not there no item is open any more.
LEMMA ListedGap ==
  ASSUME NEW bm, NEW str, NEW on, NEW cr, NEW j, Listed(bm, str, on, cr, j), ~Test(bm, j)
  PROVE  Listed(bm, Ended(str, on, cr, j), FALSE, FALSE, j + 1)
  <1> DEFINE new == Ended(str, on, cr, j)
  <1>1. bm \in Seq(Byte) /\ j \in Nat
    BY DEF Listed
  <1>2. /\ new \in Seq(Item) /\ Form(new, FALSE) /\ Covered(bm, new, FALSE, j)
        /\ Len(new) > 0 => Last(new[Len(new)]) <= j - 1
    BY ListEnded
  <1> HIDE DEF new
  <1>3. AtEnd(new, FALSE, FALSE, j + 1)
    <2>1. Len(new) \in Nat
      BY <1>2
    <2>2. Len(new) > 0 => Last(new[Len(new)]) \in Int
      BY <1>2, <2>1, ItemIs
    <2> QED BY <1>1, <1>2, <2>1, <2>2 DEF AtEnd
  <1>4. Covered(bm, new, FALSE, j + 1)
    <2>1. \A c \in Nat : c < j + 1 /\ Test(bm, c) <=> c < j /\ Test(bm, c)
      BY <1>1
    <2>2. \A n \in 1 .. Len(new) : Reach(new, FALSE, j + 1, n) = Reach(new, FALSE, j, n)
      BY DEF Reach
    <2> QED BY <1>2, <2>1, <2>2 DEF Covered
  <1>5. j + 1 \in Nat /\ FALSE \in BOOLEAN
    BY <1>1
  <1>6. Listed(bm, new, FALSE, FALSE, j + 1)
    BY <1>1, <1>2, <1>3, <1>4, <1>5, Zenon DEF Listed
  <1> QED BY <1>6, Zenon DEF new
-----------------------------------------------------------------------------
(* The invariant.                                                          *)

\* The list is complete: every item is over, and it is about all bits.
Complete == Form(s, FALSE) /\ Covered(bitmap, s, FALSE, i) /\ i > Max(bitmap)

ListInv ==
  /\ TypeOK
  /\ pc = "loop" => Listed(bitmap, s, lastOnline, crange, i) /\ (printed <=> Len(s) > 0)
  /\ pc = "done" => Complete

LEMMA ChangeStep ==
  ASSUME TypeOK, (\E bit \in Cpu : Set(bit) \/ Clear(bit)) \/ \E b \in Others : AndWith(b)
  PROVE  /\ TypeOK' /\ pc' = "idle" /\ pc # "loop"
         /\ AbstractSet!Next
  <1>0. bitmap \in Seq(Byte)
    BY DEF TypeOK
  <1> DEFINE Became(bm, call) == bm \in Seq(Byte) /\ Becomes(bm, call)
  <1>1. ASSUME NEW bm, NEW call, Became(bm, call)
        PROVE  TypeOK' /\ pc' = "idle" /\ pc # "loop" /\ bitmap' = bm /\ called' = call
    <2>1. /\ bitmap' = bm /\ called' = call /\ pc' = "idle" /\ pc # "loop" /\ i' = 0
          /\ lastOnline' = FALSE /\ crange' = FALSE /\ printed' = FALSE /\ s' = <<>>
          /\ bm \in Seq(Byte)
      BY <1>1, Zenon DEF Becomes, NewString
    <2>2. <<>> \in Seq(Item) /\ 0 \in Nat /\ FALSE \in BOOLEAN
      OBVIOUS
    <2> QED BY <2>1, <2>2, Zenon DEF TypeOK
  <1>2. CASE \E bit \in Cpu : Set(bit)
    <2>1. PICK bit \in Cpu : Set(bit)
      BY <1>2
    <2>2. bit \in Nat
      BY BitmapAssumption DEF Cpu
    <2>3. /\ Became(SetBit(bitmap, bit), <<"Set", bit>>)
          /\ Cpus(SetBit(bitmap, bit)) = Cpus(bitmap) \cup {bit}
      BY <1>0, <2>1, <2>2, SetIsUnion DEF Set
    <2>4. TypeOK' /\ pc' = "idle" /\ pc # "loop" /\ Cpus(bitmap)' = Cpus(bitmap) \cup {bit}
          /\ called' = <<"Set", bit>>
      BY <1>1, <2>3
    <2>5. AbstractSet!Add(bit)
      BY <2>4 DEF AbstractSet!Add
    <2> QED BY <2>4, <2>5 DEF AbstractSet!Next
  <1>3. CASE \E bit \in Cpu : Clear(bit)
    <2>1. PICK bit \in Cpu : Clear(bit)
      BY <1>3
    <2>2. bit \in Nat
      BY BitmapAssumption DEF Cpu
    <2>3. /\ Became(ClearBit(bitmap, bit), <<"Clear", bit>>)
          /\ Cpus(ClearBit(bitmap, bit)) = Cpus(bitmap) \ {bit}
      BY <1>0, <2>1, <2>2, ClearIsMinus DEF Clear
    <2>4. TypeOK' /\ pc' = "idle" /\ pc # "loop" /\ Cpus(bitmap)' = Cpus(bitmap) \ {bit}
          /\ called' = <<"Clear", bit>>
      BY <1>1, <2>3
    <2>5. AbstractSet!Remove(bit)
      BY <2>4 DEF AbstractSet!Remove
    <2> QED BY <2>4, <2>5 DEF AbstractSet!Next
  <1>4. CASE \E b \in Others : AndWith(b)
    <2>1. PICK b \in Others : AndWith(b)
      BY <1>4
    <2>2. b \in Seq(Byte)
      BY BitmapAssumption
    <2>3. /\ Became(And(bitmap, b), <<"And", Cpus(b)>>)
          /\ Cpus(And(bitmap, b)) = Cpus(bitmap) \cap Cpus(b)
      BY <1>0, <2>1, <2>2, AndIsIntersection DEF AndWith
    <2>4. TypeOK' /\ pc' = "idle" /\ pc # "loop" /\ Cpus(bitmap)' = Cpus(bitmap) \cap Cpus(b)
          /\ called' = <<"And", Cpus(b)>>
      BY <1>1, <2>3
    <2>5. AbstractSet!Keep(Cpus(b))
      BY <2>4 DEF AbstractSet!Keep
    <2> QED BY <2>1, <2>4, <2>5 DEF AbstractSet!Next
  <1> QED BY <1>2, <1>3, <1>4

\* A turn of the loop goes on with the list.
TurnStep == PrintCpu \/ PrintDash \/ InRange \/ GoesOffline

LEMMA TurnListed ==
  ASSUME ListInv, TurnStep
  PROVE  /\ Listed(bitmap, s, lastOnline, crange, i)'
         /\ (printed <=> Len(s) > 0)'
         /\ UNCHANGED <<bitmap, pc, called>> /\ pc = "loop"
  <1>1. /\ pc = "loop" /\ i' = i + 1 /\ bitmap' = bitmap /\ UNCHANGED <<pc, called>>
        /\ Listed(bitmap, s, lastOnline, crange, i) /\ (printed <=> Len(s) > 0)
    BY DEF TurnStep, PrintCpu, PrintDash, InRange, GoesOffline, Turn, ListInv
  <1>2. s \in Seq(Item) /\ i \in Nat /\ printed \in BOOLEAN /\ Len(s) \in Nat
    BY DEF ListInv, TypeOK
  <1>3. CASE PrintCpu
    <2>1. /\ ~lastOnline /\ Test(bitmap, i) /\ lastOnline' = TRUE /\ crange' = crange
          /\ printed' = TRUE
          /\ s' = Append(s, [comma |-> printed, lo |-> i, dash |-> FALSE, hi |-> NoNumber])
      BY <1>3 DEF PrintCpu, Turn
    <2>2. lastOnline = FALSE /\ crange = FALSE
      BY <1>1, <2>1 DEF Listed, AtEnd, ListInv, TypeOK
    <2>3. Listed(bitmap, s', TRUE, FALSE, i + 1)
      BY <1>1, <1>2, <2>1, <2>2, ListedCpu, Zenon
    <2>4. Len(s') > 0
      BY <1>2, <2>1
    <2>5. Listed(bitmap, s, lastOnline, crange, i)'
      BY <1>1, <2>1, <2>2, <2>3, Zenon
    <2> QED BY <1>1, <2>1, <2>4, <2>5
  <1>4. CASE PrintDash
    <2>1. /\ lastOnline /\ ~crange /\ Test(bitmap, i) /\ lastOnline' = TRUE /\ crange' = TRUE
          /\ printed' = printed /\ s' = With(s, TRUE, s[Len(s)].hi)
      BY <1>4, Zenon DEF PrintDash, Turn, GoOn, With
    <2>2. lastOnline = TRUE /\ crange = FALSE
      BY <2>1 DEF ListInv, TypeOK
    <2>3. Listed(bitmap, s', TRUE, TRUE, i + 1)
      BY <1>1, <2>1, <2>2, ListedDash, Zenon
    <2>4. Len(s) > 0 /\ Len(s') > 0
      <3>1. Len(s) > 0
        BY <1>1, <2>1 DEF Listed, AtEnd
      <3>2. s[Len(s)].hi \in Nat \cup {NoNumber}
        BY <1>2, <3>1, ItemIs
      <3>3. Len(With(s, TRUE, s[Len(s)].hi)) = Len(s)
        <4>1. TRUE \in BOOLEAN
          OBVIOUS
        <4> QED BY <1>2, <3>1, <3>2, <4>1, WithIs, Zenon
      <3> QED BY <2>1, <3>1, <3>3
    <2>5. Listed(bitmap, s, lastOnline, crange, i)'
      BY <1>1, <2>1, <2>3, Zenon
    <2> QED BY <1>1, <2>1, <2>4, <2>5
  <1>5. CASE InRange
    <2>1. /\ lastOnline /\ crange /\ Test(bitmap, i) /\ lastOnline' = TRUE /\ crange' = crange
          /\ printed' = printed /\ s' = s
      BY <1>5, Zenon DEF InRange, Turn
    <2>2. lastOnline = TRUE /\ crange = TRUE
      BY <2>1 DEF ListInv, TypeOK
    <2>3. Listed(bitmap, s, TRUE, TRUE, i + 1)
      BY <1>1, <2>1, <2>2, ListedMore, Zenon
    <2>4. Listed(bitmap, s, lastOnline, crange, i)'
      BY <1>1, <2>1, <2>2, <2>3, Zenon
    <2> QED BY <1>1, <2>1, <2>4
  <1>6. CASE GoesOffline
    <2>1. /\ ~Test(bitmap, i) /\ lastOnline' = FALSE /\ crange' = FALSE /\ printed' = printed
          /\ s' = Ended(s, lastOnline, crange, i)
      BY <1>6 DEF GoesOffline, Turn, EndRange, GoOn, Ended, With
    <2>2. Listed(bitmap, s', FALSE, FALSE, i + 1)
      BY <1>1, <2>1, ListedGap, Zenon
    <2>3. Len(s') > 0 <=> Len(s) > 0
      BY <1>1, <2>1, ListEnded, Zenon
    <2>4. Listed(bitmap, s, lastOnline, crange, i)'
      BY <1>1, <2>1, <2>2, Zenon
    <2> QED BY <1>1, <2>1, <2>3, <2>4
  <1> QED BY <1>3, <1>4, <1>5, <1>6 DEF TurnStep

LEMMA StringStep ==
  ASSUME ListInv, BeginString \/ TurnStep \/ EndString
  PROVE  ListInv'
  <1>1. CASE BeginString
    <2>1. /\ pc' = "loop" /\ i' = 0 /\ lastOnline' = FALSE /\ crange' = FALSE /\ printed' = FALSE
          /\ s' = <<>> /\ bitmap' = bitmap /\ bitmap \in Seq(Byte)
      BY <1>1, Zenon DEF BeginString, NewString, ListInv, TypeOK
    <2>2. Listed(bitmap, s, lastOnline, crange, i)'
      BY <2>1, NothingListed, Zenon
    <2>3. <<>> \in Seq(Item) /\ 0 \in Nat /\ FALSE \in BOOLEAN /\ ~(Len(<<>>) > 0)
      OBVIOUS
    <2>4. TypeOK'
      BY <2>1, <2>3, Zenon DEF TypeOK
    <2>5. pc' # "done"
      BY <2>1
    <2>6. ~printed' /\ ~(Len(s') > 0)
      BY <2>1, <2>3
    <2> QED BY <2>2, <2>4, <2>5, <2>6, Zenon DEF ListInv
  <1>2. CASE TurnStep
    <2>1. /\ Listed(bitmap, s, lastOnline, crange, i)' /\ (printed <=> Len(s) > 0)'
          /\ bitmap' = bitmap /\ pc' = pc /\ pc = "loop"
      BY <1>2, TurnListed
    <2>2. printed' \in BOOLEAN
      BY <1>2, Zenon DEF TurnStep, PrintCpu, PrintDash, InRange, GoesOffline, ListInv, TypeOK
    <2>3. TypeOK'
      BY <2>1, <2>2, Zenon DEF Listed, TypeOK
    <2>4. pc' # "done"
      BY <2>1
    <2> QED BY <2>1, <2>3, <2>4, Zenon DEF ListInv
  <1>3. CASE EndString
    <2>1. /\ pc' = "done" /\ i > Max(bitmap) /\ Listed(bitmap, s, lastOnline, crange, i)
          /\ UNCHANGED <<bitmap, i, lastOnline, crange, printed>>
          /\ s' = Ended(s, lastOnline, crange, i)
      BY <1>3 DEF EndString, EndRange, GoOn, Ended, With, ListInv
    <2>2. s' \in Seq(Item) /\ Form(s', FALSE) /\ Covered(bitmap, s', FALSE, i)
      BY <2>1, ListEnded, Zenon
    <2>3. Complete'
      BY <2>1, <2>2, Zenon DEF Complete
    <2>4. TypeOK'
      BY <2>1, <2>2, Zenon DEF ListInv, TypeOK
    <2>5. pc' # "loop"
      BY <2>1
    <2> QED BY <2>3, <2>4, <2>5, Zenon DEF ListInv
  <1> QED BY <1>1, <1>2, <1>3

LEMMA ListStep == ListInv /\ [Next]_vars => ListInv'
  <1>1. ASSUME ListInv, UNCHANGED vars PROVE ListInv'
    <2>1. UNCHANGED <<bitmap, pc, i, lastOnline, crange, printed, s>>
      BY <1>1 DEF vars, string
    <2> QED BY <1>1, <2>1, Zenon DEF ListInv, TypeOK, Complete
  <1>2. ASSUME ListInv, (\E bit \in Cpu : Set(bit) \/ Clear(bit)) \/ \E b \in Others : AndWith(b)
        PROVE  ListInv'
    <2>1. TypeOK' /\ pc' = "idle"
      BY <1>2, ChangeStep, Zenon DEF ListInv
    <2> QED BY <2>1 DEF ListInv
  <1> QED BY <1>1, <1>2, StringStep DEF Next, TurnStep

LEMMA ListInvariant == Spec => []ListInv
  <1>1. Init => ListInv
    <2>1. <<>> \in Seq(Item) /\ <<>> \in Seq(Byte) /\ 0 \in Nat /\ FALSE \in BOOLEAN
      OBVIOUS
    <2>2. Init => TypeOK
      BY <2>1, Zenon DEF Init, TypeOK
    <2> QED BY <2>2 DEF Init, ListInv
  <1> QED BY <1>1, ListStep, PTL DEF Spec

\* The bitmap stays a sequence of bytes, and the string one of items.
THEOREM TypeCorrect == Spec => []TypeOK
  <1>1. ListInv => TypeOK
    BY Zenon DEF ListInv
  <1> QED BY <1>1, ListInvariant, PTL

-----------------------------------------------------------------------------
(* The theorems.                                                           *)

LEMMA ListNames == ListInv /\ pc = "done" => Denoted(s) = Cpus(bitmap)
  <1> SUFFICES ASSUME ListInv, pc = "done" PROVE Denoted(s) = Cpus(bitmap)
    OBVIOUS
  <1>1. /\ bitmap \in Seq(Byte) /\ s \in Seq(Item) /\ i \in Nat /\ Complete /\ Len(bitmap) \in Nat
    BY DEF ListInv, TypeOK
  <1>2. \A n \in 1 .. Len(s) : s[n].lo \in Nat /\ Last(s[n]) \in Int
    BY <1>1, ItemIs
  <1>3. \A c : c \in Denoted(s) <=> \E n \in 1 .. Len(s) : c \in s[n].lo .. Last(s[n])
    BY DEF Denoted, Denotes
  <1>4. \A c \in Nat : Test(bitmap, c) => c < i
    BY <1>1 DEF Complete, Test, Max
  <1>5. \A c \in Nat : Test(bitmap, c) <=>
          \E n \in 1 .. Len(s) : s[n].lo <= c /\ c <= Last(s[n])
    BY <1>1, <1>4 DEF Complete, Covered, Reach
  <1>6. \A c : c \in Denoted(s) => c \in Nat
    BY <1>2, <1>3
  <1>7. \A c \in Nat : c \in Denoted(s) <=> Test(bitmap, c)
    BY <1>2, <1>3, <1>5
  <1> QED BY <1>1, <1>6, <1>7, TestedCpus

LEMMA ListIsEmpty ==
  ASSUME ListInv, pc = "done"
  PROVE  s = <<>> <=> IsEmpty(bitmap)
  <1>1. /\ bitmap \in Seq(Byte) /\ s \in Seq(Item) /\ Len(s) \in Nat /\ Complete
    BY DEF ListInv, TypeOK
  <1>2. CASE s = <<>>
    <2>1. Denoted(s) = {}
      BY <1>2 DEF Denoted
    <2>2. ASSUME NEW n \in 1 .. Len(bitmap), NEW b \in bitmap[n] PROVE FALSE
      <3>1. b \in 0 .. 7
        BY <1>1, <2>2 DEF Byte
      <3>2. <<n, b>> \in {x \in (1 .. Len(bitmap)) \X (0 .. 7) : x[2] \in bitmap[x[1]]}
        BY <2>2, <3>1
      <3>3. 8 * (n - 1) + b \in Cpus(bitmap)
        BY <3>2 DEF Cpus
      <3> QED BY <2>1, <3>3, ListNames
    <2> QED BY <1>2, <2>2 DEF IsEmpty
  <1>3. CASE s # <<>>
    <2>1. 1 \in 1 .. Len(s)
      BY <1>1, <1>3
    <2>2. s[1].lo \in Nat /\ Last(s[1]) \in Int /\ s[1].lo <= Last(s[1])
      <3>1. s[1].lo \in Nat /\ s[1].hi \in Nat \cup {NoNumber} /\ Last(s[1]) \in Int
        BY <1>1, <2>1, ItemIs
      <3>2. Closed(s[1])
        BY <1>1, <2>1 DEF Complete, Form
      <3> QED BY <3>1, <3>2 DEF Closed, Last, NoNumber
    <2>3. s[1].lo \in Denoted(s)
      BY <2>1, <2>2 DEF Denoted, Denotes
    <2>4. s[1].lo \in Cpus(bitmap)
      BY <2>3, ListNames
    <2>5. PICK x \in (1 .. Len(bitmap)) \X (0 .. 7) : x[2] \in bitmap[x[1]]
      BY <2>4 DEF Cpus
    <2> QED BY <1>3, <2>5 DEF IsEmpty
  <1> QED BY <1>2, <1>3

\* What String has written when it returns names the cpus of the bitmap, all and
\* no others, for a bitmap of any length: as a list of single cpus and closed
\* ranges with gaps between them, and as no list where there is no cpu.
THEOREM StringIsRight == Spec => []StringNamesTheCpus
  <1>1. ASSUME ListInv PROVE StringNamesTheCpus
    <2> SUFFICES ASSUME pc = "done"
                 PROVE  /\ Denoted(s) = Cpus(bitmap)
                        /\ s = <<>> <=> IsEmpty(bitmap)
                        /\ \A k \in 1 .. Len(s) :
                             /\ s[k].comma = (k > 1)
                             /\ s[k].dash <=> s[k].hi # NoNumber
                             /\ s[k].dash => s[k].hi > s[k].lo
                             /\ k > 1 => s[k].lo > Last(s[k - 1]) + 1
      BY DEF StringNamesTheCpus
    <2>1. s \in Seq(Item) /\ Form(s, FALSE)
      BY <1>1 DEF ListInv, TypeOK, Complete
    <2>2. ASSUME NEW k \in 1 .. Len(s) PROVE s[k].comma = (k > 1)
      <3>1. s[k].comma \in BOOLEAN /\ (s[k].comma <=> k > 1)
        BY <2>1, ItemIs DEF Form
      <3> QED BY <3>1
    <2>3. \A k \in 1 .. Len(s) :
            /\ s[k].dash <=> s[k].hi # NoNumber
            /\ s[k].dash => s[k].hi > s[k].lo
            /\ k > 1 => s[k].lo > Last(s[k - 1]) + 1
      BY <2>1 DEF Form, Closed
    <2> QED BY <1>1, <2>2, <2>3, ListNames, ListIsEmpty
  <1> QED BY <1>1, ListInvariant, PTL

\* Bytes, shifts and masks implement a set of cpus, whichever cpus are set, cleared
\* and intersected with, and what libxl is shown is that set.
THEOREM BitmapImplementsCpuSet == Spec => ImplementsCpuSet
  <1>1. Init => AbstractSet!Init
    <2>1. Cpus(<<>>) = {}
      BY DEF Cpus
    <2> QED BY <2>1 DEF Init, AbstractSet!Init
  <1>2. ASSUME ListInv, StringNamesTheCpus', [Next]_vars
        PROVE  [AbstractSet!Next]_(AbstractSet!vars)
    <2>1. CASE (\E bit \in Cpu : Set(bit) \/ Clear(bit)) \/ \E b \in Others : AndWith(b)
      BY <1>2, <2>1, ChangeStep, Zenon DEF ListInv
    <2>2. CASE BeginString
      <3>1. AbstractSet!Begin
        BY <2>2 DEF BeginString, AbstractSet!Begin
      <3> QED BY <3>1 DEF AbstractSet!Next
    <2>3. CASE TurnStep
      BY <1>2, <2>3, TurnListed DEF AbstractSet!vars
    <2>4. CASE EndString
      <3>1. pc' = "done" /\ bitmap' = bitmap /\ called' = called
        BY <2>4 DEF EndString
      <3>2. (Denoted(s) = Cpus(bitmap))'
        BY <1>2, <3>1 DEF StringNamesTheCpus
      <3>3. AbstractSet!Show
        BY <3>1, <3>2 DEF AbstractSet!Show
      <3> QED BY <3>3 DEF AbstractSet!Next
    <2>5. CASE UNCHANGED vars
      BY <2>5 DEF vars, string, AbstractSet!vars
    <2> QED BY <1>2, <2>1, <2>2, <2>3, <2>4, <2>5 DEF Next, TurnStep
  <1> QED BY <1>1, <1>2, ListInvariant, StringIsRight, PTL
             DEF Spec, ImplementsCpuSet, AbstractSet!Spec
=============================================================================
