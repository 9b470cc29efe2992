------------------------------- MODULE Bitmap -------------------------------
(***************************************************************************)
(* The Bitmap of controller/libxl.go: the cpumaps of Prep and              *)
(* CpupoolMakeFree, and the soft affinity that Run gives its guests as the *)
(* string of one.  A byte is the set of its bits that are 1.               *)
(*                                                                         *)
(* String is modelled turn by turn of its loop, with its three flags.  The *)
(* string is a sequence of items, an item being what is written between    *)
(* two commas: "4" has no dash, "4-" no second number yet.                 *)
(***************************************************************************)
EXTENDS Integers, Sequences

CONSTANTS
  MaxCpu,  \* bound: the highest cpu number given to Set and Clear
  Others   \* the bitmaps And is called with

Byte == SUBSET (0 .. 7)
Cpu  == 0 .. MaxCpu

ASSUME BitmapAssumption == MaxCpu \in Nat /\ Others \subseteq Seq(Byte)

VARIABLES
  bitmap,               \* Bitmap.bitmap
  pc,                   \* "idle", in String's "loop", or String is "done"
  i, lastOnline, crange, printed, \* String's locals of these names
  s,                    \* what String has written
  called                \* history: the call that made bitmap what it is

string == <<i, lastOnline, crange, printed, s>>
vars   == <<bitmap, pc, string, called>>

\* The cpus that the bytes stand for.
Cpus(bm) == {8 * (k[1] - 1) + k[2] : k \in {x \in (1 .. Len(bm)) \X (0 .. 7) : x[2] \in bm[x[1]]}}

NoNumber == -1
Item == [comma : BOOLEAN, lo : Nat, dash : BOOLEAN, hi : Nat \cup {NoNumber}]

-----------------------------------------------------------------------------
(* The operations without a loop over the bits.                            *)

Max(bm) == Len(bm) * 8 - 1

Test(bm, bit) == bit <= Max(bm) /\ bit % 8 \in bm[bit \div 8 + 1]
IsEmpty(bm) == \A k \in 1 .. Len(bm) : bm[k] = {}

ByteAt(bm, k) == IF k <= Len(bm) THEN bm[k] ELSE {}
Longer(a, b)  == IF a > b THEN a ELSE b

\* Mutant of SetBit: without the + 1, no room is made for the byte.
SetBit_NoRoom(bm, bit) ==
  [k \in 1 .. Longer(bit \div 8, Len(bm)) |->
     ByteAt(bm, k) \cup (IF k = bit \div 8 + 1 THEN {bit % 8} ELSE {})]

\* Mutant of SetBit: without the & 7.
SetBit_NoMask(bm, bit) ==
  [k \in 1 .. Longer(bit \div 8 + 1, Len(bm)) |->
     ByteAt(bm, k) \cup (IF k = bit \div 8 + 1 THEN {bit} ELSE {})]

\* Set makes room for the byte, filled with zeros; Clear makes none.
SetBit(bm, bit) ==
  [k \in 1 .. Longer(bit \div 8 + 1, Len(bm)) |->
     ByteAt(bm, k) \cup (IF k = bit \div 8 + 1 THEN {bit % 8} ELSE {})]

ClearBit(bm, bit) ==
  IF bit > Max(bm) THEN bm
  ELSE [bm EXCEPT ![bit \div 8 + 1] = @ \ {bit % 8}]

\* Mutant of And: bytes that one of the two does not have are kept.
And_Keeps(a, b) ==
  [k \in 1 .. Longer(Len(a), Len(b)) |->
     IF k <= Len(a) /\ k <= Len(b) THEN a[k] \cap b[k] ELSE ByteAt(a, k) \cup ByteAt(b, k)]

\* And is as long as the longer one, and zero past the end of the shorter.
And(a, b) ==
  [k \in 1 .. Longer(Len(a), Len(b)) |-> ByteAt(a, k) \cap ByteAt(b, k)]

Init ==
  /\ bitmap = <<>>
  /\ pc = "idle" /\ called = <<>>
  /\ i = 0 /\ lastOnline = FALSE /\ crange = FALSE /\ printed = FALSE
  /\ s = <<>>

\* String's locals begin with a call and are gone after it.
NewString ==
  /\ i' = 0 /\ lastOnline' = FALSE /\ crange' = FALSE /\ printed' = FALSE
  /\ s' = <<>>

Becomes(bm, call) ==
  /\ pc # "loop"
  /\ bitmap' = bm /\ called' = call
  /\ pc' = "idle"
  /\ NewString

Set(bit)   == Becomes(SetBit(bitmap, bit), <<"Set", bit>>)
Clear(bit) == Becomes(ClearBit(bitmap, bit), <<"Clear", bit>>)
AndWith(b) == Becomes(And(bitmap, b), <<"And", Cpus(b)>>)

-----------------------------------------------------------------------------
(* String.                                                                 *)

BeginString ==
  /\ pc # "loop"
  /\ pc' = "loop"
  /\ NewString
  /\ called' = <<>>
  /\ UNCHANGED bitmap

\* A turn of the loop at a bit that is, or is not, set.
Turn(online) ==
  /\ pc = "loop" /\ i <= Max(bitmap) /\ Test(bitmap, i) = online
  /\ lastOnline' = online
  /\ i' = i + 1
  /\ UNCHANGED <<bitmap, pc, called>>

\* A dash or a number is written after what there is of the last item.
GoOn(dash, hi) ==
  s' = [s EXCEPT ![Len(s)] =
          [comma |-> s[Len(s)].comma, lo |-> s[Len(s)].lo, dash |-> dash, hi |-> hi]]

\* Mutant of EndRange: the range ends at i.
EndRange_AtI == GoOn(s[Len(s)].dash, i)

\* The end of a range is written where it is over.
EndRange == GoOn(s[Len(s)].dash, i - 1)

PrintCpu ==
  /\ Turn(TRUE) /\ ~lastOnline
  /\ s' = Append(s, [comma |-> printed, lo |-> i, dash |-> FALSE, hi |-> NoNumber])
  /\ printed' = TRUE
  /\ UNCHANGED crange

PrintDash ==
  /\ Turn(TRUE) /\ lastOnline /\ ~crange
  /\ crange' = TRUE
  /\ GoOn(TRUE, s[Len(s)].hi)
  /\ UNCHANGED printed

InRange ==
  /\ Turn(TRUE) /\ lastOnline /\ crange
  /\ UNCHANGED <<crange, printed, s>>

\* Mutant of GoesOffline: crange is not reset.
GoesOffline_StaysInRange ==
  /\ Turn(FALSE)
  /\ IF lastOnline /\ crange THEN EndRange ELSE UNCHANGED s
  /\ UNCHANGED <<crange, printed>>

GoesOffline ==
  /\ Turn(FALSE)
  /\ IF lastOnline /\ crange THEN EndRange ELSE UNCHANGED s
  /\ crange' = FALSE
  /\ UNCHANGED printed

\* After the loop, the end of a range that comes to the last bit.
EndString ==
  /\ pc = "loop" /\ i > Max(bitmap)
  /\ pc' = "done"
  /\ IF lastOnline /\ crange THEN EndRange ELSE UNCHANGED s
  /\ UNCHANGED <<bitmap, i, lastOnline, crange, printed, called>>

Next ==
  \/ \E bit \in Cpu : Set(bit) \/ Clear(bit)
  \/ \E b \in Others : AndWith(b)
  \/ BeginString \/ PrintCpu \/ PrintDash \/ InRange \/ GoesOffline \/ EndString

Spec == Init /\ [][Next]_vars

-----------------------------------------------------------------------------
(* Properties.                                                             *)

TypeOK ==
  /\ bitmap \in Seq(Byte)
  /\ pc \in {"idle", "loop", "done"}
  /\ i \in Nat
  /\ lastOnline \in BOOLEAN /\ crange \in BOOLEAN /\ printed \in BOOLEAN
  /\ s \in Seq(Item)

\* What libxl reads in an item of a list of cpus.
Last(item)    == IF item.dash THEN item.hi ELSE item.lo
Denotes(item) == item.lo .. Last(item)
Denoted(str)  == UNION {Denotes(str[k]) : k \in 1 .. Len(str)}

\* String names the cpus of the bitmap, all and no others: the last bit, ranges
\* that come to the end of a byte or of the map, single cpus and the empty map
\* (no string, and Run sets no soft affinity) included.  It is a list that libxl
\* can parse, in the form of the comment at libxl.go:361: commas between items
\* only, no range open at its end, none of a single cpu, no two that touch.
StringNamesTheCpus ==
  pc = "done" =>
    /\ Denoted(s) = Cpus(bitmap)
    /\ s = <<>> <=> IsEmpty(bitmap)
    /\ \A k \in 1 .. Len(s) :
         /\ s[k].comma = (k > 1)
         /\ s[k].dash <=> s[k].hi # NoNumber
         /\ s[k].dash => s[k].hi > s[k].lo
         /\ k > 1 => s[k].lo > Last(s[k - 1]) + 1

\* Bytes and masks implement a set of cpus, and String shows it.
AbstractSet == INSTANCE CpuSet
  WITH Masks <- {Cpus(b) : b \in Others}, cpus <- Cpus(bitmap),
       shown <- IF pc = "done" THEN Denoted(s) ELSE {}
ImplementsCpuSet == AbstractSet!Spec
=============================================================================
