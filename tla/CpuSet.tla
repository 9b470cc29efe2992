------------------------------- MODULE CpuSet -------------------------------
(***************************************************************************)
(* What Prep, CpupoolMakeFree and Run take a Bitmap for: a set of cpus to  *)
(* which one adds a cpu, from which one takes one, which one intersects    *)
(* with another, and which one shows to libxl.                             *)
(***************************************************************************)
CONSTANTS Cpu, Masks

VARIABLES
  cpus,
  shown,  \* what libxl was shown of them
  called  \* the last call that was to change them, until they are shown

vars == <<cpus, shown, called>>

Init == cpus = {} /\ shown = {} /\ called = <<>>

Add(c)    == cpus' = cpus \cup {c} /\ shown' = {} /\ called' = <<"Set", c>>
Remove(c) == cpus' = cpus \ {c} /\ shown' = {} /\ called' = <<"Clear", c>>
Keep(o)   == cpus' = cpus \cap o /\ shown' = {} /\ called' = <<"And", o>>
Begin     == shown' = {} /\ called' = <<>> /\ UNCHANGED cpus
Show      == shown' = cpus /\ UNCHANGED <<cpus, called>>

Next ==
  \/ \E c \in Cpu : Add(c) \/ Remove(c)
  \/ \E o \in Masks : Keep(o)
  \/ Begin \/ Show

Spec == Init /\ [][Next]_vars
=============================================================================
