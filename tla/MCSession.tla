----------------------------- MODULE MCSession -----------------------------
(* An instance of Session for TLC. *)
EXTENDS Session

\* A guest left by the first run is in the way of the third, not of the second.
MCSize == <<2, 1, 2>>
=============================================================================
