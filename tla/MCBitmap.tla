------------------------------ MODULE MCBitmap ------------------------------
(* An instance of Bitmap for TLC. *)
EXTENDS Bitmap

\* Shorter and longer than the bitmap may be, empty, full and in between.
MCOthers == {<<>>, <<0 .. 7>>, <<{0, 2, 3, 6}, {1}>>, <<{}, {0, 1}, {7}>>}
=============================================================================
