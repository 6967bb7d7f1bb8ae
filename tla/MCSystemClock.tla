--------------------------- MODULE MCSystemClock ---------------------------
(***************************************************************************)
(* One clock on timer 0, which is what the library supports, or two (see   *)
(* MCTwoClocks.cfg), and one other device.  Four overflows carry the count *)
(* over a word of two values into the second word.                         *)
(***************************************************************************)
EXTENDS SystemClock

OneTimer == {0}
TwoTimers == {0, 1}
=============================================================================
