------------------------------- MODULE MCIrq -------------------------------
(***************************************************************************)
(* Two lines (timer 0 and timer 1) and sections nested twice: enough for a *)
(* handler to nest while main is between any two accesses, and for a lower *)
(* line to compete with a higher one.                                      *)
(***************************************************************************)
EXTENDS Irq

MCIrqs == {8, 9}
=============================================================================
