-------------------------- MODULE CriticalSection --------------------------
(***************************************************************************)
(* What the nestable interrupt-masking sections of ctr_irq.h promise to    *)
(* the one interrupted program ("main") and to the interrupt handlers that *)
(* run over it.  Main opens and closes sections; while at least one is     *)
(* open no handler starts; closing the outermost one gives back the        *)
(* interrupt mask that was in force before it was opened, because opening  *)
(* and closing never touch "enabled".                                      *)
(*                                                                         *)
(* Irq.tla is shown to implement this module; SystemClock.tla is built on  *)
(* top of it.                                                              *)
(***************************************************************************)
EXTENDS Naturals

CONSTANT MaxDepth    \* how deeply main nests its sections

ASSUME MaxDepthAssumption == MaxDepth \in Nat \ {0}

VARIABLES
  running,    \* who executes: "main" or "irq" (a handler, over main)
  depth,      \* how many sections main has open
  enabled     \* whether main accepts interrupts outside its sections

csVars == << running, depth, enabled >>

CSTypeOK ==
  /\ running \in {"main", "irq"}
  /\ depth \in 0 .. MaxDepth
  /\ enabled \in BOOLEAN

CSInit ==
  /\ running = "main"
  /\ depth = 0
  /\ enabled \in BOOLEAN

Open ==
  /\ running = "main"
  /\ depth < MaxDepth
  /\ depth' = depth + 1
  /\ UNCHANGED << running, enabled >>

Close ==
  /\ running = "main"
  /\ depth > 0
  /\ depth' = depth - 1
  /\ UNCHANGED << running, enabled >>

\* Main masks or unmasks interrupts outside every section.
SetMask ==
  /\ running = "main"
  /\ depth = 0
  /\ enabled' \in BOOLEAN
  /\ UNCHANGED << running, depth >>

Interrupt ==
  /\ running = "main"
  /\ depth = 0
  /\ enabled
  /\ running' = "irq"
  /\ UNCHANGED << depth, enabled >>

Resume ==
  /\ running = "irq"
  /\ running' = "main"
  /\ UNCHANGED << depth, enabled >>

CSNext == Open \/ Close \/ SetMask \/ Interrupt \/ Resume

CSSpec == CSInit /\ [][CSNext]_csVars
=============================================================================
