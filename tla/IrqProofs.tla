----------------------------- MODULE IrqProofs -----------------------------
(***************************************************************************)
(* Theorems about Irq, for every set of lines and every bound on nesting.  *)
(***************************************************************************)
EXTENDS Irq, TLAPS

-----------------------------------------------------------------------------
(* The inductive invariant *)

\* The sections of c that critical_count already, or still, counts.
CountedFor(c) ==
  IF pc[c] \in {"enter_load", "enter_store", "exit_restore"}
  THEN open[c] - 1 ELSE open[c]

\* While c stands at one of these points it has a section open.
InSection == {"enter_load", "enter_store", "enter_save", "exit_store",
              "exit_restore"}

\* The outermost section of c is open but its status is not yet saved.
Unsaved(c) ==
  open[c] = 1 /\ pc[c] \in {"enter_load", "enter_store", "enter_save"}

\* Where each context may stand while the other one runs.
Places ==
  /\ pc["main"] \notin {"snapshot", "scan", "off"}
  /\ mode = "main" => pc["irq"] = "off" /\ open["irq"] = 0
  /\ mode = "irq" =>
       /\ pc["irq"] # "off"
       /\ pc["main"] \in {"user", "enter_mask", "ie_store"}
       /\ open["main"] = 0
       /\ masked
       /\ ~spsr
  /\ pc["irq"] \in {"snapshot", "scan", "off"} => open["irq"] = 0

\* What each point of the code knows about the context's own sections.
Sections(c) ==
  /\ pc[c] \in InSection => open[c] > 0
  /\ pc[c] \in {"enter_save", "exit_restore"} => open[c] = 1
  /\ pc[c] = "enter_mask" => open[c] < MaxDepth
  /\ pc[c] = "enter_store" => count[c] = open[c] - 1
  /\ pc[c] = "exit_store" => count[c] = open[c]

Masking == open["main"] > 0 => masked

Counting == critical_count = CountedFor("main") + CountedFor("irq")

\* Where the mask to restore is kept: in status until the outermost section
\* has saved it, in saved_status from then on.
SavedForMain ==
  /\ pc["main"] = "enter_mask" =>
       status["main"] = (IF mode = "main" THEN masked ELSE spsr)
  /\ Unsaved("main") => status["main"] = outer
  /\ open["main"] > 0 /\ ~Unsaved("main") => saved_status = outer

SavedForIrq ==
  /\ pc["irq"] = "enter_mask" => status["irq"]
  /\ Unsaved("irq") => status["irq"]
  /\ open["irq"] > 0 /\ ~Unsaved("irq") => saved_status

\* The store may take back what handlers changed since main loaded IRQ_IE.
Overtaken(c, q) == c = "main" /\ open[c] = 0 /\ q \in overtaken

\* A pending store to IRQ_IE sets the line it was asked about, and leaves every
\* other as it is now, or as it was before a handler overtook it.
OneLine ==
  \A c \in Contexts :
    pc[c] = "ie_store" =>
      /\ asked[c].line \in Irqs
      /\ asked[c].line \in ieval[c] <=> asked[c].on
      /\ \A q \in Irqs \ {asked[c].line} :
           (q \in ieval[c] <=> q \in IRQ_IE) \/ Overtaken(c, q)

IInv ==
  /\ TypeOK
  /\ Places
  /\ \A c \in Contexts : Sections(c)
  /\ Masking
  /\ Counting
  /\ SavedForMain
  /\ SavedForIrq
  /\ OneLine

-----------------------------------------------------------------------------
(* Every step preserves the invariant *)

\* The invariant holds before the program has made any call.
LEMMA InitIInv == Init => IInv
  <1> SUFFICES ASSUME Init PROVE IInv
    OBVIOUS
  <1> USE DEF Init, Contexts
  <1>1. TypeOK
    <2>1. masked \in BOOLEAN /\ spsr \in BOOLEAN /\ saved_status \in BOOLEAN
          /\ outer \in BOOLEAN /\ status \in [Contexts -> BOOLEAN]
      OBVIOUS
    <2>2. pc \in [Contexts -> Steps]
      BY DEF Steps
    <2>3. /\ critical_count \in 0 .. MaxDepth
          /\ count \in [Contexts -> 0 .. MaxDepth]
          /\ open \in [Contexts -> 0 .. MaxDepth]
      BY DepthAssumption
    <2>4. asked \in [Contexts -> Update] /\ overtaken \in SUBSET Irqs
      BY DEF Update, NoUpdate
    <2>5. QED BY <2>1, <2>2, <2>3, <2>4 DEF TypeOK
  <1>2. Places /\ Masking /\ Counting
    BY DEF Places, Masking, Counting, CountedFor
  <1>3. \A c \in Contexts : Sections(c)
    BY DEF Sections, InSection
  <1>4. SavedForMain /\ SavedForIrq /\ OneLine
    BY DEF SavedForMain, SavedForIrq, OneLine, Unsaved
  <1>5. QED BY <1>1, <1>2, <1>3, <1>4 DEF IInv

\* Each action of Irq preserves the invariant; so does stuttering.
LEMMA StepIInv == IInv /\ [Next]_vars => IInv'
  <1> SUFFICES ASSUME IInv, [Next]_vars PROVE IInv'
    OBVIOUS
  <1> USE DepthAssumption DEF IInv, TypeOK, Contexts, Steps, InSection,
          CountedFor, Unsaved, Step, At, cpuVars, updateVars, Update, NoUpdate,
          Overtaken
  <1>1. ASSUME NEW c \in Contexts, EnterRead(c) PROVE IInv'
    BY <1>1 DEF EnterRead, lineVars, Places, Sections, Masking, Counting,
       SavedForMain, SavedForIrq, OneLine
  <1>2. ASSUME NEW c \in Contexts, EnterMask(c) PROVE IInv'
    <2> USE <1>2 DEF EnterMask, lineVars
    <2>1. TypeOK' /\ Places' /\ Masking'
      BY DEF Places, Masking, Sections
    <2>2. \A x \in Contexts : Sections(x)'
      BY DEF Sections, Places
    <2>3. Counting'
      BY DEF Counting, Places, Sections
    <2>4. SavedForMain'
      <3>1. CASE c = "main"
        BY <3>1 DEF SavedForMain, Places
      <3>2. CASE c = "irq"
        BY <3>2 DEF SavedForMain, Places
      <3>3. QED BY <3>1, <3>2
    <2>5. SavedForIrq' /\ OneLine'
      BY DEF SavedForIrq, OneLine, Places
    <2>6. QED BY <2>1, <2>2, <2>3, <2>4, <2>5
  <1>3. ASSUME NEW c \in Contexts, EnterLoad(c) PROVE IInv'
    BY <1>3 DEF EnterLoad, lineVars, Places, Sections, Masking, Counting,
       SavedForMain, SavedForIrq, OneLine
  <1>4. ASSUME NEW c \in Contexts, EnterStore(c) PROVE IInv'
    <2> USE <1>4 DEF EnterStore, lineVars
    <2>1. TypeOK' /\ Places' /\ Masking'
      BY DEF Places, Masking, Sections
    <2>2. \A x \in Contexts : Sections(x)'
      <3>1. CASE count[c] = 0
        BY <3>1 DEF Sections, Places
      <3>2. CASE count[c] # 0
        BY <3>2 DEF Sections, Places
      <3>3. QED BY <3>1, <3>2
    <2>3. Counting'
      BY DEF Counting, Places, Sections
    <2>4. SavedForMain' /\ SavedForIrq' /\ OneLine'
      BY DEF SavedForMain, SavedForIrq, OneLine, Places, Sections
    <2>5. QED BY <2>1, <2>2, <2>3, <2>4
  <1>5. ASSUME NEW c \in Contexts, EnterSave(c) PROVE IInv'
    BY <1>5 DEF EnterSave, lineVars, Places, Sections, Masking, Counting,
       SavedForMain, SavedForIrq, OneLine
  <1>6. ASSUME NEW c \in Contexts, ExitLoad(c) PROVE IInv'
    BY <1>6 DEF ExitLoad, lineVars, Places, Sections, Masking, Counting,
       SavedForMain, SavedForIrq, OneLine
  <1>7. ASSUME NEW c \in Contexts, ExitStore(c) PROVE IInv'
    <2> USE <1>7 DEF ExitStore, lineVars
    <2>1. TypeOK' /\ Places' /\ Masking'
      BY DEF Places, Masking, Sections
    <2>2. \A x \in Contexts : Sections(x)'
      BY DEF Sections, Places
    <2>3. Counting'
      BY DEF Counting, Places, Sections
    <2>4. SavedForMain' /\ SavedForIrq' /\ OneLine'
      BY DEF SavedForMain, SavedForIrq, OneLine, Places, Sections
    <2>5. QED BY <2>1, <2>2, <2>3, <2>4
  <1>8. ASSUME NEW c \in Contexts, ExitRestore(c) PROVE IInv'
    <2> USE <1>8 DEF ExitRestore, lineVars
    <2>1. TypeOK'
      BY DEF Sections
    <2>2. Places' /\ Masking'
      BY DEF Places, Masking, Sections, SavedForIrq
    <2>3. \A x \in Contexts : Sections(x)'
      BY DEF Sections, Places
    <2>4. Counting'
      BY DEF Counting, Places, Sections
    <2>5. SavedForMain' /\ SavedForIrq' /\ OneLine'
      BY DEF SavedForMain, SavedForIrq, OneLine, Places, Sections
    <2>6. QED BY <2>1, <2>2, <2>3, <2>4, <2>5
  <1>9. ASSUME NEW c \in Contexts, MasterDisable(c) PROVE IInv'
    <2> USE <1>9 DEF MasterDisable, lineVars
    <2>1. TypeOK' /\ Places' /\ Masking' /\ Counting'
      BY DEF Places, Masking, Counting
    <2>2. \A x \in Contexts : Sections(x)'
      BY DEF Sections
    <2>3. SavedForMain' /\ SavedForIrq' /\ OneLine'
      BY DEF SavedForMain, SavedForIrq, OneLine, Places
    <2>4. QED BY <2>1, <2>2, <2>3
  <1>10. ASSUME MasterEnable PROVE IInv'
    <2> USE <1>10 DEF MasterEnable, lineVars
    <2>1. TypeOK'
      OBVIOUS
    <2> HIDE DEF TypeOK
    <2>0. Places' /\ Masking' /\ Counting'
      BY DEF Places, Masking, Counting
    <2>2. \A x \in Contexts : Sections(x)'
      BY DEF Sections
    <2>3. SavedForMain' /\ SavedForIrq' /\ OneLine'
      BY DEF SavedForMain, SavedForIrq, OneLine, Places
    <2>4. QED BY <2>0, <2>1, <2>2, <2>3
  <1>11. ASSUME NEW c \in Contexts, NEW q \in Irqs, NEW on \in BOOLEAN,
                    IeLoad(c, q, on)
        PROVE IInv'
    BY <1>11 DEF IeLoad, regVars, Places, Sections, Masking, Counting,
       SavedForMain, SavedForIrq, OneLine
  <1>12. ASSUME NEW c \in Contexts, IeStore(c) PROVE IInv'
    <2> USE <1>12 DEF IeStore, regVars
    <2>1. TypeOK'
      <3>1. asked[c].line \in Irqs
        BY DEF OneLine
      <3>2. QED BY <3>1
    <2>2. Places' /\ Masking' /\ Counting' /\ SavedForMain' /\ SavedForIrq'
      BY DEF Places, Masking, Counting, SavedForMain, SavedForIrq
    <2>3. \A x \in Contexts : Sections(x)'
      BY DEF Sections
    <2>4. OneLine'
      <3>1. CASE c = "main"
        BY <3>1 DEF OneLine, Places
      <3>2. CASE c = "irq"
        BY <3>2 DEF OneLine, Places
      <3>3. QED BY <3>1, <3>2
    <2>5. QED BY <2>1, <2>2, <2>3, <2>4
  <1>13. ASSUME NEW c \in Contexts, NEW q \in Irqs, Acknowledge(c, q) PROVE IInv'
    BY <1>13 DEF Acknowledge, regVars, Places, Sections, Masking, Counting,
       SavedForMain, SavedForIrq, OneLine
  <1>14. ASSUME NEW q \in Irqs, NEW null \in BOOLEAN, Register(q, null) PROVE IInv'
    BY <1>14 DEF Register, regVars, Places, Sections, Masking, Counting,
       SavedForMain, SavedForIrq, OneLine
  <1>15. ASSUME NEW q \in Irqs, Raise(q) PROVE IInv'
    BY <1>15 DEF Raise, regVars, Places, Sections, Masking, Counting,
       SavedForMain, SavedForIrq, OneLine
  <1>16. ASSUME Interrupt PROVE IInv'
    BY <1>16 DEF Interrupt, lineVars, Places, Sections, Masking, Counting,
       SavedForMain, SavedForIrq, OneLine
  <1>17. ASSUME Snapshot PROVE IInv'
    BY <1>17 DEF Snapshot, lineVars, regVars, Places, Sections, Masking, Counting,
       SavedForMain, SavedForIrq, OneLine
  <1>18. ASSUME NEW q \in Irqs, CallHandler(q) PROVE IInv'
    BY <1>18 DEF CallHandler, lineVars, regVars, Places, Sections, Masking, Counting,
       SavedForMain, SavedForIrq, OneLine
  <1>19. ASSUME NEW q \in Irqs, PassOver(q) PROVE IInv'
    BY <1>19 DEF PassOver, lineVars, regVars, Places, Sections, Masking, Counting,
       SavedForMain, SavedForIrq, OneLine
  <1>20. ASSUME HandlerReturn PROVE IInv'
    BY <1>20 DEF HandlerReturn, lineVars, regVars, Places, Sections, Masking, Counting,
       SavedForMain, SavedForIrq, OneLine
  <1>21. ASSUME Return PROVE IInv'
    BY <1>21 DEF Return, lineVars, Places, Sections, Masking, Counting,
       SavedForMain, SavedForIrq, OneLine
  <1>22. CASE UNCHANGED vars
    BY <1>22 DEF vars, Places, Sections, Masking, Counting, SavedForMain,
       SavedForIrq, OneLine
  <1>23. QED
    BY <1>1, <1>2, <1>3, <1>4, <1>5, <1>6, <1>7, <1>8, <1>9, <1>10, <1>11,
       <1>12, <1>13, <1>14, <1>15, <1>16, <1>17, <1>18, <1>19, <1>20, <1>21, <1>22
       DEF Next, InCall, Dispatch

-----------------------------------------------------------------------------
(* Theorems *)

\* In every behaviour the books agree with where the two contexts stand.
THEOREM Invariant == Spec => []IInv
  <1>1. QED BY InitIInv, StepIInv, PTL DEF Spec

\* critical_count never leaves 0 .. MaxDepth: the exits of a handler cannot
\* wrap the count below zero for the program it interrupted.
THEOREM TypeCorrect == Spec => []TypeOK
  <1>1. IInv => TypeOK BY DEF IInv
  <1>2. QED BY <1>1, Invariant, PTL

\* No handler runs inside a critical section of main.
THEOREM SectionsExclude == Spec => []MutualExclusion
  <1>1. IInv => MutualExclusion
    BY DEF IInv, TypeOK, Contexts, Places, Masking, MutualExclusion
  <1>2. QED BY <1>1, Invariant, PTL

\* Between calls the statics describe the running context alone.
THEOREM StaticsBalance == Spec => []BooksBalance
  <1>1. IInv => BooksBalance
    BY DepthAssumption DEF IInv, TypeOK, Contexts, Steps, Places, Sections,
       InSection, Counting, CountedFor, SavedForMain, SavedForIrq, Unsaved,
       BooksBalance
  <1>2. QED BY <1>1, Invariant, PTL

\* Exceptions never nest.
THEOREM HandlersStayMasked == Spec => []NoNesting
  <1>1. IInv => NoNesting
    BY DEF IInv, TypeOK, Contexts, Places, NoNesting
  <1>2. QED BY <1>1, Invariant, PTL

\* An update of IRQ_IE sets the line it is asked about, as asked, and takes back
\* no other, unless main makes it outside every section: then it may take back
\* what a handler that ran between its load and its store has changed.
THEOREM UpdatesReachOneLine == Spec => NoLostUpdate
  <1>1. IInv /\ [Next]_vars =>
          [\A c \in Contexts :
             pc[c] = "ie_store" /\ pc'[c] # "ie_store" =>
               /\ asked[c].line \in IRQ_IE' <=> asked[c].on
               /\ \A q \in Irqs \ {asked[c].line} :
                    (q \in IRQ_IE' <=> q \in IRQ_IE)
                      \/ (c = "main" /\ open[c] = 0 /\ q \in overtaken)]_vars
    <2> SUFFICES ASSUME IInv, Next, NEW c \in Contexts,
                        pc[c] = "ie_store", pc'[c] # "ie_store"
                 PROVE  /\ asked[c].line \in IRQ_IE' <=> asked[c].on
                        /\ \A q \in Irqs \ {asked[c].line} :
                             (q \in IRQ_IE' <=> q \in IRQ_IE)
                               \/ (c = "main" /\ open[c] = 0 /\ q \in overtaken)
      OBVIOUS
    <2>1. pc \in [Contexts -> Steps] /\ mode \in Contexts
      BY DEF IInv, TypeOK
    <2>2. mode = "main" => pc["irq"] = "off"
      BY DEF IInv, Places
    <2>3. IeStore(c)
      BY <2>1, <2>2 DEF Next, InCall, Dispatch, Contexts, Step, At, lineVars,
         regVars, EnterRead, EnterMask, EnterLoad, EnterStore, EnterSave,
         ExitLoad, ExitStore, ExitRestore, MasterDisable, MasterEnable, IeLoad,
         IeStore, Acknowledge, Register, Raise, Interrupt, Snapshot,
         CallHandler, PassOver, HandlerReturn, Return
    <2>4. IRQ_IE' = ieval[c]
      BY <2>3 DEF IeStore
    <2>5. OneLine
      BY DEF IInv
    <2>6. QED BY <2>4, <2>5 DEF OneLine, Overtaken
  <1>2. QED BY <1>1, Invariant, PTL DEF Spec, NoLostUpdate

\* The sections implement CriticalSection: every access of ctr_irq.c is a step
\* of the abstract sections or leaves them as they are.
THEOREM Refinement == Spec => ImplementsCriticalSection
  <1> USE DEF CS!Open, CS!Close, CS!SetMask, CS!Interrupt, CS!Resume
  <1>1. Init => CS!CSInit
    BY DEF Init, Contexts, CS!CSInit
  <1>2. IInv /\ [Next]_vars => [CS!CSNext]_(CS!csVars)
    <2> SUFFICES ASSUME IInv, [Next]_vars
                 PROVE  CS!CSNext \/ UNCHANGED CS!csVars
      OBVIOUS
    <2> USE DepthAssumption DEF IInv, TypeOK, Contexts, Step, At, cpuVars,
            CS!csVars
    <2>1. ASSUME NEW c \in Contexts, EnterMask(c)
          PROVE  CS!CSNext \/ UNCHANGED CS!csVars
      <3>1. CASE c = "main"
        <4>1. CS!Open
          BY <2>1, <3>1 DEF EnterMask, lineVars, Sections
        <4>2. QED BY <4>1 DEF CS!CSNext
      <3>2. CASE c = "irq"
        BY <2>1, <3>2 DEF EnterMask, lineVars, Places
      <3>3. QED BY <3>1, <3>2
    <2>2. ASSUME NEW c \in Contexts, ExitStore(c)
          PROVE  CS!CSNext \/ UNCHANGED CS!csVars
      BY <2>2 DEF ExitStore, lineVars, Sections, InSection, CS!CSNext
    <2>3. ASSUME NEW c \in Contexts, ExitRestore(c)
          PROVE  CS!CSNext \/ UNCHANGED CS!csVars
      <3>1. CASE c = "main"
        <4>1. CS!Close
          BY <2>3, <3>1 DEF ExitRestore, lineVars, Sections, InSection,
             SavedForMain, Unsaved, Places
        <4>2. QED BY <4>1 DEF CS!CSNext
      <3>2. CASE c = "irq"
        BY <2>3, <3>2 DEF ExitRestore, lineVars, Places
      <3>3. QED BY <3>1, <3>2
    <2>4. ASSUME NEW c \in Contexts, MasterDisable(c)
          PROVE  CS!CSNext \/ UNCHANGED CS!csVars
      BY <2>4 DEF MasterDisable, lineVars, Masking, Places, CS!CSNext
    <2>5. ASSUME MasterEnable
          PROVE  CS!CSNext \/ UNCHANGED CS!csVars
      BY <2>5 DEF MasterEnable, lineVars, CS!CSNext
    <2>6. ASSUME Interrupt
          PROVE  CS!CSNext \/ UNCHANGED CS!csVars
      <3>1. CS!Interrupt
        BY <2>6 DEF Interrupt, lineVars, Masking
      <3>2. QED BY <3>1 DEF CS!CSNext
    <2>7. ASSUME Return
          PROVE  CS!CSNext \/ UNCHANGED CS!csVars
      BY <2>7 DEF Return, lineVars, Places, CS!CSNext
    <2>8. ASSUME << mode, open, outer, masked, spsr >>' =
                   << mode, open, outer, masked, spsr >>
          PROVE  CS!CSNext \/ UNCHANGED CS!csVars
      BY <2>8
    <2>9. QED
      BY <2>1, <2>2, <2>3, <2>4, <2>5, <2>6, <2>7, <2>8
         DEF Next, InCall, Dispatch, vars, lineVars, regVars, EnterRead,
             EnterLoad, EnterStore, EnterSave, ExitLoad, IeLoad, IeStore,
             Acknowledge, Register, Raise, Snapshot, CallHandler, PassOver,
             HandlerReturn
  <1>3. QED BY <1>1, <1>2, Invariant, PTL DEF Spec, ImplementsCriticalSection, CS!CSSpec
=============================================================================
