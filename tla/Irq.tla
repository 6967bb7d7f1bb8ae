-------------------------------- MODULE Irq --------------------------------
(***************************************************************************)
(* src/ctr_irq.c: the nestable critical sections, the master switch, the   *)
(* enable register IRQ_IE and the pending register IRQ_IF, and the handler *)
(* that dispatches a pending interrupt.                                    *)
(*                                                                         *)
(* Two contexts share one processor and the two static variables           *)
(* critical_count and saved_status: "main", the interrupted program, and   *)
(* "irq", the exception that ctr_interrupt_irq_veneer runs over it on a    *)
(* stack of its own.  An action is one access to shared state: a load, a   *)
(* store, or the mrs / msr of the status register.  Of the status register *)
(* only bit 7 (I, set = interrupts masked) is kept; critical_exit masks    *)
(* every other bit of saved_status away.                                   *)
(***************************************************************************)
EXTENDS Naturals, FiniteSets

CONSTANTS
  Irqs,       \* the interrupt lines in use, numbers below 29
  NoIrq,      \* no handler is running
  MaxDepth    \* bound: sections a context nests (the code allows 2^32 - 1)

ASSUME IrqsAssumption ==
  /\ Irqs \subseteq 0 .. 28
  /\ NoIrq \notin Irqs

ASSUME DepthAssumption == MaxDepth \in Nat \ {0}

VARIABLES
  mode,           \* the context the processor runs
  masked,         \* bit 7 of cpsr
  spsr,           \* bit 7 of the cpsr that the exception saved
  IRQ_IE, IRQ_IF,         \* IRQ_IE_REG and IRQ_IF_REG, as sets of lines
  handlers,       \* the lines whose ctr_irq_handlers entry is not NULL
  critical_count,
  saved_status,   \* bit 7 of saved_status
  pc,             \* where each context stands inside a call of ctr_irq.c
  status,         \* each context's local "status" (bit 7)
  count,          \* each context's loaded critical_count
  ieval,          \* each context's value about to be stored in IRQ_IE
  todo,           \* pending lines that the dispatch loop has not reached
  current,        \* the line whose handler is running
  open,           \* history: the sections each context has open
  outer,          \* history: the mask when main opened its outermost section
  asked,          \* history: the line that each context's update of IRQ_IE is
                  \* about, and whether it enables it
  overtaken       \* history: lines that handlers updated since main loaded IRQ_IE

vars == << mode, masked, spsr, IRQ_IE, IRQ_IF, handlers, critical_count, saved_status,
           pc, status, count, ieval, todo, current, open, outer, asked, overtaken >>

Contexts == {"main", "irq"}

Steps == {"user", "enter_mask", "enter_load", "enter_store", "enter_save",
          "exit_store", "exit_restore", "ie_store", "snapshot", "scan", "off"}

Update == [line : Irqs \cup {NoIrq}, on : BOOLEAN]
NoUpdate == [line |-> NoIrq, on |-> FALSE]

TypeOK ==
  /\ mode \in Contexts
  /\ masked \in BOOLEAN
  /\ spsr \in BOOLEAN
  /\ IRQ_IE \in SUBSET Irqs
  /\ IRQ_IF \in SUBSET Irqs
  /\ handlers \in SUBSET Irqs
  /\ critical_count \in 0 .. MaxDepth
  /\ saved_status \in BOOLEAN
  /\ pc \in [Contexts -> Steps]
  /\ status \in [Contexts -> BOOLEAN]
  /\ count \in [Contexts -> 0 .. MaxDepth]
  /\ ieval \in [Contexts -> SUBSET Irqs]
  /\ todo \in SUBSET Irqs
  /\ current \in Irqs \cup {NoIrq}
  /\ open \in [Contexts -> 0 .. MaxDepth]
  /\ outer \in BOOLEAN
  /\ asked \in [Contexts -> Update]
  /\ overtaken \in SUBSET Irqs

Init ==
  /\ mode = "main"
  /\ masked \in BOOLEAN
  /\ spsr = FALSE
  /\ IRQ_IE = {}
  /\ IRQ_IF = {}
  /\ handlers = {}
  /\ critical_count = 0
  /\ saved_status = FALSE
  /\ pc = [c \in Contexts |-> IF c = "main" THEN "user" ELSE "off"]
  /\ status = [c \in Contexts |-> FALSE]
  /\ count = [c \in Contexts |-> 0]
  /\ ieval = [c \in Contexts |-> {}]
  /\ todo = {}
  /\ current = NoIrq
  /\ open = [c \in Contexts |-> 0]
  /\ outer = FALSE
  /\ asked = [c \in Contexts |-> NoUpdate]
  /\ overtaken = {}

-----------------------------------------------------------------------------
\* The running context moves from one point of its code to the next.  The
\* other context's registers are untouched: the veneer saves and restores them.
At(c, from) == mode = c /\ pc[c] = from

Step(c, from, to) ==
  /\ At(c, from)
  /\ pc' = [pc EXCEPT ![c] = to]

cpuVars == << mode, spsr, todo, current >>
updateVars == << ieval, asked, overtaken >>
lineVars == << IRQ_IE, IRQ_IF, handlers, updateVars >>

-----------------------------------------------------------------------------
(* ctr_irq_critical_enter *)

\* "mrs r0, cpsr; mov status, r0".
EnterRead(c) ==
  /\ Step(c, "user", "enter_mask")
  /\ open[c] < MaxDepth
  /\ status' = [status EXCEPT ![c] = masked]
  /\ UNCHANGED << cpuVars, lineVars, masked, critical_count, saved_status,
                  count, open, outer >>

\* Mutant: the status is read but never written back with I set.
EnterMaskForgotten(c) ==
  /\ Step(c, "enter_mask", "enter_load")
  /\ open' = [open EXCEPT ![c] = @ + 1]
  /\ outer' = IF c = "main" /\ open[c] = 0 THEN masked ELSE outer
  /\ UNCHANGED << cpuVars, lineVars, masked, critical_count, saved_status,
                  status, count >>

\* "orr r0, #0x80; msr cpsr_c, r0"; master_disable then masks once more.
EnterMask(c) ==
  /\ Step(c, "enter_mask", "enter_load")
  /\ masked' = TRUE
  /\ open' = [open EXCEPT ![c] = @ + 1]
  /\ outer' = IF c = "main" /\ open[c] = 0 THEN masked ELSE outer
  /\ UNCHANGED << cpuVars, lineVars, critical_count, saved_status, status,
                  count >>

EnterLoad(c) ==
  /\ Step(c, "enter_load", "enter_store")
  /\ count' = [count EXCEPT ![c] = critical_count]
  /\ UNCHANGED << cpuVars, lineVars, masked, critical_count, saved_status,
                  status, open, outer >>

\* Mutant: nested sections overwrite the saved status.
EnterStoreAlwaysSaves(c) ==
  /\ Step(c, "enter_store", "enter_save")
  /\ critical_count' = count[c] + 1
  /\ UNCHANGED << cpuVars, lineVars, masked, saved_status, status, count,
                  open, outer >>

\* "critical_count++", whose old value decides about saving the status.
EnterStore(c) ==
  /\ Step(c, "enter_store", IF count[c] = 0 THEN "enter_save" ELSE "user")
  /\ critical_count' = count[c] + 1
  /\ UNCHANGED << cpuVars, lineVars, masked, saved_status, status, count,
                  open, outer >>

EnterSave(c) ==
  /\ Step(c, "enter_save", "user")
  /\ saved_status' = status[c]
  /\ UNCHANGED << cpuVars, lineVars, masked, critical_count, status, count,
                  open, outer >>

-----------------------------------------------------------------------------
(* ctr_irq_critical_exit; calling it outside a section is undefined *)

ExitLoad(c) ==
  /\ Step(c, "user", "exit_store")
  /\ open[c] > 0
  /\ count' = [count EXCEPT ![c] = critical_count]
  /\ UNCHANGED << cpuVars, lineVars, masked, critical_count, saved_status,
                  status, open, outer >>

\* Mutant: the count is compared but not written back.
ExitStoreForgotten(c) ==
  /\ \/ /\ count[c] = 1
        /\ Step(c, "exit_store", "exit_restore")
        /\ open' = open
     \/ /\ count[c] # 1
        /\ Step(c, "exit_store", "user")
        /\ open' = [open EXCEPT ![c] = @ - 1]
  /\ UNCHANGED << cpuVars, lineVars, masked, critical_count, saved_status,
                  status, count, outer >>

\* Mutant: every exit restores the status, not only the outermost one.
ExitStoreAlwaysRestores(c) ==
  /\ Step(c, "exit_store", "exit_restore")
  /\ critical_count' = count[c] - 1
  /\ UNCHANGED << cpuVars, lineVars, masked, saved_status, status, count,
                  open, outer >>

\* "--critical_count": only the outermost exit goes on to the status register.
ExitStore(c) ==
  /\ critical_count' = count[c] - 1
  /\ \/ /\ count[c] = 1
        /\ Step(c, "exit_store", "exit_restore")
        /\ open' = open
     \/ /\ count[c] # 1
        /\ Step(c, "exit_store", "user")
        /\ open' = [open EXCEPT ![c] = @ - 1]
  /\ UNCHANGED << cpuVars, lineVars, masked, saved_status, status, count,
                  outer >>

\* Mutant: I is cleared and the saved I is not added back.
ExitRestoreUnmasks(c) ==
  /\ Step(c, "exit_restore", "user")
  /\ masked' = FALSE
  /\ open' = [open EXCEPT ![c] = @ - 1]
  /\ UNCHANGED << cpuVars, lineVars, critical_count, saved_status, status,
                  count, outer >>

\* Clear I, add the saved I, write cpsr_c.
ExitRestore(c) ==
  /\ Step(c, "exit_restore", "user")
  /\ masked' = saved_status
  /\ open' = [open EXCEPT ![c] = @ - 1]
  /\ UNCHANGED << cpuVars, lineVars, critical_count, saved_status, status,
                  count, outer >>

-----------------------------------------------------------------------------
(* ctr_irq_master_disable and ctr_irq_master_enable.  Unmasking inside a      *)
(* section or inside a handler would undo what the section is for, and nested *)
(* exceptions are not supported: callers do neither.                          *)

MasterDisable(c) ==
  /\ At(c, "user")
  /\ masked' = TRUE
  /\ UNCHANGED << cpuVars, lineVars, critical_count, saved_status, pc, status,
                  count, open, outer >>

MasterEnable ==
  /\ At("main", "user")
  /\ open["main"] = 0
  /\ masked' = FALSE
  /\ UNCHANGED << cpuVars, lineVars, critical_count, saved_status, pc, status,
                  count, open, outer >>

-----------------------------------------------------------------------------
(* The interrupt registers and the handler table *)

regVars == << masked, critical_count, saved_status, status, count, open, outer >>

\* ctr_irq_enable (on) and ctr_irq_disable (~on) read IRQ_IE, change the bit of
\* line q and write the word back; nothing keeps a handler out in between.
IeLoad(c, q, on) ==
  /\ Step(c, "user", "ie_store")
  /\ ieval' = [ieval EXCEPT ![c] = IF on THEN IRQ_IE \cup {q} ELSE IRQ_IE \ {q}]
  /\ asked' = [asked EXCEPT ![c] = [line |-> q, on |-> on]]
  /\ UNCHANGED << cpuVars, regVars, IRQ_IE, IRQ_IF, handlers, overtaken >>

IeStore(c) ==
  /\ Step(c, "ie_store", "user")
  /\ IRQ_IE' = ieval[c]
  /\ asked' = [asked EXCEPT ![c] = NoUpdate]
  /\ overtaken' = IF c = "irq" /\ pc["main"] = "ie_store"
                  THEN overtaken \cup {asked[c].line} ELSE {}
  /\ UNCHANGED << cpuVars, regVars, IRQ_IF, handlers, ieval >>

\* IRQ_IF = 1u << q: writing a one clears that line and no other.
Acknowledge(c, q) ==
  /\ At(c, "user")
  /\ IRQ_IF' = IRQ_IF \ {q}
  /\ UNCHANGED << cpuVars, regVars, IRQ_IE, handlers, updateVars, pc >>

\* One store; a NULL handler takes the line out of the table.
Register(q, null) ==
  /\ At("main", "user")
  /\ handlers' = IF null THEN handlers \ {q} ELSE handlers \cup {q}
  /\ UNCHANGED << cpuVars, regVars, IRQ_IE, IRQ_IF, updateVars, pc >>

\* A device asserts its line; the bit stays set until it is acknowledged.
Raise(q) ==
  /\ IRQ_IF' = IRQ_IF \cup {q}
  /\ UNCHANGED << cpuVars, regVars, IRQ_IE, handlers, updateVars, pc >>

-----------------------------------------------------------------------------
(* Exception entry, ctr_irq_handler and return *)

LowestOf(S) == CHOOSE q \in S : \A r \in S : q <= r

\* The processor takes an enabled pending interrupt; the veneer saves main.
Interrupt ==
  /\ mode = "main"
  /\ ~masked
  /\ IRQ_IE \cap IRQ_IF # {}
  /\ mode' = "irq"
  /\ spsr' = masked
  /\ masked' = TRUE
  /\ pc' = [pc EXCEPT !["irq"] = "snapshot"]
  /\ UNCHANGED << lineVars, critical_count, saved_status, status, count, open,
                  outer, todo, current >>

\* "pending = IRQ_IF_REG": every pending line, also those not enabled.
Snapshot ==
  /\ Step("irq", "snapshot", "scan")
  /\ todo' = IRQ_IF
  /\ UNCHANGED << lineVars, regVars, mode, spsr, current >>

\* Mutant: the loop ends with the first handler it calls.
CallHandlerOnce(q) ==
  /\ Step("irq", "scan", "user")
  /\ todo # {}
  /\ q = LowestOf(todo)
  /\ q \in handlers
  /\ todo' = {}
  /\ current' = q
  /\ UNCHANGED << lineVars, regVars, mode, spsr >>

\* The loop calls the handler of the lowest pending line it has not reached.  It
\* also looks at bit 29, which has no entry in the table; no line drives it.
CallHandler(q) ==
  /\ Step("irq", "scan", "user")
  /\ todo # {}
  /\ q = LowestOf(todo)
  /\ q \in handlers
  /\ todo' = todo \ {q}
  /\ current' = q
  /\ UNCHANGED << lineVars, regVars, mode, spsr >>

\* A line without a handler is passed over, and stays pending.
PassOver(q) ==
  /\ At("irq", "scan")
  /\ todo # {}
  /\ q = LowestOf(todo)
  /\ q \notin handlers
  /\ todo' = todo \ {q}
  /\ UNCHANGED << lineVars, regVars, pc, mode, spsr, current >>

\* A handler returns with every section it opened closed again.
HandlerReturn ==
  /\ Step("irq", "user", "scan")
  /\ open["irq"] = 0
  /\ current' = NoIrq
  /\ UNCHANGED << lineVars, regVars, mode, spsr, todo >>

\* "ldmfd sp!, {r0-r12, pc}^" restores cpsr from spsr.
Return ==
  /\ Step("irq", "scan", "off")
  /\ todo = {}
  /\ mode' = "main"
  /\ masked' = spsr
  /\ UNCHANGED << lineVars, critical_count, saved_status, status, count, open,
                  outer, spsr, todo, current >>

-----------------------------------------------------------------------------

\* The rest of a call that context c has begun.
InCall(c) ==
  \/ EnterMask(c) \/ EnterLoad(c) \/ EnterStore(c) \/ EnterSave(c)
  \/ ExitStore(c) \/ ExitRestore(c)
  \/ IeStore(c)

Dispatch ==
  \/ Snapshot
  \/ \E q \in Irqs : CallHandler(q)
  \/ \E q \in Irqs : PassOver(q)
  \/ Return

Next ==
  \/ \E c \in Contexts : \/ EnterRead(c)
                         \/ ExitLoad(c)
                         \/ InCall(c)
                         \/ MasterDisable(c)
  \/ \E c \in Contexts, q \in Irqs : \/ \E on \in BOOLEAN : IeLoad(c, q, on)
                                     \/ Acknowledge(c, q)
  \/ \E q \in Irqs : \/ \E null \in BOOLEAN : Register(q, null)
                     \/ Raise(q)
  \/ MasterEnable
  \/ Interrupt
  \/ Dispatch
  \/ HandlerReturn

Spec == Init /\ [][Next]_vars

\* The processor keeps executing: a call, once begun, and the dispatch loop go
\* on; a handler returns in the end (its author's duty); an interrupt that is
\* accepted again and again is taken.
Fairness ==
  /\ \A c \in Contexts : WF_vars(InCall(c))
  /\ WF_vars(Dispatch)
  /\ SF_vars(HandlerReturn)
  /\ SF_vars(Interrupt)

FairSpec == Spec /\ Fairness

-----------------------------------------------------------------------------
(* Properties *)

\* No handler runs, and none can be entered, while main is anywhere between
\* the msr of ctr_irq_critical_enter and the msr of the matching exit.
MutualExclusion == open["main"] > 0 => mode = "main" /\ masked

\* The two static variables describe the running context alone, whatever
\* interrupted whatever: between calls critical_count is its number of open
\* sections, and saved_status is the mask its outermost section was opened
\* under (always "masked" in a handler).
BooksBalance ==
  pc[mode] = "user" =>
    /\ critical_count = open[mode]
    /\ open["main"] > 0 => saved_status = outer
    /\ open["irq"] > 0 => saved_status

\* A handler has interrupts masked from its entry to its return, also after the
\* sections it opens and closes: exceptions never nest on the one stack.
NoNesting == mode = "irq" => masked

\* The line an update asked for is set or cleared as asked, and its store takes
\* back no other update: but for updates that handlers made since main loaded
\* IRQ_IE, and those only if main is outside every section.
NoLostUpdate ==
  [][\A c \in Contexts :
       pc[c] = "ie_store" /\ pc'[c] # "ie_store" =>
         /\ asked[c].line \in IRQ_IE' <=> asked[c].on
         /\ \A q \in Irqs \ {asked[c].line} :
              (q \in IRQ_IE' <=> q \in IRQ_IE)
                \/ (c = "main" /\ open[c] = 0 /\ q \in overtaken)]_vars

\* The nestable sections implement what CriticalSection promises to main: an
\* exit brings back the mask of the outermost enter, and handlers run only
\* outside of every section.
CS == INSTANCE CriticalSection WITH
        running <- mode,
        depth <- open["main"],
        enabled <- IF open["main"] > 0 THEN ~outer
                   ELSE IF mode = "irq" THEN ~spsr ELSE ~masked

ImplementsCriticalSection == CS!CSSpec

\* As long as main keeps leaving its sections unmasked, a pending, enabled line
\* that has a handler gets it called, however often lower lines are raised,
\* unless it is disabled, acknowledged or unregistered first.
EveryLineServed ==
  []<>(mode = "main" /\ ~masked) =>
    \A q \in Irqs :
      q \in IRQ_IE \cap IRQ_IF \cap handlers
        ~> (current = q \/ q \notin IRQ_IE \cap IRQ_IF \cap handlers)
=============================================================================
