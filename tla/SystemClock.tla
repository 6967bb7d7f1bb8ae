---------------------------- MODULE SystemClock ----------------------------
(***************************************************************************)
(* src/ctr_system_clock.c over the timers (src/ctr_timer.c), the interrupt *)
(* controller and the critical sections of src/ctr_irq.c.                  *)
(*                                                                         *)
(* A clock counts the overflows of its hardware timer in an interrupt      *)
(* handler; the program starts and restarts clocks and reads them.  The    *)
(* sections are those of CriticalSection, which Irq.tla implements.  The   *)
(* timers run by themselves, also while interrupts are masked.  The 64-bit *)
(* count is two words and is read one word at a time.                      *)
(***************************************************************************)
EXTENDS Integers, FiniteSets, CriticalSection

CONSTANTS
  Timers,        \* the timers used as clocks, among 0 .. 3
  OtherLine,     \* an interrupt line that is not a timer's
  Period,        \* counts from one overflow to the next (2^16 in hardware)
  WordSize,          \* values of a machine word (2^32 in hardware)
  MaxOverflows   \* bound: overflows of a timer since its clock was started

TimerLine(t) == 8 + t

Lines == { TimerLine(t) : t \in Timers } \cup {OtherLine}

ASSUME ClockAssumption ==
  /\ Timers \subseteq 0 .. 3
  /\ OtherLine \in (0 .. 28) \ { TimerLine(t) : t \in 0 .. 3 }
  /\ Period \in Nat \ {0, 1}
  /\ WordSize \in Nat \ {0, 1}
  /\ MaxOverflows \in Nat

VARIABLES
  timers,          \* the hardware: counter, start bit and interrupt bit
  IRQ_IE, IRQ_IF,  \* enabled and pending lines
  handlers,        \* lines with a registered handler
  active_clocks,   \* the bits of active_clocks
  clocks,          \* the timers whose clocks[] entry is not NULL
  clock_count,     \* count, of the clock object given to each timer
  mainpc,          \* where the program stands
  subject,         \* the timer of the call in progress
  low, high, reg,  \* its words of count and its timer value
  irqpc, line,     \* where the handler stands, and the line it handles
  todo,            \* the lines left of its snapshot
  begun,           \* history: the true time when the read began
  overflows,       \* history: overflows since each clock was started
  lost             \* history: those that found the line still pending

hwVars == << timers, IRQ_IF, overflows, lost >>
clockVars == << handlers, active_clocks, clocks, clock_count >>
readVars == << low, high, reg, begun >>
irqVars == << irqpc, line, todo >>
systemVars == << csVars, hwVars, IRQ_IE, clockVars, mainpc, subject, readVars, irqVars >>

InitSteps == {"irq_off", "stop", "ack", "attach", "install", "zero_again",
              "activate", "start", "irq_on"}
ReadSteps == {"low", "high", "reg", "close"}

ClockTypeOK ==
  /\ CSTypeOK
  /\ timers \in [Timers -> [value : 0 .. Period - 1,
                            start : BOOLEAN, irq : BOOLEAN]]
  /\ IRQ_IE \subseteq Lines
  /\ IRQ_IF \subseteq Lines
  /\ handlers \subseteq Lines
  /\ active_clocks \subseteq Timers
  /\ clocks \subseteq Timers
  /\ clock_count \in [Timers -> Nat]
  /\ mainpc \in {"idle"} \cup InitSteps \cup ReadSteps
  /\ subject \in Timers
  /\ low \in 0 .. WordSize - 1
  /\ high \in Nat
  /\ reg \in 0 .. Period - 1
  /\ irqpc \in {"off", "scan", "count", "ack", "other"}
  /\ line \in Lines
  /\ todo \subseteq Lines
  /\ begun \in Nat
  /\ overflows \in [Timers -> 0 .. MaxOverflows]
  /\ lost \in [Timers -> 0 .. MaxOverflows]

\* The program starts with some timers running, as the previous program left
\* them, and with some lines pending; no handler is registered yet.
ClockInit ==
  /\ CSInit
  /\ timers \in [Timers -> { [value |-> 0, start |-> s, irq |-> s] :
                             s \in BOOLEAN }]
  /\ IRQ_IE = {OtherLine}
  /\ IRQ_IF \in SUBSET { TimerLine(t) : t \in Timers }
  /\ handlers = {OtherLine}
  /\ active_clocks = {}
  /\ clocks = {}
  /\ clock_count = [t \in Timers |-> 0]
  /\ mainpc = "idle"
  /\ subject \in Timers
  /\ low = 0 /\ high = 0 /\ reg = 0
  /\ irqpc = "off"
  /\ line = OtherLine
  /\ todo = {}
  /\ begun = 0
  /\ overflows = [t \in Timers |-> 0]
  /\ lost = [t \in Timers |-> 0]

-----------------------------------------------------------------------------
(* The hardware *)

\* Timer counts since the clock on t was started: what a perfect read returns.
TrueTime(t) == overflows[t] * Period + timers[t].value

\* A running timer counts; on overflow it asserts its line if its interrupt is
\* switched on.  A line that is still pending cannot remember a second overflow.
Tick(t) ==
  LET wraps == timers[t].value = Period - 1
      mine == TimerLine(t)
  IN
  /\ timers[t].start
  /\ wraps => overflows[t] < MaxOverflows
  /\ timers' = [timers EXCEPT ![t].value = (@ + 1) % Period]
  /\ overflows' = [overflows EXCEPT ![t] = IF wraps THEN @ + 1 ELSE @]
  /\ IRQ_IF' = IF wraps /\ timers[t].irq THEN IRQ_IF \cup {mine} ELSE IRQ_IF
  /\ lost' = [lost EXCEPT ![t] = IF wraps /\ mine \in IRQ_IF THEN @ + 1 ELSE @]
  /\ UNCHANGED << csVars, IRQ_IE, clockVars, mainpc, subject, readVars, irqVars >>

\* Another device asserts its line.
RaiseOther ==
  /\ IRQ_IF' = IRQ_IF \cup {OtherLine}
  /\ UNCHANGED << csVars, timers, overflows, lost, IRQ_IE, clockVars, mainpc,
                  subject, readVars, irqVars >>

-----------------------------------------------------------------------------
(* ctr_system_clock_initialize, one shared access after the other *)

MainAt(from, to) ==
  /\ running = "main"
  /\ mainpc = from
  /\ mainpc' = to

InitAt(from, to) ==
  /\ MainAt(from, to)
  /\ UNCHANGED << csVars, low, high, reg, begun, irqVars >>

\* "clock->count = 0".
InitBegin(t) ==
  /\ InitAt("idle", "irq_off")
  /\ depth = 0
  /\ subject' = t
  /\ clock_count' = [clock_count EXCEPT ![t] = 0]
  /\ UNCHANGED << hwVars, IRQ_IE, handlers, active_clocks, clocks >>

\* ctr_irq_disable reads IRQ_IE and writes it back.  No handler here changes
\* IRQ_IE in between, so this is one step; in Irq.tla it is two.
InitIrqOff ==
  /\ InitAt("irq_off", "stop")
  /\ IRQ_IE' = IRQ_IE \ {TimerLine(subject)}
  /\ UNCHANGED << hwVars, clockVars, subject >>

\* ctr_timer_disable and ctr_timer_disable_irq.
InitStop ==
  /\ InitAt("stop", "ack")
  /\ timers' = [timers EXCEPT ![subject] = [value |-> @.value, start |-> FALSE, irq |-> FALSE]]
  /\ UNCHANGED << IRQ_IF, overflows, lost, IRQ_IE, clockVars, subject >>

\* Mutant: a pending overflow of the timer's previous life is kept.
InitAckForgotten ==
  /\ InitAt("ack", "attach")
  /\ UNCHANGED << hwVars, IRQ_IE, clockVars, subject >>

InitAck ==
  /\ InitAt("ack", "attach")
  /\ IRQ_IF' = IRQ_IF \ {TimerLine(subject)}
  /\ UNCHANGED << timers, overflows, lost, IRQ_IE, clockVars, subject >>

\* Mutant: the clock object is not stored.
InitAttachNoClock ==
  /\ InitAt("attach", "install")
  /\ timers' = [timers EXCEPT ![subject].value = 0]
  /\ UNCHANGED << IRQ_IF, overflows, lost, IRQ_IE, clockVars, subject >>

\* Value 0, prescaler 1, "clocks[timer] = clock".
InitAttach ==
  /\ InitAt("attach", "install")
  /\ timers' = [timers EXCEPT ![subject].value = 0]
  /\ clocks' = clocks \cup {subject}
  /\ UNCHANGED << IRQ_IF, overflows, lost, IRQ_IE, handlers, active_clocks,
                  clock_count, subject >>

InitInstall ==
  /\ InitAt("install", "zero_again")
  /\ handlers' = handlers \cup {TimerLine(subject)}
  /\ UNCHANGED << hwVars, IRQ_IE, active_clocks, clocks, clock_count, subject >>

InitZeroAgain ==
  /\ InitAt("zero_again", "activate")
  /\ clock_count' = [clock_count EXCEPT ![subject] = 0]
  /\ UNCHANGED << hwVars, IRQ_IE, handlers, active_clocks, clocks, subject >>

InitActivate ==
  /\ InitAt("activate", "start")
  /\ active_clocks' = active_clocks \cup {subject}
  /\ UNCHANGED << hwVars, IRQ_IE, handlers, clocks, clock_count, subject >>

\* ctr_timer_enable_irq and ctr_timer_enable: time begins here.
InitStart ==
  /\ InitAt("start", "irq_on")
  /\ timers' = [timers EXCEPT ![subject] = [value |-> @.value, start |-> TRUE, irq |-> TRUE]]
  /\ overflows' = [overflows EXCEPT ![subject] = 0]
  /\ lost' = [lost EXCEPT ![subject] = 0]
  /\ UNCHANGED << IRQ_IF, IRQ_IE, clockVars, subject >>

\* Mutant: the line stays disabled, as it was while the timer was set up.
InitIrqOnForgotten ==
  /\ InitAt("irq_on", "idle")
  /\ UNCHANGED << hwVars, IRQ_IE, clockVars, subject >>

\* ctr_irq_enable, one step for the same reason.
InitIrqOn ==
  /\ InitAt("irq_on", "idle")
  /\ IRQ_IE' = IRQ_IE \cup {TimerLine(subject)}
  /\ UNCHANGED << hwVars, clockVars, subject >>

-----------------------------------------------------------------------------
(* ctr_system_clock_get_time; ctr_system_clock_get_ms is the same without reg *)

ReadAt(from, to) ==
  /\ MainAt(from, to)
  /\ UNCHANGED << hwVars, IRQ_IE, clockVars, irqVars >>

\* Mutant: the count is read without a critical section.
ReadBeginUnmasked(t) ==
  /\ ReadAt("idle", "low")
  /\ t \in active_clocks
  /\ subject' = t
  /\ begun' = TrueTime(t)
  /\ UNCHANGED << csVars, low, high, reg >>

\* ctr_irq_critical_enter.
ReadBegin(t) ==
  /\ ReadAt("idle", "low")
  /\ t \in active_clocks
  /\ Open
  /\ subject' = t
  /\ begun' = TrueTime(t)
  /\ UNCHANGED << low, high, reg >>

\* Mutant: the low word takes the whole count.
ReadLowWhole ==
  /\ ReadAt("low", "high")
  /\ low' = clock_count[subject]
  /\ UNCHANGED << csVars, subject, high, reg, begun >>

ReadLow ==
  /\ ReadAt("low", "high")
  /\ low' = clock_count[subject] % WordSize
  /\ UNCHANGED << csVars, subject, high, reg, begun >>

ReadHigh ==
  /\ ReadAt("high", "reg")
  /\ high' = clock_count[subject] \div WordSize
  /\ UNCHANGED << csVars, subject, low, reg, begun >>

ReadReg ==
  /\ ReadAt("reg", "close")
  /\ reg' = timers[subject].value
  /\ UNCHANGED << csVars, subject, low, high, begun >>

\* What is read, before its conversion to seconds.
Result == (high * WordSize + low) * Period + reg

\* ctr_irq_critical_exit.
ReadEnd ==
  /\ ReadAt("close", "idle")
  /\ Close
  /\ low' = 0 /\ high' = 0 /\ reg' = 0 /\ begun' = 0
  /\ UNCHANGED subject

\* ctr_irq_master_enable and ctr_irq_master_disable.
MasterSwitch ==
  /\ mainpc = "idle"
  /\ SetMask
  /\ UNCHANGED << hwVars, IRQ_IE, clockVars, mainpc, subject, readVars, irqVars >>

-----------------------------------------------------------------------------
(* The interrupt: ctr_irq_handler, ctr_system_clock_interrupt_handler *)

IrqAt(from, to) ==
  /\ running = "irq"
  /\ irqpc = from
  /\ irqpc' = to
  /\ UNCHANGED << depth, enabled, IRQ_IE, handlers, active_clocks, clocks, mainpc,
                  subject, readVars, timers, overflows, lost >>

\* The snapshot also holds lines that are pending but not enabled.
TakeInterrupt ==
  /\ IRQ_IE \cap IRQ_IF # {}
  /\ Interrupt
  /\ irqpc' = "scan"
  /\ todo' = IRQ_IF
  /\ UNCHANGED << line, hwVars, IRQ_IE, clockVars, mainpc, subject, readVars >>

\* ctr_irq_register drops its argument "data", so ctr_irq_data stays NULL and
\* each clock handler takes (ctr_timer)NULL for its timer.
DataOf(l) == 0

NextLine == CHOOSE l \in todo : \A k \in todo : l <= k

\* The lowest pending line left, if it has a handler, gets it called.
Scan ==
  /\ todo # {}
  /\ IrqAt("scan", CASE NextLine \notin handlers -> "scan"
                     [] NextLine = OtherLine -> "other"
                     [] OTHER -> "count")
  /\ line' = NextLine
  /\ todo' = todo \ {NextLine}
  /\ UNCHANGED << running, IRQ_IF, clock_count >>

\* "clocks[timer]->count += 1u", for an active timer.
HandlerCount ==
  LET timer == DataOf(line) IN
  /\ IrqAt("count", "ack")
  /\ clock_count' = IF timer \in active_clocks
                    THEN [clock_count EXCEPT ![timer] = @ + 1]
                    ELSE clock_count
  /\ UNCHANGED << running, IRQ_IF, line, todo >>

HandlerAck ==
  LET timer == DataOf(line) IN
  /\ IrqAt("ack", "scan")
  /\ IRQ_IF' = IRQ_IF \ {TimerLine(timer)}
  /\ UNCHANGED << running, clock_count, line, todo >>

\* The other device's handler acknowledges its own line.
HandlerOther ==
  /\ IrqAt("other", "scan")
  /\ IRQ_IF' = IRQ_IF \ {OtherLine}
  /\ UNCHANGED << running, clock_count, line, todo >>

LeaveInterrupt ==
  /\ todo = {}
  /\ IrqAt("scan", "off")
  /\ Resume
  /\ UNCHANGED << IRQ_IF, clock_count, line, todo >>

-----------------------------------------------------------------------------

InitStep ==
  \/ InitIrqOff \/ InitStop \/ InitAck \/ InitAttach \/ InitInstall
  \/ InitZeroAgain \/ InitActivate \/ InitStart \/ InitIrqOn

ReadStep == ReadLow \/ ReadHigh \/ ReadReg \/ ReadEnd

HandlerStep ==
  Scan \/ HandlerCount \/ HandlerAck \/ HandlerOther \/ LeaveInterrupt

ClockNext ==
  \/ \E t \in Timers : Tick(t) \/ InitBegin(t) \/ ReadBegin(t)
  \/ RaiseOther
  \/ InitStep
  \/ ReadStep
  \/ MasterSwitch
  \/ TakeInterrupt
  \/ HandlerStep

ClockSpec == ClockInit /\ [][ClockNext]_systemVars

\* Calls and handlers, once begun, are executed to their end, and the processor
\* takes an interrupt that it is offered again and again.
ClockFairness ==
  /\ WF_systemVars(InitStep)
  /\ WF_systemVars(ReadStep)
  /\ WF_systemVars(HandlerStep)
  /\ SF_systemVars(TakeInterrupt)

FairClockSpec == ClockSpec /\ ClockFairness

-----------------------------------------------------------------------------
(* Properties *)

\* A clock that runs: started, and no restart of it in progress.
Running(t) == t \in active_clocks /\ ~(mainpc \in InitSteps /\ subject = t)

\* The handler has counted the overflow of t and not yet acknowledged it.
Counted(t) == irqpc = "ack" /\ DataOf(line) = t

\* Every overflow since the clock was started is in its count, or is still
\* pending, or arrived while the previous one was: nothing left over from
\* before the start is counted, nothing is counted twice, and nothing else is
\* dropped.
OverflowsAccountedFor ==
  \A t \in Timers : Running(t) =>
    overflows[t] = clock_count[t] + lost[t]
                   + (IF TimerLine(t) \in IRQ_IF /\ ~Counted(t) THEN 1 ELSE 0)

\* The handler dereferences clocks[] for active timers only, and finds it set.
NoNullClock ==
  irqpc = "count" /\ DataOf(line) \in active_clocks => DataOf(line) \in clocks

\* A reading is never ahead of true time, and it is behind by no more than the
\* overflow being served and those lost: the two words of the count and the
\* timer value belong together.
ReadingBound ==
  mainpc = "close" => /\ Result <= TrueTime(subject)
                  /\ Result >= begun - Period * (1 + lost[subject])

\* While the program keeps accepting interrupts, every overflow of a running
\* clock is counted and acknowledged in the end.
OverflowServed ==
  []<>(enabled /\ depth = 0) =>
    \A t \in Timers :
      TimerLine(t) \in IRQ_IF /\ Running(t)
        ~> (TimerLine(t) \notin IRQ_IF \/ ~Running(t))

\* What the interface says of a clock: it counts the time of its own timer.
CountsOwnTimer ==
  \A t \in Timers : Running(t) => clock_count[t] <= overflows[t]
=============================================================================
