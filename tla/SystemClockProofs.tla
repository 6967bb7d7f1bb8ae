------------------------- MODULE SystemClockProofs -------------------------
(***************************************************************************)
(* For one clock, on timer 0, with any period, word size and nesting of    *)
(* sections: every overflow is accounted for, the handler finds its clock, *)
(* and readings are not torn.                                              *)
(***************************************************************************)
EXTENDS SystemClock, TLAPS

Mine == TimerLine(0)

\* Where the processor stands.  A handler runs over a program that has no
\* section open; a section is open exactly in the course of a read.
Places ==
  /\ running = "irq" <=> irqpc # "off"
  /\ running = "main" => todo = {}
  /\ depth = IF mainpc \in ReadSteps THEN 1 ELSE 0
  /\ running = "irq" => mainpc \notin ReadSteps
  /\ irqpc \in {"count", "ack"} => line = Mine
  /\ irqpc = "other" => line = OtherLine
  /\ mainpc \in ReadSteps => 0 \in active_clocks

\* What the handler needs is there before it can be called.
Attached ==
  /\ mainpc = "install" \/ Mine \in handlers => 0 \in clocks
  /\ mainpc \in {"zero_again", "activate", "start", "irq_on"} => Mine \in handlers
  /\ 0 \in active_clocks => Mine \in handlers
  /\ mainpc \in {"start", "irq_on"} => 0 \in active_clocks

\* Lines in the snapshot stay pending until their handler acknowledges them.
Snapshots ==
  /\ todo \subseteq IRQ_IF
  /\ irqpc \in {"count", "ack"} => Mine \in IRQ_IF /\ Mine \notin todo
  /\ irqpc = "other" => OtherLine \notin todo

\* From its stop to its start the timer is silent, and from the acknowledgement on
\* there is nothing of it that could be counted.
Silent ==
  /\ mainpc \in {"ack", "attach", "install", "zero_again", "activate", "start"} =>
       ~timers[0].start
  /\ mainpc \in {"attach", "install", "zero_again", "activate", "start"} =>
       Mine \notin IRQ_IF
  /\ mainpc \in {"activate", "start"} => clock_count[0] = 0

\* The clock is started; its line may not be enabled yet.
Live == 0 \in active_clocks /\ mainpc \notin InitSteps \ {"irq_on"}

Accounted ==
  /\ lost[0] <= overflows[0]
  /\ Live =>
       /\ timers[0].start /\ timers[0].irq
       /\ overflows[0] = clock_count[0] + lost[0]
                         + (IF Mine \in IRQ_IF /\ irqpc # "ack" THEN 1 ELSE 0)

\* What a read has found so far.
Reads ==
  /\ mainpc \in ReadSteps => begun <= TrueTime(0)
  /\ mainpc \in {"high", "reg", "close"} => low = clock_count[0] % WordSize
  /\ mainpc \in {"reg", "close"} => high = clock_count[0] \div WordSize
  /\ mainpc = "close" => /\ clock_count[0] * Period + reg <= TrueTime(0)
                     /\ clock_count[0] * Period + reg >= begun - Period * (1 + lost[0])

IInv ==
  /\ ClockTypeOK /\ Places /\ Attached /\ Snapshots /\ Silent /\ Accounted /\ Reads

\* One timer: the state of its record.
LEMMA LineOfTimer0 ==
  ASSUME Timers = {0}
  PROVE  /\ Mine = 8 /\ OtherLine # 8 /\ OtherLine \in Nat /\ Lines = {8, OtherLine}
         /\ \A l \in Lines : l # OtherLine => l = 8
<1>1. Mine = 8 /\ \A t : t \in Timers => TimerLine(t) = 8
  BY DEF Mine, TimerLine
<1>2. OtherLine # 8 /\ OtherLine \in Nat
  BY ClockAssumption DEF TimerLine
<1> QED  BY <1>1, <1>2 DEF Lines

\* A count is its two words.
LEMMA DivMod ==
  ASSUME NEW a \in Nat, NEW m \in Nat \ {0}
  PROVE  a = m * (a \div m) + (a % m) /\ a \div m \in Nat /\ a % m \in Nat
  BY Z3

LEMMA ClockStart ==
  ASSUME Timers = {0}, ClockInit
  PROVE  IInv
<1>1. ClockTypeOK
  <2>1. timers \in [Timers -> [value : 0 .. Period - 1, start : BOOLEAN, irq : BOOLEAN]]
    BY ClockAssumption DEF ClockInit
  <2>2. CSTypeOK
    BY MaxDepthAssumption DEF ClockInit, CSInit, CSTypeOK
  <2> QED  BY <2>1, <2>2, LineOfTimer0, ClockAssumption DEF ClockInit, ClockTypeOK, Lines
<1>2. Places /\ Attached /\ Snapshots /\ Silent /\ Accounted /\ Reads
  BY LineOfTimer0, ClockAssumption DEF ClockInit, CSInit, Places, Attached, Snapshots, Silent,
     Accounted, Reads, Live, ReadSteps, InitSteps
<1> QED  BY <1>1, <1>2 DEF IInv

LEMMA ClockStep ==
  ASSUME Timers = {0}, IInv, [ClockNext]_systemVars
  PROVE  IInv'
<1>0. Mine = 8 /\ OtherLine # 8 /\ Lines = {8, OtherLine} /\ TimerLine(0) = 8
  BY LineOfTimer0 DEF Mine
<1> USE <1>0 DEF IInv
<1>1. CASE Tick(0)
  <2>a. timers[0] \in [value : 0 .. Period - 1, start : BOOLEAN, irq : BOOLEAN]
    BY DEF ClockTypeOK
  <2>b. timers[0].value \in 0 .. Period - 1 /\ Period \in Nat \ {0, 1}
    BY <2>a, ClockAssumption
  <2>c. (timers[0].value + 1) % Period
        = IF timers[0].value = Period - 1 THEN 0 ELSE timers[0].value + 1
    BY <2>b
  <2>d. /\ timers'[0].value = IF timers[0].value = Period - 1 THEN 0 ELSE timers[0].value + 1
        /\ timers' \in [Timers -> [value : 0 .. Period - 1, start : BOOLEAN, irq : BOOLEAN]]
    BY <1>1, <2>a, <2>b, <2>c DEF Tick, ClockTypeOK
  <2>e. lost' \in [Timers -> 0 .. MaxOverflows] /\ overflows' \in [Timers -> 0 .. MaxOverflows]
    BY <1>1, ClockAssumption DEF Tick, ClockTypeOK, Accounted
  <2>1. ClockTypeOK'
    BY <1>1, <2>d, <2>e DEF ClockTypeOK, CSTypeOK, Tick, csVars, clockVars, readVars,
                            irqVars
  <2>2. Places' /\ Attached' /\ Snapshots' /\ Silent'
    BY <1>1, ClockAssumption DEF Places, Attached, Snapshots, Silent, Tick, csVars,
                                 clockVars, irqVars
  <2>3. Accounted'
    BY <1>1, ClockAssumption DEF ClockTypeOK, Snapshots, Accounted, Live, Tick,
                                 clockVars, irqVars
  <2>4. Reads'
    <3>1. /\ overflows[0] \in Nat /\ Period \in Nat /\ timers[0].value \in Nat /\ lost[0] \in Nat
          /\ clock_count[0] \in Nat /\ begun \in Nat /\ reg \in Nat
      BY <2>b DEF ClockTypeOK
    <3>2. TrueTime(0)' = TrueTime(0) + 1
      <4>1. CASE timers[0].value = Period - 1
        <5>1. overflows'[0] = overflows[0] + 1 /\ timers'[0].value = 0
          BY <1>1, <2>d, <4>1 DEF Tick, ClockTypeOK
        <5>2. (overflows[0] + 1) * Period = overflows[0] * Period + Period
          BY <3>1
        <5> QED  BY <5>1, <5>2, <4>1, <3>1 DEF TrueTime
      <4>2. CASE timers[0].value # Period - 1
        BY <1>1, <2>d, <4>2, <3>1 DEF TrueTime, Tick
      <4> QED  BY <4>1, <4>2
    <3>3. lost'[0] \in Nat /\ lost'[0] >= lost[0]
      BY <1>1, <3>1 DEF Tick
    <3>4. Period * (1 + lost'[0]) >= Period * (1 + lost[0])
      BY <3>1, <3>3
    <3>5. TrueTime(0) \in Nat /\ clock_count[0] * Period \in Nat
          /\ Period * (1 + lost'[0]) \in Nat /\ Period * (1 + lost[0]) \in Nat
      BY <3>1, <3>3 DEF TrueTime
    <3> HIDE DEF TrueTime
    <3> QED  BY <1>1, <3>1, <3>2, <3>4, <3>5 DEF Reads, Tick, clockVars, readVars
  <2> QED  BY <2>1, <2>2, <2>3, <2>4
<1>2. CASE InitBegin(0)
  <2>1. ClockTypeOK'
    BY <1>2, ClockAssumption DEF ClockTypeOK, CSTypeOK, InitSteps, InitBegin, InitAt,
                                 MainAt, csVars, hwVars, irqVars
  <2>2. Places' /\ Attached' /\ Snapshots' /\ Silent'
    BY <1>2, ClockAssumption DEF Places, Attached, Snapshots, Silent, ReadSteps,
                                 InitBegin, InitAt, MainAt, csVars, irqVars
  <2>3. Accounted'
    BY <1>2, ClockAssumption DEF Accounted, Live, InitSteps, InitBegin, InitAt, MainAt,
                                 hwVars
  <2>4. Reads'
    BY <1>2, ClockAssumption DEF Reads, ReadSteps, InitBegin, InitAt, MainAt
  <2> QED  BY <2>1, <2>2, <2>3, <2>4
<1>3. CASE ReadBegin(0)
  <2>1. ClockTypeOK'
    <3>1. overflows[0] \in Nat /\ Period \in Nat /\ timers[0].value \in Nat
      BY ClockAssumption DEF ClockTypeOK
    <3>2. TrueTime(0) \in Nat
      BY <3>1 DEF TrueTime
    <3>3. CSTypeOK'
      BY <1>3, MaxDepthAssumption DEF ReadBegin, Open, ClockTypeOK, CSTypeOK
    <3> QED  BY <1>3, <3>2, <3>3 DEF ClockTypeOK, ReadSteps, ReadBegin, ReadAt, MainAt,
           hwVars, clockVars, irqVars
  <2>2. Places' /\ Attached' /\ Snapshots' /\ Silent'
    BY <1>3, ClockAssumption DEF Places, Attached, Snapshots, Silent, ReadSteps,
                                 ReadBegin, ReadAt, MainAt, Open, clockVars, irqVars
  <2>3. Accounted'
    BY <1>3, ClockAssumption DEF Accounted, Live, InitSteps, ReadBegin, ReadAt, MainAt,
                                 hwVars, clockVars, irqVars
  <2>4. Reads'
    BY <1>3, ClockAssumption DEF ClockTypeOK, Reads, TrueTime, ReadBegin, ReadAt, MainAt,
                                 hwVars
  <2> QED  BY <2>1, <2>2, <2>3, <2>4
<1>4. CASE RaiseOther
  <2>1. ClockTypeOK'
    BY <1>4, ClockAssumption DEF ClockTypeOK, CSTypeOK, RaiseOther, csVars, clockVars,
                                 readVars, irqVars
  <2>2. Places' /\ Attached' /\ Snapshots' /\ Silent'
    BY <1>4, ClockAssumption DEF Places, Attached, Snapshots, Silent, RaiseOther, csVars,
                                 clockVars, irqVars
  <2>3. Accounted'
    BY <1>4, ClockAssumption DEF Accounted, Live, RaiseOther, clockVars, irqVars
  <2>4. Reads'
    BY <1>4, ClockAssumption DEF Reads, TrueTime, RaiseOther, clockVars, readVars
  <2> QED  BY <2>1, <2>2, <2>3, <2>4
<1>5. CASE InitIrqOff
  <2>1. ClockTypeOK'
    BY <1>5, ClockAssumption DEF ClockTypeOK, CSTypeOK, InitSteps, InitIrqOff, InitAt,
                                 MainAt, csVars, hwVars, clockVars, irqVars
  <2>2. Places' /\ Attached' /\ Snapshots' /\ Silent'
    BY <1>5, ClockAssumption DEF Places, Attached, Snapshots, Silent, ReadSteps,
                                 InitIrqOff, InitAt, MainAt, csVars, clockVars, irqVars
  <2>3. Accounted'
    BY <1>5, ClockAssumption DEF Accounted, Live, InitSteps, InitIrqOff, InitAt, MainAt,
                                 hwVars
  <2>4. Reads'
    BY <1>5, ClockAssumption DEF Reads, ReadSteps, InitIrqOff, InitAt, MainAt
  <2> QED  BY <2>1, <2>2, <2>3, <2>4
<1>6. CASE InitStop
  <2>1. ClockTypeOK'
    BY <1>6, ClockAssumption DEF ClockTypeOK, CSTypeOK, InitSteps, InitStop, InitAt,
                                 MainAt, csVars, clockVars, irqVars
  <2>2. Places' /\ Attached' /\ Snapshots' /\ Silent'
    BY <1>6, ClockAssumption DEF ClockTypeOK, Places, Attached, Snapshots, Silent,
                                 ReadSteps, InitStop, InitAt, MainAt, csVars, clockVars,
                                 irqVars
  <2>3. Accounted'
    BY <1>6, ClockAssumption DEF Accounted, Live, InitSteps, InitStop, InitAt, MainAt
  <2>4. Reads'
    BY <1>6, ClockAssumption DEF Reads, ReadSteps, InitStop, InitAt, MainAt
  <2> QED  BY <2>1, <2>2, <2>3, <2>4
<1>7. CASE InitAck
  <2>1. ClockTypeOK'
    BY <1>7, ClockAssumption DEF ClockTypeOK, CSTypeOK, InitSteps, InitAck, InitAt,
                                 MainAt, csVars, clockVars, irqVars
  <2>2. Places' /\ Attached' /\ Snapshots' /\ Silent'
    BY <1>7, ClockAssumption DEF ClockTypeOK, Places, Attached, Snapshots, Silent,
                                 ReadSteps, InitAck, InitAt, MainAt, csVars, clockVars,
                                 irqVars
  <2>3. Accounted'
    BY <1>7, ClockAssumption DEF Accounted, Live, InitSteps, InitAck, InitAt, MainAt
  <2>4. Reads'
    BY <1>7, ClockAssumption DEF Reads, ReadSteps, InitAck, InitAt, MainAt
  <2> QED  BY <2>1, <2>2, <2>3, <2>4
<1>8. CASE InitAttach
  <2>1. ClockTypeOK'
    BY <1>8, ClockAssumption DEF ClockTypeOK, CSTypeOK, InitSteps, InitAttach, InitAt,
                                 MainAt, csVars, irqVars
  <2>2. Places' /\ Attached' /\ Snapshots' /\ Silent'
    BY <1>8, ClockAssumption DEF ClockTypeOK, Places, Attached, Snapshots, Silent,
                                 ReadSteps, InitAttach, InitAt, MainAt, csVars, irqVars
  <2>3. Accounted'
    BY <1>8, ClockAssumption DEF Accounted, Live, InitSteps, InitAttach, InitAt, MainAt
  <2>4. Reads'
    BY <1>8, ClockAssumption DEF Reads, ReadSteps, InitAttach, InitAt, MainAt
  <2> QED  BY <2>1, <2>2, <2>3, <2>4
<1>9. CASE InitInstall
  <2>1. ClockTypeOK'
    BY <1>9, ClockAssumption DEF ClockTypeOK, CSTypeOK, InitSteps, InitInstall, InitAt,
                                 MainAt, csVars, hwVars, irqVars
  <2>2. Places' /\ Attached' /\ Snapshots' /\ Silent'
    BY <1>9, ClockAssumption DEF ClockTypeOK, Places, Attached, Snapshots, Silent,
                                 ReadSteps, InitInstall, InitAt, MainAt, csVars, hwVars,
                                 irqVars
  <2>3. Accounted'
    BY <1>9, ClockAssumption DEF Accounted, Live, InitSteps, InitInstall, InitAt, MainAt,
                                 hwVars
  <2>4. Reads'
    BY <1>9, ClockAssumption DEF Reads, ReadSteps, InitInstall, InitAt, MainAt
  <2> QED  BY <2>1, <2>2, <2>3, <2>4
<1>10. CASE InitZeroAgain
  <2>1. ClockTypeOK'
    BY <1>10, ClockAssumption DEF ClockTypeOK, CSTypeOK, InitSteps, InitZeroAgain,
                                  InitAt, MainAt, csVars, hwVars, irqVars
  <2>2. Places' /\ Attached' /\ Snapshots' /\ Silent'
    BY <1>10, ClockAssumption DEF ClockTypeOK, Places, Attached, Snapshots, Silent,
                                  ReadSteps, InitZeroAgain, InitAt, MainAt, csVars,
                                  hwVars, irqVars
  <2>3. Accounted'
    BY <1>10, ClockAssumption DEF Accounted, Live, InitSteps, InitZeroAgain, InitAt,
                                  MainAt, hwVars
  <2>4. Reads'
    BY <1>10, ClockAssumption DEF Reads, ReadSteps, InitZeroAgain, InitAt, MainAt
  <2> QED  BY <2>1, <2>2, <2>3, <2>4
<1>11. CASE InitActivate
  <2>1. ClockTypeOK'
    BY <1>11, ClockAssumption DEF ClockTypeOK, CSTypeOK, InitSteps, InitActivate, InitAt,
                                  MainAt, csVars, hwVars, irqVars
  <2>2. Places' /\ Attached' /\ Snapshots' /\ Silent'
    BY <1>11, ClockAssumption DEF ClockTypeOK, Places, Attached, Snapshots, Silent,
                                  ReadSteps, InitActivate, InitAt, MainAt, csVars,
                                  hwVars, irqVars
  <2>3. Accounted'
    BY <1>11, ClockAssumption DEF Accounted, Live, InitSteps, InitActivate, InitAt,
                                  MainAt, hwVars
  <2>4. Reads'
    BY <1>11, ClockAssumption DEF Reads, ReadSteps, InitActivate, InitAt, MainAt
  <2> QED  BY <2>1, <2>2, <2>3, <2>4
<1>12. CASE InitStart
  <2>1. ClockTypeOK'
    <3>1. timers' \in [Timers -> [value : 0 .. Period - 1, start : BOOLEAN, irq : BOOLEAN]]
      BY <1>12 DEF InitStart, ClockTypeOK
    <3>2. lost' \in [Timers -> 0 .. MaxOverflows] /\ overflows' \in [Timers -> 0 .. MaxOverflows]
      BY <1>12, ClockAssumption DEF InitStart, ClockTypeOK
    <3> QED  BY <1>12, <3>1, <3>2 DEF ClockTypeOK, CSTypeOK, InitSteps, InitStart,
                                      InitAt, MainAt,
           csVars, clockVars, irqVars
  <2>2. Places' /\ Attached' /\ Snapshots' /\ Silent'
    BY <1>12, ClockAssumption DEF Places, Attached, Snapshots, Silent, ReadSteps,
                                  InitStart, InitAt, MainAt, csVars, clockVars, irqVars
  <2>3. Accounted'
    BY <1>12, ClockAssumption DEF ClockTypeOK, Silent, Accounted, InitStart, InitAt,
                                  MainAt, clockVars
  <2>4. Reads'
    BY <1>12, ClockAssumption DEF Reads, ReadSteps, InitStart, InitAt, MainAt
  <2> QED  BY <2>1, <2>2, <2>3, <2>4
<1>13. CASE InitIrqOn
  <2>1. ClockTypeOK'
    BY <1>13, ClockAssumption DEF ClockTypeOK, CSTypeOK, InitIrqOn, InitAt, MainAt,
                                  csVars, hwVars, clockVars, irqVars
  <2>2. Places' /\ Attached' /\ Snapshots' /\ Silent'
    BY <1>13, ClockAssumption DEF Places, Attached, Snapshots, Silent, ReadSteps,
                                  InitIrqOn, InitAt, MainAt, csVars, clockVars, irqVars
  <2>3. Accounted'
    BY <1>13, ClockAssumption DEF Accounted, Live, InitIrqOn, InitAt, MainAt, hwVars,
                                  clockVars, irqVars
  <2>4. Reads'
    BY <1>13, ClockAssumption DEF Reads, ReadSteps, InitIrqOn, InitAt, MainAt
  <2> QED  BY <2>1, <2>2, <2>3, <2>4
<1>14. CASE ReadLow
  <2>1. ClockTypeOK'
    BY <1>14, ClockAssumption DEF ClockTypeOK, CSTypeOK, ReadSteps, ReadLow, ReadAt,
                                  MainAt, csVars, hwVars, clockVars, irqVars
  <2>2. Places' /\ Attached' /\ Snapshots' /\ Silent'
    BY <1>14, ClockAssumption DEF Places, Attached, Snapshots, Silent, ReadSteps,
                                  ReadLow, ReadAt, MainAt, csVars, clockVars, irqVars
  <2>3. Accounted'
    BY <1>14, ClockAssumption DEF Accounted, Live, InitSteps, ReadLow, ReadAt, MainAt,
                                  hwVars, clockVars, irqVars
  <2>4. Reads'
    BY <1>14, ClockAssumption DEF ClockTypeOK, Reads, TrueTime, ReadSteps, ReadLow,
                                  ReadAt, MainAt, hwVars, clockVars
  <2> QED  BY <2>1, <2>2, <2>3, <2>4
<1>15. CASE ReadHigh
  <2>1. ClockTypeOK'
    BY <1>15, ClockAssumption DEF ClockTypeOK, CSTypeOK, ReadSteps, ReadHigh, ReadAt,
                                  MainAt, csVars, hwVars, clockVars, irqVars
  <2>2. Places' /\ Attached' /\ Snapshots' /\ Silent'
    BY <1>15, ClockAssumption DEF Places, Attached, Snapshots, Silent, ReadSteps,
                                  ReadHigh, ReadAt, MainAt, csVars, clockVars, irqVars
  <2>3. Accounted'
    BY <1>15, ClockAssumption DEF Accounted, Live, InitSteps, ReadHigh, ReadAt, MainAt,
                                  hwVars, clockVars, irqVars
  <2>4. Reads'
    BY <1>15, ClockAssumption DEF ClockTypeOK, Reads, TrueTime, ReadSteps, ReadHigh,
                                  ReadAt, MainAt, hwVars, clockVars
  <2> QED  BY <2>1, <2>2, <2>3, <2>4
<1>16. CASE ReadReg
  <2>1. ClockTypeOK'
    BY <1>16, ClockAssumption DEF ClockTypeOK, CSTypeOK, ReadSteps, ReadReg, ReadAt,
                                  MainAt, csVars, hwVars, clockVars, irqVars
  <2>2. Places' /\ Attached' /\ Snapshots' /\ Silent'
    BY <1>16, ClockAssumption DEF Places, Attached, Snapshots, Silent, ReadSteps,
                                  ReadReg, ReadAt, MainAt, csVars, clockVars, irqVars
  <2>3. Accounted'
    BY <1>16, ClockAssumption DEF Accounted, Live, InitSteps, ReadReg, ReadAt, MainAt,
                                  hwVars, clockVars, irqVars
  <2>4. Reads'
    BY <1>16, ClockAssumption DEF ClockTypeOK, Places, Accounted, Reads, Live, TrueTime,
                                  InitSteps, ReadReg, ReadAt, MainAt, hwVars, clockVars
  <2> QED  BY <2>1, <2>2, <2>3, <2>4
<1>17. CASE ReadEnd
  <2>1. ClockTypeOK'
    <3>1. CSTypeOK'
      BY <1>17, MaxDepthAssumption DEF ReadEnd, Close, ClockTypeOK, CSTypeOK
    <3> QED  BY <1>17, <3>1, ClockAssumption DEF ClockTypeOK, ReadEnd, ReadAt, MainAt,
           hwVars, clockVars, irqVars
  <2>2. Places' /\ Attached' /\ Snapshots' /\ Silent'
    BY <1>17, ClockAssumption DEF Places, Attached, Snapshots, Silent, ReadSteps,
                                  ReadEnd, ReadAt, MainAt, Close, clockVars, irqVars
  <2>3. Accounted'
    BY <1>17, ClockAssumption DEF Accounted, Live, InitSteps, ReadEnd, ReadAt, MainAt,
                                  hwVars, clockVars, irqVars
  <2>4. Reads'
    BY <1>17, ClockAssumption DEF Reads, ReadSteps, ReadEnd, ReadAt, MainAt
  <2> QED  BY <2>1, <2>2, <2>3, <2>4
<1>18. CASE MasterSwitch
  <2>1. ClockTypeOK'
    BY <1>18, ClockAssumption DEF ClockTypeOK, CSTypeOK, MasterSwitch, SetMask, hwVars,
                                  clockVars, readVars, irqVars
  <2>2. Places' /\ Attached' /\ Snapshots' /\ Silent'
    BY <1>18, ClockAssumption DEF Places, Attached, Snapshots, Silent, MasterSwitch,
                                  SetMask, clockVars, irqVars
  <2>3. Accounted'
    BY <1>18, ClockAssumption DEF Accounted, Live, MasterSwitch, hwVars, clockVars, irqVars
  <2>4. Reads'
    BY <1>18, ClockAssumption DEF Reads, ReadSteps, MasterSwitch
  <2> QED  BY <2>1, <2>2, <2>3, <2>4
<1>19. CASE TakeInterrupt
  <2>1. ClockTypeOK'
    BY <1>19, ClockAssumption DEF ClockTypeOK, CSTypeOK, TakeInterrupt, Interrupt,
                                  hwVars, clockVars, readVars
  <2>2. Places' /\ Attached' /\ Snapshots' /\ Silent'
    BY <1>19, ClockAssumption DEF Places, Attached, Snapshots, Silent, TakeInterrupt,
                                  Interrupt, hwVars, clockVars
  <2>3. Accounted'
    BY <1>19, ClockAssumption DEF Places, Accounted, Live, TakeInterrupt, Interrupt,
                                  hwVars, clockVars
  <2>4. Reads'
    BY <1>19, ClockAssumption DEF Reads, TrueTime, TakeInterrupt, hwVars, clockVars,
                                  readVars
  <2> QED  BY <2>1, <2>2, <2>3, <2>4
<1>20. CASE Scan
  <2>a. NextLine \in todo
    <3>1. todo \subseteq {8, OtherLine} /\ todo # {} /\ OtherLine \in Nat
      BY <1>20, LineOfTimer0 DEF Scan, ClockTypeOK
    <3>2. \E l \in todo : \A k \in todo : l <= k
      <4>1. CASE 8 \notin todo \/ (OtherLine \in todo /\ OtherLine <= 8)
        <5>1. OtherLine \in todo
          BY <3>1, <4>1
        <5>2. ASSUME NEW k \in todo PROVE OtherLine <= k
          <6>1. k = OtherLine \/ (k = 8 /\ OtherLine <= 8)
            BY <3>1, <4>1
          <6> QED  BY <3>1, <6>1
        <5> QED  BY <5>1, <5>2
      <4>2. CASE 8 \in todo /\ ~(OtherLine \in todo /\ OtherLine <= 8)
        <5>1. 8 \in todo /\ \A k \in todo : 8 <= k
          BY <3>1, <4>2
        <5> QED  BY <5>1
      <4> QED  BY <4>1, <4>2
    <3> QED  BY <3>2 DEF NextLine
  <2>b. NextLine \in {8, OtherLine}
    BY <2>a DEF ClockTypeOK
  <2>1. ClockTypeOK'
    BY <1>20, <2>a, <2>b DEF ClockTypeOK, CSTypeOK, Scan, IrqAt, readVars
  <2>2. Places' /\ Attached' /\ Snapshots' /\ Silent'
    BY <1>20, <2>a, <2>b DEF ClockTypeOK, CSTypeOK, Places, Attached, Snapshots, Silent,
                             ReadSteps,
       Scan, IrqAt, readVars
  <2>3. Accounted'
    BY <1>20, ClockAssumption DEF Accounted, Live, Scan, IrqAt
  <2>4. Reads'
    BY <1>20, ClockAssumption DEF Reads, TrueTime, Scan, IrqAt, readVars
  <2> QED  BY <2>1, <2>2, <2>3, <2>4
<1>21. CASE HandlerCount
  <2>1. ClockTypeOK'
    BY <1>21, ClockAssumption DEF ClockTypeOK, CSTypeOK, HandlerCount, IrqAt, DataOf,
                                  readVars
  <2>2. Places' /\ Attached' /\ Snapshots' /\ Silent'
    BY <1>21, ClockAssumption DEF Places, Attached, Snapshots, Silent, HandlerCount, IrqAt
  <2>3. Accounted'
    BY <1>21, ClockAssumption DEF ClockTypeOK, Snapshots, Accounted, Live, HandlerCount,
                                  IrqAt, DataOf
  <2>4. Reads'
    BY <1>21, ClockAssumption DEF Places, Reads, ReadSteps, HandlerCount, IrqAt
  <2> QED  BY <2>1, <2>2, <2>3, <2>4
<1>22. CASE HandlerAck
  <2>1. ClockTypeOK'
    BY <1>22, ClockAssumption DEF ClockTypeOK, CSTypeOK, HandlerAck, IrqAt, readVars
  <2>2. Places' /\ Attached' /\ Snapshots' /\ Silent'
    BY <1>22, ClockAssumption DEF Places, Attached, Snapshots, Silent, HandlerAck, IrqAt,
                                  DataOf
  <2>3. Accounted'
    BY <1>22, ClockAssumption DEF Accounted, Live, HandlerAck, IrqAt, DataOf
  <2>4. Reads'
    BY <1>22, ClockAssumption DEF Reads, TrueTime, HandlerAck, IrqAt, readVars
  <2> QED  BY <2>1, <2>2, <2>3, <2>4
<1>23. CASE HandlerOther
  <2>1. ClockTypeOK'
    BY <1>23, ClockAssumption DEF ClockTypeOK, CSTypeOK, HandlerOther, IrqAt, readVars
  <2>2. Places' /\ Attached' /\ Snapshots' /\ Silent'
    BY <1>23, ClockAssumption DEF Places, Attached, Snapshots, Silent, HandlerOther, IrqAt
  <2>3. Accounted'
    BY <1>23, ClockAssumption DEF Accounted, Live, HandlerOther, IrqAt
  <2>4. Reads'
    BY <1>23, ClockAssumption DEF Reads, TrueTime, HandlerOther, IrqAt, readVars
  <2> QED  BY <2>1, <2>2, <2>3, <2>4
<1>24. CASE LeaveInterrupt
  <2>1. ClockTypeOK'
    BY <1>24, ClockAssumption DEF ClockTypeOK, CSTypeOK, LeaveInterrupt, IrqAt, Resume,
                                  readVars
  <2>2. Places' /\ Attached' /\ Snapshots' /\ Silent'
    BY <1>24, ClockAssumption DEF Places, Attached, Snapshots, Silent, LeaveInterrupt,
                                  IrqAt, Resume
  <2>3. Accounted'
    BY <1>24, ClockAssumption DEF Accounted, Live, LeaveInterrupt, IrqAt
  <2>4. Reads'
    BY <1>24, ClockAssumption DEF Reads, TrueTime, LeaveInterrupt, IrqAt, readVars
  <2> QED  BY <2>1, <2>2, <2>3, <2>4
<1>25. CASE UNCHANGED systemVars
  <2>1. ClockTypeOK'
    BY <1>25, ClockAssumption DEF ClockTypeOK, CSTypeOK, systemVars, csVars, hwVars, clockVars,
                                  readVars, irqVars
  <2>2. Places' /\ Attached' /\ Snapshots' /\ Silent'
    BY <1>25, ClockAssumption DEF Places, Attached, Snapshots, Silent, systemVars, csVars,
                                  hwVars, clockVars, irqVars
  <2>3. Accounted'
    BY <1>25, ClockAssumption DEF Accounted, Live, systemVars, hwVars, clockVars, irqVars
  <2>4. Reads'
    BY <1>25, ClockAssumption DEF Reads, TrueTime, systemVars, hwVars, clockVars, readVars
  <2> QED  BY <2>1, <2>2, <2>3, <2>4
<1> QED  BY <1>1, <1>2, <1>3, <1>4, <1>5, <1>6, <1>7, <1>8, <1>9, <1>10, <1>11, <1>12,
            <1>13, <1>14, <1>15, <1>16, <1>17, <1>18, <1>19, <1>20, <1>21, <1>22, <1>23,
            <1>24, <1>25 DEF ClockNext, InitStep, ReadStep, HandlerStep

\* The inductive invariant holds in every behaviour of one clock.
THEOREM Invariant == ASSUME Timers = {0} PROVE ClockSpec => []IInv
<1>1. ClockInit => IInv
  BY ClockStart
<1>2. IInv /\ [ClockNext]_systemVars => IInv'
  BY ClockStep
<1> QED  BY <1>1, <1>2, PTL DEF ClockSpec

\* Type correctness of one clock.
THEOREM TypeCorrect == ASSUME Timers = {0} PROVE ClockSpec => []ClockTypeOK
<1>1. IInv => ClockTypeOK
  BY DEF IInv
<1> QED  BY <1>1, Invariant, PTL

\* Every overflow of the running clock is in its count, pending, or lost to
\* one that was pending: ctr_system_clock_interrupt counts none twice, and
\* ctr_system_clock_initialize leaves none of before.
THEOREM EveryOverflow == ASSUME Timers = {0} PROVE ClockSpec => []OverflowsAccountedFor
<1>1. ASSUME IInv PROVE OverflowsAccountedFor
  <2>1. ASSUME NEW t \in Timers, Running(t)
        PROVE  overflows[t] = clock_count[t] + lost[t]
                   + (IF TimerLine(t) \in IRQ_IF /\ ~Counted(t) THEN 1 ELSE 0)
    <3>1. t = 0 /\ Live
      BY <1>1, <2>1 DEF IInv, ClockTypeOK, Running, Live
    <3> QED  BY <3>1, <1>1 DEF IInv, Accounted, Counted, DataOf, Mine
  <2> QED  BY <2>1 DEF OverflowsAccountedFor
<1> QED  BY <1>1, Invariant, PTL

\* The handler never dereferences a clock that was not stored.
THEOREM ClockIsThere == ASSUME Timers = {0} PROVE ClockSpec => []NoNullClock
<1>1. IInv => NoNullClock
  BY DEF IInv, Attached, NoNullClock, DataOf
<1> QED  BY <1>1, Invariant, PTL

\* A reading, made of two words of the count and the value of a timer that
\* runs on, is not torn, for words and periods of any size.
THEOREM ReadingsNotTorn == ASSUME Timers = {0} PROVE ClockSpec => []ReadingBound
<1>1. ASSUME IInv, mainpc = "close"
      PROVE  /\ Result <= TrueTime(subject)
             /\ Result >= begun - Period * (1 + lost[subject])
  <2>1. subject = 0 /\ clock_count[0] \in Nat /\ WordSize \in Nat \ {0, 1}
    BY <1>1, ClockAssumption DEF IInv, ClockTypeOK
  <2>2. high * WordSize + low = clock_count[0]
    <3>1. low = clock_count[0] % WordSize /\ high = clock_count[0] \div WordSize
      BY <1>1 DEF IInv, Reads
    <3>2. clock_count[0] = WordSize * (clock_count[0] \div WordSize) + (clock_count[0] % WordSize)
          /\ clock_count[0] \div WordSize \in Nat
      BY <2>1, DivMod
    <3> QED  BY <2>1, <3>1, <3>2
  <2>3. Result = clock_count[0] * Period + reg
    BY <2>2 DEF Result
  <2> QED  BY <1>1, <2>1, <2>3 DEF IInv, Reads
<1> QED  BY <1>1, Invariant, PTL DEF ReadingBound
=============================================================================
