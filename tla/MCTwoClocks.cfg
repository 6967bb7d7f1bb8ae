SPECIFICATION ClockSpec
CONSTANTS
  MaxDepth = 1
  Timers <- TwoTimers
  OtherLine = 15
  Period = 3
  WordSize = 2
  MaxOverflows = 4
INVARIANTS
  CountsOwnTimer
