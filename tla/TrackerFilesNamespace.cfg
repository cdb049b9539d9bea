CONSTANTS
  Subs <- MCSubs
  SubHost <- MCSubHost
  Timers <- MCTimers
  TimerOpts <- MCTimerOpts
  NoNode = NoNode
  SubOpts <- MCSubOpts
  JitterOpts <- MCJitterOpts
  MaxRows <- MCMaxRows
SPECIFICATION Spec
INVARIANT RowsKept
\* Every tracker stops after MaxRows rows.
CHECK_DEADLOCK FALSE
