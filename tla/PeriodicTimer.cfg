CONSTANTS
  t1 = t1
  t2 = t2
  o1 = o1
  none = none
  Objects = {o1}
  None = none
  Timers <- MCTimers
  Delays <- MCDelays
  NestedDelays <- MCNested
  Periods <- MCPeriods
  IntSize = 16
  MaxNow = 3
SPECIFICATION TSpec
INVARIANTS
  OneLiveJob
  StopHolds
  NoCrash
  TimersKept
  WakesInTime
  DeadlineOrder
PROPERTIES
  PassEnds
  PeriodApart
