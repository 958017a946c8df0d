CONSTANTS
  p1 = p1
  p2 = p2
  c1 = c1
  c2 = c2
  Pollers <- MCPollers
  Callers <- MCCallers
  MaxCount = 2
  MaxUsec = 1
  SizeT = 16
  Second = 3
  Walls = {0, 1, 3}
  IntMax = 1000
  MaxTurns = 4
  MaxNow = 3
SYMMETRY Symmetry
SPECIFICATION Spec
INVARIANTS
  TypeOK
  RecordsTile
  LeastLoaded
  PunctualLoad
CHECK_DEADLOCK FALSE
