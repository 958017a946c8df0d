CONSTANTS
  s1 = s1
  s2 = s2
  none = none
  Sockets <- MCSockets
  NoSocket = none
  Sizes <- MCSizes
  Capacity = 4
  SizeT = 16
  MaxArrivals = 3
  MaxSends = 3
SYMMETRY Symmetry
SPECIFICATION Spec
INVARIANTS
  Whole
