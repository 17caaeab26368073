SPECIFICATION SpillSpec
CONSTANTS
  a = a  b = b
  c1 = c1  c2 = c2  c3 = c3  p1 = p1
  i1 = i1  i2 = i2  i3 = i3  i4 = i4  i5 = i5
  i6 = i6  i7 = i7  i8 = i8  i9 = i9
  Hosts = {a, b}
  Items = {i1, i2, i3, i4, i5, i6, i7, i8, i9}
  HostOf <- MCHostOf
  Crawlers = {c1, c2}
  Producers = {p1}
  NoHost = NoHost
  NoItem = NoItem
  MaxQueued = 4
  AutoClose = FALSE
  RecoveredChunks <- MCNoChunks
  AllowShutdown = FALSE
  MaxTime = 0
  MaxSnoozes = 0
  MaxBatch = 5
CHECK_DEADLOCK FALSE
SYMMETRY MCSymmetry
INVARIANTS
  NothingLostOrDuplicated
  CountersExact
