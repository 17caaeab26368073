SPECIFICATION FairSpec
CONSTANTS
  w1 = w1  w2 = w2  m = m
  p1 = p1  p2 = p2  p3 = p3
  Pages = {p1, p2, p3}
  Workers = {w1, w2}
  Main = m
  Anchored = {p1, p2}
  Weight <- MCWeight
  FlushBodyTokenSize = 1
  Capacity = 2
  MaxFailures = 1
CHECK_DEADLOCK FALSE
INVARIANTS
  EveryPageOnce
  MetaBelongsToChunk
  
PROPERTIES
  ShutdownCompletes
