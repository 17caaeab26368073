SPECIFICATION FairSpec
CONSTANTS
  p1 = p1  p2 = p2  p3 = p3  c1 = c1  c2 = c2
  d1 = d1  d2 = d2  d3 = d3  d4 = d4  d5 = d5
  Producers = {p1, p2, p3}
  Consumers = {c1, c2}
  Docs = {d1, d2, d3, d4, d5}
  NoDoc = NoDoc
  Capacity = 2
CHECK_DEADLOCK FALSE
INVARIANTS
  NoLostWakeup
PROPERTIES
  ImplementsFifo
  EveryoneServed
