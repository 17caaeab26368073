SPECIFICATION FairSpec
CONSTANTS
  t1 = t1  t2 = t2
  a1 = a1  a2 = a2  b1 = b1  far = far
  A = A  B = B
  Urls = {a1, a2, b1, far}
  Own = {a1, a2, b1}
  Seeds = {a1, a2}
  Origins = {A, B}
  Threads = {t1, t2}
  NoItem = NoItem
  OriginOf <- MCOrigin
  HostOf <- MCHost
  Allowed <- MCAllowed
  DelayOf <- MCDelay
  LinksOf <- MCLinks
  DefaultDelay = 2
  MaxDelay = 3
  MaxStall = 1
CHECK_DEADLOCK FALSE
INVARIANTS
  EveryUrlKept
PROPERTIES
  RulesObeyed
  RequestsSpaced
  Settles
