SPECIFICATION Spec
CONSTANTS
  u1 = u1  u2 = u2  c1 = c1  c2 = c2
  Urls = {u1, u2}
  Seeds = {u1}
  Crawlers = {c1}
  NoUrl = NoUrl
  Ownerships <- PeersChange
  MaxChunks = 1
  MaxRestarts = 1
  MaxCopies = 1
CHECK_DEADLOCK FALSE
INVARIANTS
  CheckpointUsable
  NothingForgotten
  OnlyOwnedUnlessSpilled

  
