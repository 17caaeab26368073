SPECIFICATION FairSpec
CONSTANTS
  r1 = r1  r2 = r2
  d1 = d1  d2 = d2  d3 = d3  d4 = d4
  Requests = {r1, r2}
  HttpRequests <- MCHttp
  NoQuery = NoQuery
  Chunks <- MCChunks
  Documents = {d1, d2, d3, d4}
  UrlOf <- MCUrl
  ScoreOf <- MCScore
  MetaUrls <- MCMeta
  Stranger = Stranger
  MaxStrangers = 1
CHECK_DEADLOCK FALSE
INVARIANTS
  AnswerIsBest
PROPERTIES
  EveryRequestAnswered
