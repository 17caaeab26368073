CONSTANTS
  Sentinel = 5
  N = 3
  Kinds = {"and", "or", "phrase", "container"}
  Corpora <- MCCorpora
  Postings <- MCPostings
SPECIFICATION Spec
INVARIANTS
  NothingPassed
PROPERTIES
  ImplementsCursor
  EveryCallReturns
CHECK_DEADLOCK FALSE
