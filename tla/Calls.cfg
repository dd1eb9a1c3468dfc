\* Two clients, one retry each, reads that lag by one.
CONSTANTS
  a = a  b = b  None = None  NoKey = NoKey
  Clients = {a, b}
  Programs <- Mixed
  Seeded <- Project
  SchemaLag = 1
  SearchLag = 1
  Retries = 1
  MaxLate = 1
  MaxFaults = 1
SPECIFICATION FairSpec
INVARIANTS RetriesHarmless
PROPERTIES AnswersTrue CallsEnd
CHECK_DEADLOCK FALSE
