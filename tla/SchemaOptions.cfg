\* Two hosts add the options of one list.
CONSTANTS
  Slugs = {1, 2, 3, 4, 5}
  HostTemplate = 1
  Nobody = Nobody
  h1 = h1  h2 = h2
  Hosts = {h1, h2}
  Wants <- AllTwoOptions
  Kept <- Fresh
  Strays = {}
  Reads = 1
  MaxRereads = 2
  MaxRuns = 1
  Restarted = {}
SPECIFICATION Spec
INVARIANTS SuccessMeansComplete
CHECK_DEADLOCK FALSE
