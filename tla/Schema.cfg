\* Two hosts bring one project to what they want at the same time; discovery
\* is free to lag for ever, and a user may take a slug.
CONSTANTS
  Slugs = {1, 2, 3, 4, 5}
  HostTemplate = 1
  Nobody = Nobody
  h1 = h1  h2 = h2
  Hosts = {h1, h2}
  Wants <- Mixed
  Kept <- FreshOrElsewhere
  Strays = {1}
  Reads = 2
  MaxRereads = 1
  MaxRuns = 2
  Restarted = {h2}
SPECIFICATION FairSpec
INVARIANTS TypeOK SuccessMeansResolved SuccessMeansComplete PlanOrderHolds OwnNotRecreated
PROPERTIES NothingTakenAway RunsEnd
CHECK_DEADLOCK FALSE
