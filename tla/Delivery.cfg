\* Dimensions before a metric, under fairness: a list value, a refused dimension
\* and host link, and a 422 that names all or some of what it refuses.
CONSTANTS
  os = os  rack = rack  hostlink = hostlink
  DimSlugs = {os, rack}  ListSlugs = {os}  HostLinks = {hostlink}
  BadDims = {os, hostlink}  Naming = {"all", "some"}
  MetricSlugs = {1}
  MaxPerMetric = 1
  ChunkSize = 1
  Retries = 0
  MaxSamples <- TwoOfLast
SPECIFICATION FairSpec
INVARIANTS TypeOK LatestDimKept RefusalIsolated CleanExit
PROPERTIES EventuallySettled
CHECK_DEADLOCK FALSE
