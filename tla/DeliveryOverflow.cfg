\* Two metrics with queues of two in requests of two: chunks that end inside a
\* metric and chunks across both, while the second queue overflows; and an
\* update refused without naming what is wrong.
CONSTANTS
  os = os  rack = rack  hostlink = hostlink
  DimSlugs = {os}  ListSlugs = {}  HostLinks = {}  BadDims = {os}  Naming = {"none"}
  MetricSlugs = {1, 2}
  MaxPerMetric = 2
  ChunkSize = 2
  Retries = 1
  MaxSamples <- MostOfTwo
SPECIFICATION Spec
INVARIANTS NoSilentLoss RedeliveryOnlyWhenUnsure
PROPERTIES KeepsLedger
CHECK_DEADLOCK FALSE
