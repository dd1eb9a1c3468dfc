\* A 422 that names no field, and the next publish.
CONSTANTS
  os = os  rack = rack  hostlink = hostlink
  DimSlugs = {os, rack}  ListSlugs = {}  HostLinks = {}
  BadDims = {os}  Naming = {"none"}
  MetricSlugs = {1}
  MaxPerMetric = 1
  ChunkSize = 1
  Retries = 0
  MaxSamples <- OneEach
SPECIFICATION Spec
INVARIANTS NoRefusedUpdateAgain
CHECK_DEADLOCK FALSE
