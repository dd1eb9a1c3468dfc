\* Three entities for two buffers; the first two always fail; one deletion.
CONSTANTS
  EntityKeys = {1, 2, 3}
  MaxKeys = 2
  Broken = {1, 2}
  MaxValues = 2
  MaxRecords = 4
SPECIFICATION FairSpec
INVARIANTS TypeOK ValuesKept
PROPERTIES WorkingEntitiesServed
CHECK_DEADLOCK FALSE
