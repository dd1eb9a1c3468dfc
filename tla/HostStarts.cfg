\* Two starts and a dry run on one machine, with everybody else at work.
CONSTANTS
  s1 = s1  s2 = s2  s3 = s3  m1 = m1  m2 = m2  nokey = nokey  foreign = foreign
  Starts = {s1, s2, s3}
  Identity <- OneMachine
  DryRuns = {s3}
  NoKey = nokey
  Legacy <- AnyLegacy
  UserKeys = {m1, foreign}
  Attempts = 2
  MaxRecords = 3
SPECIFICATION Spec
INVARIANTS TypeOK StartsAgree LegacyNotDoubled
CHECK_DEADLOCK FALSE
