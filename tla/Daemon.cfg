\* Two sources, a publish every second tick, a summary every third.
CONSTANTS
  fast = fast  slow = slow
  Sources = {fast, slow}
  Interval <- TickAndTwo
  PublishEvery = 2
  SummaryEvery = 3
  Reasons = {"refused", "deadline"}
  MaxFailures <- CountedForOne
SPECIFICATION FairSpec
INVARIANTS TypeOK NothingUnsent RepeatsReported
PROPERTIES FirstPublishComplete OneTickPerSlot KeepsPublishing KeepsCollecting
CHECK_DEADLOCK FALSE
