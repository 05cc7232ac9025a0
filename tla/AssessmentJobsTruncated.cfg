CONSTANTS
  N = 2
  Plans <- CrawlPlans
  MaxSessions = 2
  MaxLost = 0
  None = none
SPECIFICATION Spec
INVARIANT TruncatedNeverUsed
CHECK_DEADLOCK FALSE
