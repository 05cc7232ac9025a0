CONSTANTS
  Operation = {w1, w2}
  Attempt = {a1, a2}
  Prior = {p1}
  Root = root
  None = none
  Expanded = TRUE
SPECIFICATION FairSpec
INVARIANTS IInv AtMostOnce SentIsDurable CleanupFollowsWrite JournalIsHonest
PROPERTIES ResumeNeedsSettledWrites ImplementsApprovedWrites AttemptsEnd
CHECK_DEADLOCK FALSE
