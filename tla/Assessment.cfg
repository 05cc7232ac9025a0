CONSTANTS
  N = 2
  Plans <- AllPlans
  MaxSessions = 2
  MaxLost = 1
  Candidate = {"x", "y"}
  Selection <- Selections
  MaxWorld = 1
  MaxApprovals = 2
  ZapRun = {"typed", "untyped"}
  Typed = {"typed"}
  NoRun = noRun
  None = none
  Target <- PlanTargets
  TargetKind <- PlanKinds
  Services <- PlanServices
  Discovered = {"discovered-host"}
  Drafts <- PlanDrafts
  MaxEdits = 1
  MaxChanges = 1
  NoPlan = noPlan
SPECIFICATION SpecSum
INVARIANTS TypesOK CompletedIsAccepted PrerequisitesCompleted CancelledForAReason KilledCrawlDiscarded ApprovalIsBinding StartsClean PlanIsHonoured
CHECK_DEADLOCK FALSE
