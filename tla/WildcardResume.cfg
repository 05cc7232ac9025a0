CONSTANTS
  Schedule = {s1}
  Handler = {h1, h2}
  MaxTime = 1
  Dates = {1}
  MaxWorld = 1
  MaxStarts = 2
  MaxRequests = 2
  Absent = absent
  j1 = j1
  j2 = j2
  j3 = j3
  None = none
  Request = {q1, q2, q3}
  RequestLimit = 2
  MaxAttempts = 2
  BindingSeq <- ThreeBindings
  IdentitySeq <- TwoIdentities
  JobIdentity <- ThreeJobs
  MaxRenewals = 2
  MaxExpiries = 1
  LastCase = 4
  Baseline = {1, 3}
  Runner = {r1, r2}
  LastProbe = 3
  CacheProbe = {1}
  ProxyProbe = {3}
  Prober = {p1, p2}
  MaxFlips = 2
  HostSeq <- TwoHosts
  RunnerSeq <- ThreeRunners
  Heavy = {"zap"}
  Selected = {"zap", "nuclei"}
  Unsuited <- OneUnsuited
  Workers = 2
  MaxSessions = 2
  NoRun = none
  HostsOf <- TwoTargets
  MaxRuns = 4
  NoState = none
  NoTask = none
SPECIFICATION SpecSum
INVARIANTS EveryTargetIsDiscovered
CHECK_DEADLOCK FALSE
