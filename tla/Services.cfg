CONSTANTS
  Scan = {s1}
  Id = {i1, i2}
  Retention = 1
  CleanupDays = 1
  MaxDays = 2
  Missing = missing
  Workers <- RecordWorkers
  MaxWrites = 3
  MaxFaults = 1
  MaxStarts = 3
  Hosts <- ScanHosts
  Readings <- HostReadings
  Requester <- Tools
  Heavy <- HeavyTools
  MaxScans = 4
  Traits <- EndpointTraits
  Crawl <- TwoCrawls
  Browser <- BrowserRows
  Supplement <- ZapRows
  Seed <- Target
  Schema <- OneOperation
  Archive <- ArchiveRows
  Store <- StoreFaults
  JobSeq <- TwoJobs
  Cap = 4
  Limit = 3
  MaxInventories = 2
SPECIFICATION SpecSum
INVARIANTS Types SweepNeedsIdle DispatchIsHonest RecordsAreKept ScopeIsHonoured LeasesAreHonoured
PROPERTIES RefusalIsKept
CHECK_DEADLOCK FALSE
