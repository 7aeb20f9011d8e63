\* Liveness: nothing is purged, so the table fills up and arrivals end.
SPECIFICATION FairSpec
CONSTANTS
  t1 = t1
  t2 = t2
  c1 = c1
  c2 = c2
  scan = scan
  dedup = dedup
  Threads <- MCThreads
  Processes <- MCProcesses
  Beats <- MCBeats
  Works <- MCWorks
  Serves <- MCServes
  Cancellable = {dedup}
  Clients = {c1}
  Requests <- MCLiveRequests
  PurgeSets <- NoPurge
  Tokens = {1, 2, 3}
  MaxJobs = 2
  Retention = FALSE
  MaxFaults = 1
  Lease = 3
  HbInterval = 1
  RenewBy = 2
  SettleBound = 1
PROPERTIES
  OwedIsServed
  JobsSettle
  KeepsPromise
