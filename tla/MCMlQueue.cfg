SPECIFICATION Spec
CONSTANTS
  t1 = t1
  t2 = t2
  c1 = c1
  classify = classify
  recluster = recluster
  Threads <- MLThreads
  Processes <- MLProcesses
  Beats = {}
  Works <- MLWorks
  Serves <- MLServes
  Cancellable = {}
  Clients = {c1}
  Requests <- MLRequests
  PurgeSets <- MLPurges
  Tokens = {1, 2, 3}
  MaxJobs = 2
  Retention = TRUE
  MaxFaults = 0
  Lease = 3
  HbInterval = 1
  RenewBy = 2
  SettleBound = 1
INVARIANT
  ExclusiveExecution
