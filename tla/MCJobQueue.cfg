SPECIFICATION Spec
CONSTANTS
  t1 = t1
  t2 = t2
  c1 = c1
  c2 = c2
  scan = scan
  dedup = dedup
  Threads <- MCThreads
  Processes <- MCProcesses
  Beats <- MCBeats
  Works <- MCWorks
  Serves <- MCServes
  Cancellable = {dedup}
  Clients <- MCClients
  Requests <- MCRequests
  PurgeSets <- MCPurgeSets
  Tokens = {1, 2, 3}
  MaxJobs = 2
  Retention = TRUE
  MaxFaults = 2
  Lease = 3
  HbInterval = 1
  RenewBy = 2
  SettleBound = 1
SYMMETRY Symmetry
INVARIANTS
  LeaseOwnership
  ExclusiveExecution
  NoLostRequest
PROPERTIES
  OwnerSettles
