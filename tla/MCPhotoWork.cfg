SPECIFICATION FairSpec
CHECK_DEADLOCK FALSE
CONSTANTS
  w1 = w1
  w2 = w2
  c1 = c1
  c2 = c2
  index = index
  estimate = estimate
  Photos = {1, 2}
  Stages <- MCStages
  HandsOff <- MCHandsOff
  Silent <- MCStages
  Workers <- MCWorkers
  StageOf <- MCStageOf
  Clients <- MCClients
  Prios = {1}
  Tokens = {1, 2, 3, 4}
  Lease = 1
  MaxFaults = 1
  MaxRequests = 2
INVARIANTS
  ClaimHeld
PROPERTIES
  OnlyOverlapsForget
  PendingIsSettled
  ClaimsEnd
