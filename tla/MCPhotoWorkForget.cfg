SPECIFICATION Spec
CHECK_DEADLOCK FALSE
CONSTANTS
  w1 = w1
  w2 = w2
  c1 = c1
  c2 = c2
  index = index
  estimate = estimate
  Photos = {1}
  Stages <- MCStages
  HandsOff <- MCHandsOff
  Silent <- MCStages
  Workers <- MCWorkers
  StageOf <- MCStageOf
  Clients = {c1}
  Prios = {0, 1}
  Tokens = {1, 2, 3, 4}
  Lease = 2
  MaxFaults = 1
  MaxRequests = 3
PROPERTY
  PendingSurvives
