------------------------------- MODULE MCMlQueue -------------------------------
(***************************************************************************)
(* JobQueue as the ML worker uses it: its dispatcher starts no heartbeat.  *)
(***************************************************************************)
EXTENDS JobQueue

CONSTANTS t1, t2, c1, classify, recluster

MLThreads   == {t1, t2}
MLProcesses == {MLThreads}
MLWorks     == {classify, recluster}
MLServes    == [t \in MLThreads |-> MLWorks]
MLRequests  == {UniqueRequest(classify, 3), PlainRequest(recluster, 4)}
MLPurges    == {}
===============================================================================
