------------------------------ MODULE MCJobQueue ------------------------------
(***************************************************************************)
(* Small instances of JobQueue: one root to scan, one duplicate cleanup.   *)
(***************************************************************************)
EXTENDS JobQueue, TLC

CONSTANTS t1, t2, c1, c2, scan, dedup

MCThreads   == {t1, t2}
MCProcesses == {MCThreads}
MCBeats     == MCThreads
MCWorks     == {scan, dedup}
MCServes    == [t \in MCThreads |-> MCWorks]

\* A manual scan, the due-scan tick and a duplicate cleanup.
MCRequests == {ScanRequest(scan, 2, FALSE), ScanRequest(scan, 1, TRUE),
               UniqueRequest(dedup, 1)}

MCLiveRequests == {ScanRequest(scan, 2, FALSE), UniqueRequest(dedup, 1)}

\* The default purge, and the purge of settled rows.
MCPurgeSets == {{"queued", "failed"}, {"failed", "done"}}

NoPurge == {}

MCClients == {c1, c2}

ThreadSymmetry == Permutations(MCThreads)

Symmetry == ThreadSymmetry \cup Permutations(MCClients)
===============================================================================
