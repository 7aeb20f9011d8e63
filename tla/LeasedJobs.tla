------------------------------ MODULE LeasedJobs ------------------------------
(***************************************************************************)
(* What the job queue promises, with nothing of leases, tokens, heartbeats *)
(* or time: a job is handed to one worker, stays with that worker until it *)
(* settles the job or gives it back, and is handed on only when its worker *)
(* is gone.                                                                *)
(***************************************************************************)
CONSTANTS Jobs, Workers,
          Nobody     \* not a worker

VARIABLES
  phase,    \* each job's phase
  holder    \* the worker that works on each job

vars == <<phase, holder>>

TypeOK ==
  /\ phase \in [Jobs -> {"absent", "waiting", "held", "settled"}]
  /\ holder \in [Jobs -> Workers \cup {Nobody}]

Init ==
  /\ phase = [j \in Jobs |-> "absent"]
  /\ holder = [j \in Jobs |-> Nobody]

Post(j) ==
  /\ phase[j] = "absent"
  /\ phase' = [phase EXCEPT ![j] = "waiting"]
  /\ UNCHANGED holder

\* Only a waiting job nobody works on is handed out.
Take(w, j) ==
  /\ phase[j] = "waiting"
  /\ holder[j] = Nobody
  /\ \A k \in Jobs : holder[k] # w
  /\ phase' = [phase EXCEPT ![j] = "held"]
  /\ holder' = [holder EXCEPT ![j] = w]

\* The worker settles the job, or gives it back to be run again.
Leave(w, j) ==
  /\ holder[j] = w
  /\ phase[j] \in {"held", "settled"}
  /\ \E p \in {"waiting", "settled"} : phase' = [phase EXCEPT ![j] = p]
  /\ holder' = [holder EXCEPT ![j] = Nobody]

\* Workers disappear.  Their jobs stay held.
Vanish(W) ==
  /\ holder' = [j \in Jobs |-> IF holder[j] \in W THEN Nobody ELSE holder[j]]
  /\ UNCHANGED phase

\* A held job whose worker is gone waits again.
Recover(J) ==
  /\ \A j \in J : phase[j] = "held" /\ holder[j] = Nobody
  /\ phase' = [j \in Jobs |-> IF j \in J THEN "waiting" ELSE phase[j]]
  /\ UNCHANGED holder

\* Live jobs are cancelled under their workers, who may still notice.
Cancel(J) ==
  /\ \A j \in J : phase[j] \in {"waiting", "held"}
  /\ phase' = [j \in Jobs |-> IF j \in J THEN "settled" ELSE phase[j]]
  /\ \A j \in Jobs : holder'[j] = holder[j] \/ (j \in J /\ holder'[j] = Nobody)
  /\ holder' \in [Jobs -> Workers \cup {Nobody}]

\* Jobs nobody works on are forgotten.
Forget(J) ==
  /\ \A j \in J : phase[j] \in {"waiting", "settled"} /\ holder[j] = Nobody
  /\ phase' = [j \in Jobs |-> IF j \in J THEN "absent" ELSE phase[j]]
  /\ UNCHANGED holder

Next ==
  \/ \E j \in Jobs : Post(j)
  \/ \E w \in Workers, j \in Jobs : Take(w, j) \/ Leave(w, j)
  \/ \E W \in SUBSET Workers : Vanish(W)
  \/ \E J \in SUBSET Jobs : Recover(J) \/ Cancel(J) \/ Forget(J)

Spec == Init /\ [][Next]_vars

===============================================================================
