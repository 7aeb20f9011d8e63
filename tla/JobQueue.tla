------------------------------- MODULE JobQueue -------------------------------
(***************************************************************************)
(* The `jobs' table of MyPhotos and the dispatcher threads that drain it.  *)
(*                                                                         *)
(* One row is one job.  A thread of a dispatcher claims the best queued    *)
(* row of the kinds it serves, runs its handler while a heartbeat renews   *)
(* the row's lease, and settles the row; a sweeper returns rows whose      *)
(* lease ran out to the queue; clients (API requests, the watcher, the     *)
(* scheduler's ticks) insert rows unless a live one already covers the     *)
(* request; an administrator purges and cancels.  Every action is one SQL  *)
(* statement with its commit, so the interleavings are those of the        *)
(* processes that share the database.                                      *)
(*                                                                         *)
(* Time is discrete.  `age' counts the ticks since a running row's         *)
(* started_at, `timer' the ticks since a thread's last successful renewal, *)
(* or since it began to settle.                                            *)
(***************************************************************************)
EXTENDS Integers, FiniteSets

CONSTANTS
  Threads,      \* dispatcher threads of all worker processes
  Processes,    \* the sets of threads that live and die together
  Beats,        \* the threads whose dispatcher starts a lease heartbeat
  Works,        \* what a job's kind and payload ask for
  Serves,       \* Serves[t]: the works whose kind thread t's dispatcher claims
  Cancellable,  \* the works an administrator can cancel (dedup_cleanup)
  Clients,      \* callers of the enqueue helpers
  Requests,     \* the requests clients make
  PurgeSets,    \* the sets of statuses an administrator purges
  Tokens,       \* numbers standing for the claim UUIDs
  MaxJobs,      \* bound: row ids are 1..MaxJobs
  Retention,    \* done_job_retention_days > 0: the daily tick deletes done rows
  MaxFaults,    \* bound: crashes, thread deaths and lock errors in a behaviour
  Lease,        \* worker.job_lease_seconds, in ticks
  HbInterval,   \* the heartbeat's waiting time
  RenewBy,      \* longest time between two successful renewals of a live job
  SettleBound   \* longest time from a handler's end to its settling write

NoWork  == "no work"
NoToken == 0

Ids       == 1..MaxJobs
Live      == {"queued", "running"}
Purgeable == {"queued", "failed", "running", "done"}
Status    == Live \cup {"absent", "done", "failed", "cancelled"}
Request   == [work : Works, prio : Nat, covers : SUBSET Live, raises : BOOLEAN]

\* No thread is called NoToken, which stands for nobody in Promise below.
ASSUME ThreadsAssumption ==
  /\ Processes \subseteq SUBSET Threads
  /\ Beats \subseteq Threads
  /\ Serves \in [Threads -> SUBSET Works]
  /\ NoToken \notin Threads

ASSUME WorksAssumption ==
  /\ NoWork \notin Works
  /\ Cancellable \subseteq Works
  /\ Requests \subseteq Request
  /\ PurgeSets \subseteq SUBSET Purgeable

ASSUME BoundsAssumption ==
  /\ Tokens \subseteq Nat \ {NoToken}
  /\ MaxJobs \in Nat
  /\ Retention \in BOOLEAN
  /\ MaxFaults \in Nat

\* The heartbeat fires job_lease_seconds // 3 after the last one.
ASSUME TimingAssumption ==
  /\ Lease \in Nat /\ HbInterval \in Nat /\ RenewBy \in Nat /\ SettleBound \in Nat
  /\ HbInterval <= RenewBy

\* What the regular worker relies on: every thread has a heartbeat, a renewal
\* and a settling write fit in the lease, and running rows are not purged.
HeartbeatsCoverLease ==
  /\ Beats = Threads
  /\ RenewBy + SettleBound <= Lease
  /\ \A S \in PurgeSets : "running" \notin S

(***************************************************************************)
(* The three enqueue helpers differ in which live rows stand in for the    *)
(* request, and in whether such a row's priority is raised.                *)
(***************************************************************************)
ScanRequest(w, p, skipIfRunning) ==
  [work |-> w, prio |-> p, raises |-> TRUE,
   covers |-> IF skipIfRunning THEN Live ELSE {"queued"}]

UniqueRequest(w, p) == [work |-> w, prio |-> p, raises |-> FALSE, covers |-> Live]

PlainRequest(w, p) == [work |-> w, prio |-> p, raises |-> FALSE, covers |-> {}]

-------------------------------------------------------------------------------
VARIABLES
  rows,     \* the jobs table
  thread,   \* each dispatcher thread's local state
  asking,   \* each client's request between its SELECT and its INSERT
  faults,   \* how many more faults may happen
  owed      \* history: works requested, or begun and cut short, not begun since

vars == <<rows, thread, asking, faults, owed>>

NoRow == [status |-> "absent", work |-> NoWork, prio |-> 0,
          token |-> NoToken, age |-> 0]

IdleThread == [pc |-> "idle", job |-> 0, token |-> NoToken,
               task |-> NoWork, timer |-> 0]

Settling  == {"complete", "requeue", "fail"}
Executing == Settling \cup {"run"}

Row == [status : Status, work : Works \cup {NoWork}, prio : Nat,
        token : Tokens \cup {NoToken}, age : 0..(Lease + 1)]

\* A row has a claim token exactly while it is running, and a work unless it
\* is absent.
WellFormed(row) ==
  /\ row.token # NoToken <=> row.status = "running"
  /\ row.work # NoWork <=> row.status # "absent"

ThreadState == [pc : Executing \cup {"idle", "fetch", "dead"}, job : 0..MaxJobs,
                token : Tokens \cup {NoToken}, task : Works \cup {NoWork},
                timer : Nat]

\* A thread holds a claim token from its claim to its settling write, and a
\* job and a task from the moment it begins.
Consistent(th) ==
  /\ th.token # NoToken <=> th.pc \in Executing \cup {"fetch"}
  /\ th.pc \in Executing => th.job \in Ids /\ th.task \in Works

TypeOK ==
  /\ rows \in [Ids -> Row]
  /\ \A i \in Ids : WellFormed(rows[i])
  /\ thread \in [Threads -> ThreadState]
  /\ \A t \in Threads : Consistent(thread[t])
  /\ asking \in [Clients -> Requests \cup {PlainRequest(NoWork, 0)}]
  /\ faults \in 0..MaxFaults
  /\ owed \subseteq Works

Init ==
  /\ rows = [i \in Ids |-> NoRow]
  /\ thread = [t \in Threads |-> IdleThread]
  /\ asking = [c \in Clients |-> PlainRequest(NoWork, 0)]
  /\ faults = MaxFaults
  /\ owed = {}

-------------------------------------------------------------------------------
(***************************************************************************)
(* Clients.                                                                *)
(***************************************************************************)
IsAsking(c) == asking[c].work # NoWork

Covering(r) == {i \in Ids : rows[i].work = r.work /\ rows[i].status \in r.covers}

IsFirst(i, S) == i \in S /\ \A j \in S : i <= j

\* SQLite gives a new row the id after the largest one present: the ids of
\* purged rows come back.
IsNextId(i) ==
  /\ \A j \in Ids : rows[j].status # "absent" => j < i
  /\ \A j \in Ids : j = i - 1 => rows[j].status # "absent"

\* The SELECT finds a live row that covers the request: no row is inserted.
Coalesce(c, r) ==
  /\ ~IsAsking(c)
  /\ \E i \in Ids :
       /\ IsFirst(i, Covering(r))
       /\ rows' = IF r.raises /\ rows[i].status = "queued" /\ rows[i].prio < r.prio
                    THEN [rows EXCEPT ![i].prio = r.prio]
                    ELSE rows
       /\ owed' = IF rows[i].status = "queued" THEN owed \cup {r.work} ELSE owed
  /\ UNCHANGED <<thread, asking, faults>>

\* The SELECT finds none; the INSERT is a later statement.
Decide(c, r) ==
  /\ ~IsAsking(c)
  /\ Covering(r) = {}
  /\ asking' = [asking EXCEPT ![c] = r]
  /\ UNCHANGED <<rows, thread, faults, owed>>

Insert(c) ==
  /\ IsAsking(c)
  /\ \E i \in Ids :
       /\ IsNextId(i)
       /\ rows' = [rows EXCEPT ![i] = [NoRow EXCEPT !.status = "queued",
                                                    !.work = asking[c].work,
                                                    !.prio = asking[c].prio]]
  /\ asking' = [asking EXCEPT ![c] = PlainRequest(NoWork, 0)]
  /\ owed' = owed \cup {asking[c].work}
  /\ UNCHANGED <<thread, faults>>

-------------------------------------------------------------------------------
(***************************************************************************)
(* A dispatcher thread: claim_one's UPDATE, claim_one's SELECT by token,   *)
(* the handler, and the write that settles the row.                        *)
(***************************************************************************)
Fresh(k) ==
  /\ \A i \in Ids : rows[i].token # k
  /\ \A t \in Threads : thread[t].token # k

\* Mutant of Claimable: the subquery forgets the status of a running row.
ClaimableLive(t) == {i \in Ids : rows[i].status \in Live /\ rows[i].work \in Serves[t]}

Claimable(t) == {i \in Ids : rows[i].status = "queued" /\ rows[i].work \in Serves[t]}

IsBest(i, S) ==
  /\ i \in S
  /\ \A j \in S \ {i} : \/ rows[i].prio > rows[j].prio
                        \/ (rows[i].prio = rows[j].prio /\ i < j)

Claim(t) ==
  /\ thread[t].pc = "idle"
  /\ \E i \in Ids, k \in Tokens :
       /\ IsBest(i, Claimable(t))
       /\ Fresh(k) /\ \A l \in Tokens : Fresh(l) => k <= l
       /\ rows' = [rows EXCEPT ![i] = [@ EXCEPT !.status = "running",
                                                !.token = k, !.age = 0]]
       /\ thread' = [thread EXCEPT ![t] = [IdleThread EXCEPT !.pc = "fetch",
                                                             !.token = k]]
  /\ UNCHANGED <<asking, faults, owed>>

Begin(t) ==
  /\ thread[t].pc = "fetch"
  /\ \E i \in Ids :
       /\ rows[i].token = thread[t].token
       /\ thread' = [thread EXCEPT ![t] = [@ EXCEPT !.pc = "run", !.job = i,
                                                    !.task = rows[i].work]]
       /\ owed' = owed \ {rows[i].work}
  /\ UNCHANGED <<rows, asking, faults>>

\* No row carries the token any more: claim_one returns None.
ClaimLost(t) ==
  /\ thread[t].pc = "fetch"
  /\ \A i \in Ids : rows[i].token # thread[t].token
  /\ thread' = [thread EXCEPT ![t] = IdleThread]
  /\ UNCHANGED <<rows, asking, faults, owed>>

\* The handler returns, or raises an error that is not a database lock.
HandlerEnds(t) ==
  /\ thread[t].pc = "run"
  /\ \E next \in {"complete", "fail"} :
       thread' = [thread EXCEPT ![t] = [@ EXCEPT !.pc = next, !.timer = 0]]
  /\ UNCHANGED <<rows, asking, faults, owed>>

HandlerLocked(t) ==
  /\ thread[t].pc = "run"
  /\ faults > 0
  /\ faults' = faults - 1
  /\ thread' = [thread EXCEPT ![t] = [@ EXCEPT !.pc = "requeue", !.timer = 0]]
  /\ UNCHANGED <<rows, asking, owed>>

\* complete: only a row that is still running becomes done.
Complete(t) ==
  /\ thread[t].pc = "complete"
  /\ rows' = IF rows[thread[t].job].status = "running"
               THEN [rows EXCEPT ![thread[t].job] =
                       [@ EXCEPT !.status = "done", !.token = NoToken]]
               ELSE rows
  /\ thread' = [thread EXCEPT ![t] = IdleThread]
  /\ UNCHANGED <<asking, faults, owed>>

\* complete's retries run out; the except branch settles the row instead.
CompleteFails(t) ==
  /\ thread[t].pc = "complete"
  /\ faults > 0
  /\ faults' = faults - 1
  /\ \E next \in {"requeue", "fail"} : thread' = [thread EXCEPT ![t].pc = next]
  /\ UNCHANGED <<rows, asking, owed>>

\* Mutant of Fail: the requeue flag is ignored.
FailNoRequeue(t) ==
  /\ thread[t].pc \in {"fail", "requeue"}
  /\ rows' = [rows EXCEPT ![thread[t].job] = [@ EXCEPT !.status = "failed",
                                                     !.token = NoToken]]
  /\ owed' = IF thread[t].pc = "requeue" THEN owed \cup {thread[t].task} ELSE owed
  /\ thread' = [thread EXCEPT ![t] = IdleThread]
  /\ UNCHANGED <<asking, faults>>

\* fail: written by id, whatever the row's status is.
Fail(t) ==
  /\ thread[t].pc \in {"fail", "requeue"}
  /\ LET i == thread[t].job
         requeue == thread[t].pc = "requeue"
     IN /\ rows' = IF rows[i].status = "absent" THEN rows
                   ELSE [rows EXCEPT ![i] =
                           [@ EXCEPT !.status = IF requeue THEN "queued" ELSE "failed",
                                     !.token = NoToken]]
        /\ owed' = IF requeue THEN owed \cup {thread[t].task} ELSE owed
  /\ thread' = [thread EXCEPT ![t] = IdleThread]
  /\ UNCHANGED <<asking, faults>>

\* Mutant of Renew: the heartbeat wakes up but does not move started_at.
RenewNothing(t) ==
  /\ t \in Beats
  /\ thread[t].pc = "run"
  /\ thread[t].timer >= HbInterval
  /\ thread' = [thread EXCEPT ![t].timer = 0]
  /\ UNCHANGED <<rows, asking, faults, owed>>

\* The heartbeat renews a row that is still running, by id.
Renew(t) ==
  /\ t \in Beats
  /\ thread[t].pc = "run"
  /\ thread[t].timer >= HbInterval
  /\ rows' = IF rows[thread[t].job].status = "running"
               THEN [rows EXCEPT ![thread[t].job].age = 0]
               ELSE rows
  /\ thread' = [thread EXCEPT ![t].timer = 0]
  /\ UNCHANGED <<asking, faults, owed>>

-------------------------------------------------------------------------------
(***************************************************************************)
(* Failures.  Nothing is written when a thread or a process goes away.     *)
(***************************************************************************)
CutShort(T) ==
  {thread[t].task : t \in {u \in T : /\ thread[u].pc \in Executing
                                     /\ rows[thread[u].job].status # "cancelled"}}

\* An error in claim_one or in fail leaves _worker_loop: the thread is gone
\* until the process restarts.
Die(t) ==
  /\ thread[t].pc \in {"idle", "fetch", "requeue", "fail"}
  /\ faults > 0
  /\ faults' = faults - 1
  /\ owed' = owed \cup CutShort({t})
  /\ thread' = [thread EXCEPT ![t] = [IdleThread EXCEPT !.pc = "dead"]]
  /\ UNCHANGED <<rows, asking>>

\* A process is killed and its service restarts it.
Crash(P) ==
  /\ faults > 0
  /\ faults' = faults - 1
  /\ owed' = owed \cup CutShort(P)
  /\ thread' = [t \in Threads |-> IF t \in P THEN IdleThread ELSE thread[t]]
  /\ UNCHANGED <<rows, asking>>

-------------------------------------------------------------------------------
(***************************************************************************)
(* The sweeper, the administrator and time.                                *)
(***************************************************************************)
\* Mutant of Stale: a lease never ends.
NeverStale(i) == FALSE

Stale(i) == rows[i].status = "running" /\ rows[i].age > Lease

\* Mutant of Sweep: the status is left in place.
SweepKeepsStatus ==
  /\ \E i \in Ids : Stale(i)
  /\ rows' = [i \in Ids |->
                IF Stale(i) THEN [rows[i] EXCEPT !.token = NoToken, !.age = 0]
                            ELSE rows[i]]
  /\ UNCHANGED <<thread, asking, faults, owed>>

Sweep ==
  /\ \E i \in Ids : Stale(i)
  /\ rows' = [i \in Ids |->
                IF Stale(i)
                  THEN [rows[i] EXCEPT !.status = "queued", !.token = NoToken,
                                       !.age = 0]
                  ELSE rows[i]]
  /\ UNCHANGED <<thread, asking, faults, owed>>

Cancel(w) ==
  /\ \E i \in Ids : rows[i].work = w /\ rows[i].status \in Live
  /\ rows' = [i \in Ids |->
                IF rows[i].work = w /\ rows[i].status \in Live
                  THEN [rows[i] EXCEPT !.status = "cancelled", !.token = NoToken]
                  ELSE rows[i]]
  /\ owed' = owed \ {w}
  /\ UNCHANGED <<thread, asking, faults>>

Delete(D) ==
  /\ rows' = [i \in Ids |-> IF i \in D THEN NoRow ELSE rows[i]]
  /\ owed' = owed \ {rows[i].work : i \in {j \in D : rows[j].status \in Live}}
  /\ UNCHANGED <<thread, asking, faults>>

\* Mutant of Purge: running rows are always included.
PurgeRunningToo(S, K) ==
  LET D == {i \in Ids : rows[i].status \in S \cup {"running"} /\ rows[i].work \in K}
  IN D # {} /\ Delete(D)

\* POST /purge: the rows with a status in S, of one kind or of every kind.
Purge(S, K) ==
  LET D == {i \in Ids : rows[i].status \in S /\ rows[i].work \in K}
  IN D # {} /\ Delete(D)

\* The daily retention tick: the done rows older than the cutoff, whichever
\* those are.
PurgeDone ==
  /\ Retention
  /\ \E D \in SUBSET {i \in Ids : rows[i].status = "done"} : D # {} /\ Delete(D)

\* A live thread's heartbeat and its settling write are never later than the
\* bounds; claim_one's two statements and a dispatch take no time at all.
Punctual(t) ==
  /\ thread[t].pc # "fetch"
  /\ thread[t].pc = "run" /\ t \in Beats => thread[t].timer < RenewBy
  /\ thread[t].pc \in Settling => thread[t].timer < SettleBound

Ticking(t) == thread[t].pc \in Settling \/ (thread[t].pc = "run" /\ t \in Beats)

Tick ==
  /\ \A t \in Threads : Punctual(t)
  /\ rows' = [i \in Ids |->
                IF rows[i].status = "running" /\ rows[i].age <= Lease
                  THEN [rows[i] EXCEPT !.age = @ + 1]
                  ELSE rows[i]]
  /\ thread' = [t \in Threads |->
                  IF Ticking(t) THEN [thread[t] EXCEPT !.timer = @ + 1]
                                ELSE thread[t]]
  /\ UNCHANGED <<asking, faults, owed>>

-------------------------------------------------------------------------------
Step(t) ==
  \/ Claim(t) \/ Begin(t) \/ ClaimLost(t)
  \/ HandlerEnds(t) \/ HandlerLocked(t)
  \/ Complete(t) \/ CompleteFails(t) \/ Fail(t)
  \/ Renew(t) \/ Die(t)

Next ==
  \/ \E t \in Threads : Step(t)
  \/ \E c \in Clients, r \in Requests : Coalesce(c, r) \/ Decide(c, r)
  \/ \E c \in Clients : Insert(c)
  \/ \E P \in Processes : Crash(P)
  \/ \E w \in Cancellable : Cancel(w)
  \/ \E S \in PurgeSets, K \in {Works} \cup {{w} : w \in Works} : Purge(S, K)
  \/ PurgeDone
  \/ Sweep
  \/ Tick

Spec == Init /\ [][Next]_vars

(***************************************************************************)
(* Threads keep running, handlers return, heartbeats, the sweeper and time *)
(* go on.  Nothing is asked of clients, of the administrator or of faults. *)
(***************************************************************************)
Fairness ==
  /\ \A t \in Threads :
       /\ WF_vars(Claim(t)) /\ WF_vars(Begin(t)) /\ WF_vars(ClaimLost(t))
       /\ WF_vars(HandlerEnds(t)) /\ WF_vars(Complete(t)) /\ WF_vars(Fail(t))
       /\ WF_vars(Renew(t))
  /\ WF_vars(Sweep)
  /\ WF_vars(Tick)

FairSpec == Spec /\ Fairness

-------------------------------------------------------------------------------
(***************************************************************************)
(* Properties.                                                             *)
(***************************************************************************)
Owns(t, i) == rows[i].status = "running" /\ rows[i].token = thread[t].token

\* A thread that works on a job still owns the job's row: the sweeper never
\* takes a job away from a live thread, and no purged row's id comes back
\* under a thread that would then settle somebody else's job.  Only a
\* cancellation (which clears the token) parts them.
LeaseOwnership ==
  \A t \in Threads : thread[t].pc \in Executing =>
    LET i == thread[t].job
    IN /\ Owns(t, i) \/ rows[i].status = "cancelled"
       /\ rows[i].work = thread[t].task

\* No two threads work on one job at the same time: renew_lease's comment
\* tells what happens otherwise.
ExclusiveExecution ==
  \A t, u \in Threads :
    /\ t # u
    /\ thread[t].pc \in Executing
    /\ thread[u].pc \in Executing
    => thread[t].job # thread[u].job

\* A request accepted by an enqueue helper, or whose run was cut short by a
\* crash, a dead thread or a lock error, always has a row that will still be
\* run from the start: queued, or running with nobody working on it.
NoLostRequest ==
  \A w \in owed : \E i \in Ids :
    /\ rows[i].work = w
    /\ \/ rows[i].status = "queued"
       \/ /\ rows[i].status = "running"
          /\ \A t \in Threads : thread[t].pc \in Executing => ~Owns(t, i)

\* What makes LeaseOwnership inductive.  Claim tokens are never shared; a row
\* that is being fetched was claimed just now; and a live thread's row is no
\* older than its last renewal allows, so the sweeper's cutoff misses it.
TokensUnique ==
  /\ \A i, j \in Ids : i # j /\ rows[i].token = rows[j].token
                       => rows[i].token = NoToken
  /\ \A t, u \in Threads : t # u /\ thread[t].token = thread[u].token
                           => thread[t].token = NoToken

LeaseFresh ==
  \A t \in Threads :
    /\ thread[t].pc = "fetch" =>
         /\ thread[t].timer = 0
         /\ \A i \in Ids : Owns(t, i) => rows[i].age = 0
    /\ thread[t].pc = "run" =>
         /\ thread[t].timer <= RenewBy
         /\ Owns(t, thread[t].job) => rows[thread[t].job].age <= thread[t].timer
    /\ thread[t].pc \in Settling =>
         /\ thread[t].timer <= SettleBound
         /\ Owns(t, thread[t].job) =>
              rows[thread[t].job].age <= RenewBy + thread[t].timer

LeaseInv ==
  /\ TypeOK
  /\ TokensUnique
  /\ LeaseFresh
  /\ LeaseOwnership
  /\ ExclusiveExecution

\* A running row becomes done or failed only by the settling write of the
\* thread that claimed it, and goes back to the queue only by that thread or
\* when no thread works on it.
OwnerSettles ==
  [][\A i \in Ids : rows[i].status = "running" =>
       /\ rows'[i].status \in {"done", "failed"} =>
            \E t \in Threads : /\ Owns(t, i)
                               /\ thread[t].pc \in Settling
                               /\ thread'[t].pc = "idle"
       /\ rows'[i].status = "queued" =>
            \A t \in Threads : thread[t].pc \in Executing /\ thread[t].job = i =>
              thread[t].pc = "requeue" /\ thread'[t].pc = "idle"]_vars

\* The queue keeps the promise of LeasedJobs: a job's phase is read off its
\* status, and its holder is the thread that is fetching or executing it.
Phase(i) == CASE rows[i].status = "absent"  -> "absent"
              [] rows[i].status = "queued"  -> "waiting"
              [] rows[i].status = "running" -> "held"
              [] OTHER                      -> "settled"

Holders(i) ==
  {t \in Threads : \/ thread[t].pc = "fetch" /\ Owns(t, i)
                   \/ thread[t].pc \in Executing /\ thread[t].job = i}

Holder(i) == IF Holders(i) = {} THEN NoToken
             ELSE CHOOSE t \in Threads : t \in Holders(i)

Promise == INSTANCE LeasedJobs WITH
  Jobs    <- Ids,
  Workers <- Threads,
  Nobody  <- NoToken,
  phase   <- [i \in Ids |-> Phase(i)],
  holder  <- [i \in Ids |-> Holder(i)]

KeepsPromise == Promise!Spec

\* Every request that is owed a run gets one begun, in spite of crashes.
OwedIsServed == \A w \in Works : w \in owed ~> w \notin owed

\* Every live job leaves the queue for good or fails: no row stays queued or
\* running for ever.
JobsSettle == \A i \in Ids : rows[i].status \in Live ~> rows[i].status \notin Live

=============================================================================
