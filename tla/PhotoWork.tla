------------------------------- MODULE PhotoWork -------------------------------
(***************************************************************************)
(* The `photo_work' table: one row per photo, with a JSON map of stages,   *)
(* drained by pools of threads that each serve one stage.                  *)
(*                                                                         *)
(* Rows are read and written through ORM sessions.  A session caches the   *)
(* row it loaded until one of its own commits expires it, changes it in    *)
(* memory, and writes the whole map back with its next commit.  A thread   *)
(* claims a row by a token, but nothing else looks at tokens: requests and *)
(* settling writes go by photo id.  There is no heartbeat.                 *)
(*                                                                         *)
(* Time is discrete: `age' counts the ticks since a row was claimed.       *)
(***************************************************************************)
EXTENDS Integers, FiniteSets

CONSTANTS
  Photos,       \* photo ids
  Stages,       \* STAGE_ORDER
  HandsOff,     \* HandsOff[s]: the stages s's handler enqueues for its photo
  Silent,       \* the stages whose handler may succeed without a commit
  Workers,      \* threads of the stage pools, all of one process
  StageOf,      \* StageOf[w]: the stage of w's pool
  Clients,      \* sessions that enqueue: API requests, bulk jobs, scans
  Prios,        \* the priorities of their requests
  Tokens,       \* numbers standing for the claim UUIDs
  Lease,        \* worker.job_lease_seconds, in ticks
  MaxFaults,    \* bound: crashes, failed writes and outlasted leases in a behaviour
  MaxRequests   \* bound: enqueue_stage calls of clients in a behaviour

NoToken == 0
NoPhoto == 0
NoStage == "none"

ASSUME PhotoWorkAssumption ==
  /\ Photos \subseteq Nat \ {NoPhoto}
  /\ NoStage \notin Stages
  /\ HandsOff \in [Stages -> SUBSET Stages]
  /\ Silent \subseteq Stages
  /\ StageOf \in [Workers -> Stages]
  /\ Prios \subseteq Nat
  /\ Tokens \subseteq Nat \ {NoToken}
  /\ Lease \in Nat /\ MaxFaults \in Nat /\ MaxRequests \in Nat

-------------------------------------------------------------------------------
VARIABLES
  rows,      \* the photo_work table
  photos,    \* the ids in the photos table
  worker,    \* each thread's local state, its session's cached row included
  batch,     \* batch[c][p]: what c's session holds of p's row, not yet committed
  faults,    \* how many more faults may happen
  requests,  \* how many more requests clients may make
  torn,      \* history: photos whose row was ever written by overlapping sessions
  overrun    \* history: photos a thread was at for longer than its lease

vars == <<rows, photos, worker, batch, faults, requests, torn, overrun>>

StageMap  == [Stages -> {"none", "pending", "ok", "failed"}]
NoStages  == [s \in Stages |-> "none"]
NoRow     == [stages |-> NoStages, prio |-> 0, token |-> NoToken, age |-> 0]
Row       == [stages : StageMap, prio : Prios \cup {0},
              token : Tokens \cup {NoToken}, age : 0..(Lease + 1)]

Present(p)    == rows[p].stages # NoStages
Pending(p, s) == rows[p].stages[s] = "pending"

\* Between the claim and the write that ends it.
Running == {"run", "handoff"}
Writing == {"ok", "failed"}
Holding == Running \cup Writing \cup {"decide", "release", "finish"}

IdleWorker == [pc |-> "idle", photo |-> NoPhoto, token |-> NoToken,
               seen |-> NoStages, cached |-> FALSE]

WorkerState == [pc : Holding \cup {"idle", "fetch"}, photo : Photos \cup {NoPhoto},
                token : Tokens \cup {NoToken}, seen : StageMap, cached : BOOLEAN]

\* A batch entry: the row as it was read, the stage made pending on it, if any,
\* and the priority asked for.
NoEntry == [was |-> NoStages, prio |-> 0, stage |-> NoStage, raise |-> 0]
Entry   == [was : StageMap, prio : Prios \cup {0}, stage : Stages \cup {NoStage},
            raise : Prios \cup {0}]

TypeOK ==
  /\ rows \in [Photos -> Row]
  /\ \A p \in Photos : ~Present(p) => rows[p] = NoRow
  /\ photos \subseteq Photos
  /\ \A p \in Photos \ photos : ~Present(p)
  /\ worker \in [Workers -> WorkerState]
  /\ \A w \in Workers :
       /\ worker[w].pc = "idle" => worker[w] = IdleWorker
       /\ worker[w].pc \in Holding => worker[w].photo \in Photos
  /\ batch \in [Clients -> [Photos -> Entry]]
  /\ faults \in 0..MaxFaults /\ requests \in 0..MaxRequests
  /\ torn \subseteq Photos /\ overrun \subseteq Photos

Init ==
  /\ rows = [p \in Photos |-> NoRow]
  /\ photos = Photos
  /\ worker = [w \in Workers |-> IdleWorker]
  /\ batch = [c \in Clients |-> [p \in Photos |-> NoEntry]]
  /\ faults = MaxFaults /\ requests = MaxRequests
  /\ torn = {} /\ overrun = {}

-------------------------------------------------------------------------------
(***************************************************************************)
(* Clients.  enqueue_stage reads the row and changes the session's copy;   *)
(* the caller commits, after one call or after a batch of them.            *)
(***************************************************************************)
Batched(c) == {p \in Photos : batch[c][p] # NoEntry}

\* A pending stage is left as it is and the call answers False, but the row's
\* priority may still rise.
EnqueueStage(c, p, s, prio) ==
  /\ requests > 0
  /\ p \in photos \ Batched(c)
  /\ Pending(p, s) => prio > rows[p].prio
  /\ batch' = [batch EXCEPT ![c][p] =
                 [was |-> rows[p].stages, prio |-> rows[p].prio, raise |-> prio,
                  stage |-> IF Pending(p, s) THEN NoStage ELSE s]]
  /\ requests' = requests - 1
  /\ UNCHANGED <<rows, photos, worker, faults, torn, overrun>>

\* An INSERT needs the photo and no row; an UPDATE needs the row.
Writable(c, p) == IF batch[c][p].was = NoStages THEN p \in photos /\ ~Present(p)
                                                ELSE Present(p)

\* Only changed columns are written, each with the value of the session's copy.
Merged(c, p) ==
  LET e == batch[c][p]
  IN [rows[p] EXCEPT !.stages = IF e.stage = NoStage THEN @
                                ELSE [e.was EXCEPT ![e.stage] = "pending"],
                     !.prio = IF e.raise > e.prio THEN e.raise ELSE @]

\* The row changed since it was read, or a thread holds it.
Overlapping(c) ==
  {p \in Batched(c) : /\ batch[c][p].stage # NoStage
                      /\ \/ rows[p].stages # batch[c][p].was
                         \/ rows[p].token # NoToken}

Commit(c) ==
  /\ Batched(c) # {}
  /\ \A p \in Batched(c) : Writable(c, p)
  /\ rows' = [p \in Photos |-> IF p \in Batched(c) THEN Merged(c, p) ELSE rows[p]]
  /\ torn' = torn \cup Overlapping(c)
  /\ batch' = [batch EXCEPT ![c] = [p \in Photos |-> NoEntry]]
  /\ UNCHANGED <<photos, worker, faults, requests, overrun>>

\* One row that cannot be written fails the commit, and the whole batch.
CommitFails(c) ==
  /\ \E p \in Batched(c) : ~Writable(c, p)
  /\ batch' = [batch EXCEPT ![c] = [p \in Photos |-> NoEntry]]
  /\ UNCHANGED <<rows, photos, worker, faults, requests, torn, overrun>>

\* Deleting a photo deletes its row (ON DELETE CASCADE).
DeletePhoto(p) ==
  /\ p \in photos
  /\ photos' = photos \ {p}
  /\ rows' = [rows EXCEPT ![p] = NoRow]
  /\ UNCHANGED <<worker, batch, faults, requests, torn, overrun>>

-------------------------------------------------------------------------------
(***************************************************************************)
(* A pool thread: claim_one_for_stage's UPDATE and its SELECT by token,    *)
(* the handler, and _process_single_stage's writes.                        *)
(***************************************************************************)
Fresh(k) ==
  /\ \A p \in Photos : rows[p].token # k
  /\ \A w \in Workers : worker[w].token # k

Claimable(w) ==
  {p \in Photos : rows[p].token = NoToken /\ Pending(p, StageOf[w])}

IsBest(p, S) ==
  /\ p \in S
  /\ \A q \in S \ {p} : \/ rows[p].prio > rows[q].prio
                        \/ (rows[p].prio = rows[q].prio /\ p < q)

Claim(w) ==
  /\ worker[w].pc = "idle"
  /\ \E p \in Photos, k \in Tokens :
       /\ IsBest(p, Claimable(w))
       /\ Fresh(k) /\ \A l \in Tokens : Fresh(l) => k <= l
       /\ rows' = [rows EXCEPT ![p] = [@ EXCEPT !.token = k, !.age = 0]]
       /\ worker' = [worker EXCEPT ![w] = [IdleWorker EXCEPT !.pc = "fetch",
                                                             !.token = k]]
  /\ UNCHANGED <<photos, batch, faults, requests, torn, overrun>>

\* The SELECT caches the row.  A stage that is no longer pending is given back.
Fetch(w) ==
  /\ worker[w].pc = "fetch"
  /\ \E p \in Photos :
       /\ rows[p].token = worker[w].token
       /\ worker' = [worker EXCEPT ![w] =
                       [@ EXCEPT !.pc = IF Pending(p, StageOf[w]) THEN "run"
                                                                  ELSE "release",
                                 !.photo = p, !.seen = rows[p].stages,
                                 !.cached = TRUE]]
  /\ UNCHANGED <<rows, photos, batch, faults, requests, torn, overrun>>

FetchNothing(w) ==
  /\ worker[w].pc = "fetch"
  /\ \A p \in Photos : rows[p].token # worker[w].token
  /\ worker' = [worker EXCEPT ![w] = IdleWorker]
  /\ UNCHANGED <<rows, photos, batch, faults, requests, torn, overrun>>

\* What w's session reads of its row: its copy, or the table's if w's last
\* commit expired it.
Loaded(w) == IF worker[w].cached THEN worker[w].seen
                                 ELSE rows[worker[w].photo].stages

RowGone(w) == ~Present(worker[w].photo)

\* The handler commits something of its own.
HandlerCommits(w) ==
  /\ worker[w].pc = "run"
  /\ worker[w].cached
  /\ worker' = [worker EXCEPT ![w].cached = FALSE]
  /\ UNCHANGED <<rows, photos, batch, faults, requests, torn, overrun>>

\* The handler enqueues a later stage of its own photo, and commits.
HandOff(w, s) ==
  /\ worker[w].pc = "run"
  /\ s \in HandsOff[StageOf[w]]
  /\ worker[w].cached \/ ~RowGone(w)
  /\ Loaded(w)[s] # "pending"
  /\ worker' = [worker EXCEPT ![w] =
                  [@ EXCEPT !.pc = "handoff", !.cached = TRUE,
                            !.seen = [Loaded(w) EXCEPT ![s] = "pending"]]]
  /\ UNCHANGED <<rows, photos, batch, faults, requests, torn, overrun>>

CommitHandOff(w) ==
  /\ worker[w].pc = "handoff"
  /\ ~RowGone(w)
  /\ rows' = [rows EXCEPT ![worker[w].photo].stages = worker[w].seen]
  /\ worker' = [worker EXCEPT ![w] = [@ EXCEPT !.pc = "run", !.cached = FALSE]]
  /\ UNCHANGED <<photos, batch, faults, requests, torn, overrun>>

\* The handler returns or raises, and _load_stages reads the row again, which
\* reaches the table only if the handler committed.
HandlerEnds(w) ==
  /\ worker[w].pc = "run"
  /\ worker[w].cached \/ ~RowGone(w)
  /\ \E result \in Writing :
       /\ worker[w].cached => result = "failed" \/ StageOf[w] \in Silent
       /\ worker' = [worker EXCEPT ![w] = [@ EXCEPT !.pc = result, !.cached = TRUE,
                                                    !.seen = Loaded(w)]]
  /\ UNCHANGED <<rows, photos, batch, faults, requests, torn, overrun>>

\* Mutant of Write: the changed map is never assigned to the row.
WriteNothing(w) ==
  /\ worker[w].pc \in Writing
  /\ ~RowGone(w)
  /\ worker' = [worker EXCEPT ![w] = [@ EXCEPT !.pc = "decide", !.cached = FALSE,
                                               !.seen = NoStages]]
  /\ UNCHANGED <<rows, photos, batch, faults, requests, torn, overrun>>

\* The stage's result is written back with the rest of the map, unless the
\* copy has it already: then there is nothing to UPDATE.
Write(w) ==
  /\ worker[w].pc \in Writing
  /\ LET result == [worker[w].seen EXCEPT ![StageOf[w]] = worker[w].pc]
     IN \/ result = worker[w].seen /\ UNCHANGED rows
        \/ /\ result # worker[w].seen
           /\ ~RowGone(w)
           /\ rows' = [rows EXCEPT ![worker[w].photo].stages = result]
  /\ worker' = [worker EXCEPT ![w] = [@ EXCEPT !.pc = "decide", !.cached = FALSE,
                                               !.seen = NoStages]]
  /\ UNCHANGED <<photos, batch, faults, requests, torn, overrun>>

\* Mutant of Decide: the row is finished whatever is left.
DecideFinish(w) ==
  /\ worker[w].pc = "decide"
  /\ ~RowGone(w)
  /\ worker' = [worker EXCEPT ![w].pc = "finish"]
  /\ UNCHANGED <<rows, photos, batch, faults, requests, torn, overrun>>

\* The row is read once more: is anything left to do?  A claim that is gone
\* already needs no UPDATE to be given up.
Decide(w) ==
  /\ worker[w].pc = "decide"
  /\ ~RowGone(w)
  /\ LET p == worker[w].photo
         left == \E s \in Stages : Pending(p, s)
     IN worker' = [worker EXCEPT ![w] =
          IF ~left THEN [@ EXCEPT !.pc = "finish"]
          ELSE IF rows[p].token # NoToken THEN [@ EXCEPT !.pc = "release"]
          ELSE IdleWorker]
  /\ UNCHANGED <<rows, photos, batch, faults, requests, torn, overrun>>

Unclaimed(p) == [rows[p] EXCEPT !.token = NoToken, !.age = 0]

Release(w) ==
  /\ worker[w].pc = "release"
  /\ rows' = [rows EXCEPT ![worker[w].photo] = Unclaimed(worker[w].photo)]
  /\ worker' = [worker EXCEPT ![w] = IdleWorker]
  /\ UNCHANGED <<photos, batch, faults, requests, torn, overrun>>

Finish(w) ==
  /\ worker[w].pc = "finish"
  /\ rows' = [rows EXCEPT ![worker[w].photo] = NoRow]
  /\ worker' = [worker EXCEPT ![w] = IdleWorker]
  /\ UNCHANGED <<photos, batch, faults, requests, torn, overrun>>

\* The thread's row is gone: loading or writing it raises, the loop goes on.
LosesRow(w) ==
  /\ worker[w].pc \in Holding \ {"release", "finish"}
  /\ RowGone(w)
  /\ worker' = [worker EXCEPT ![w] = IdleWorker]
  /\ UNCHANGED <<rows, photos, batch, faults, requests, torn, overrun>>

-------------------------------------------------------------------------------
(***************************************************************************)
(* Failures, the sweeper's tick, and time.                                 *)
(***************************************************************************)
\* A commit of the thread's session fails: the claim stays behind.
Abandon(w) ==
  /\ worker[w].pc # "idle"
  /\ faults > 0
  /\ faults' = faults - 1
  /\ worker' = [worker EXCEPT ![w] = IdleWorker]
  /\ UNCHANGED <<rows, photos, batch, requests, torn, overrun>>

\* The worker process is killed and restarted.
Crash ==
  /\ faults > 0
  /\ faults' = faults - 1
  /\ worker' = [w \in Workers |-> IdleWorker]
  /\ UNCHANGED <<rows, photos, batch, requests, torn, overrun>>

\* Mutants of Expired: a claim at the lease's end counts as expired; none ever does.
ExpiredAtLease(p) == rows[p].token # NoToken /\ rows[p].age >= Lease
ExpiredNever(p)   == FALSE

Expired(p) == rows[p].token # NoToken /\ rows[p].age > Lease

ReclaimStale ==
  /\ \E p \in Photos : Expired(p)
  /\ rows' = [p \in Photos |-> IF Expired(p) THEN Unclaimed(p) ELSE rows[p]]
  /\ UNCHANGED <<photos, worker, batch, faults, requests, torn, overrun>>

\* The claims whose lease ends at this tick with a thread still at them: no
\* heartbeat renews a claim, so any handler may outlast it.
Overdue ==
  {p \in Photos : /\ rows[p].token # NoToken /\ rows[p].age = Lease
                  /\ \E w \in Workers : worker[w].token = rows[p].token}

Tick ==
  /\ \E p \in Photos : rows[p].token # NoToken /\ rows[p].age <= Lease
  /\ rows' = [p \in Photos |->
                IF rows[p].token # NoToken /\ rows[p].age <= Lease
                  THEN [rows[p] EXCEPT !.age = @ + 1] ELSE rows[p]]
  /\ \/ Overdue = {} /\ faults' = faults
     \/ Overdue # {} /\ faults > 0 /\ faults' = faults - 1
  /\ overrun' = overrun \cup Overdue
  /\ UNCHANGED <<photos, worker, batch, requests, torn>>

-------------------------------------------------------------------------------
Step(w) ==
  \/ Claim(w) \/ Fetch(w) \/ FetchNothing(w)
  \/ HandlerCommits(w) \/ CommitHandOff(w) \/ HandlerEnds(w)
  \/ Write(w) \/ Decide(w) \/ Release(w) \/ Finish(w) \/ LosesRow(w)

Next ==
  \/ \E w \in Workers : Step(w) \/ Abandon(w) \/ \E s \in Stages : HandOff(w, s)
  \/ \E c \in Clients :
       \/ \E p \in Photos, s \in Stages, prio \in Prios : EnqueueStage(c, p, s, prio)
       \/ Commit(c) \/ CommitFails(c)
  \/ \E p \in Photos : DeletePhoto(p)
  \/ Crash
  \/ ReclaimStale
  \/ Tick

Spec == Init /\ [][Next]_vars

\* Threads, the sweeper's tick and time go on, and handlers return: strongly,
\* as a handler leaves "run" for each hand-off and makes only so many of them.
\* Nothing is asked of clients or of faults.
FairSpec ==
  /\ Spec
  /\ \A w \in Workers :
       /\ WF_vars(Claim(w)) /\ WF_vars(Fetch(w)) /\ WF_vars(FetchNothing(w))
       /\ WF_vars(CommitHandOff(w)) /\ SF_vars(HandlerEnds(w)) /\ WF_vars(Write(w))
       /\ WF_vars(Decide(w)) /\ WF_vars(Release(w)) /\ WF_vars(Finish(w))
       /\ WF_vars(LosesRow(w))
  /\ WF_vars(ReclaimStale)
  /\ WF_vars(Tick)

-------------------------------------------------------------------------------
(***************************************************************************)
(* Properties.                                                             *)
(***************************************************************************)
\* A thread that holds a photo owns the photo's row until it settles it,
\* whatever requests, deletions, crashes, the sweeper and other threads do: only
\* a handler that outlasts its lease loses its claim, since no heartbeat renews it.
ClaimHeld ==
  \A w \in Workers : worker[w].pc \in Holding =>
    LET p == worker[w].photo
    IN Present(p) => rows[p].token = worker[w].token \/ p \in overrun

Settled(p, s) ==
  \/ p \notin photos'
  \/ \E w \in Workers : /\ StageOf[w] = s /\ worker[w].photo = p
                        /\ worker[w].pc \in Writing
                        /\ worker'[w].pc = "decide"

\* A pending stage stays pending until a thread of its pool ran it: no stale
\* map written back and no finished row wipes it.  A stage a handler adds to
\* its own photo is such a stage, a crash between any two steps included.
PendingSurvives ==
  [][\A p \in Photos, s \in Stages :
       Pending(p, s) /\ ~Pending(p, s)' => Settled(p, s)]_vars

\* The same, but for photos two sessions wrote at a time: the overlap of a
\* request with a claim, or with another request, and a second claim taken when
\* a handler outlasts its lease, are the only ways a stage that was asked for
\* is forgotten.
OnlyOverlapsForget ==
  [][\A p \in Photos, s \in Stages :
       Pending(p, s) /\ ~Pending(p, s)' =>
         p \in torn' \/ p \in overrun' \/ Settled(p, s)]_vars

\* Every pending stage is settled, in spite of crashes and failed writes.  Two
\* threads out of step at a photo whose handler outlasted its lease may hand it
\* to and fro for ever, and keep the threads from every other photo.
PendingIsSettled ==
  \A p \in Photos, s \in Stages :
    Pending(p, s) ~> ~Pending(p, s) \/ \E q \in overrun \ {p} : Present(q)

\* No claim is held for ever: a claim left behind by a crash or by a failed
\* write ends when its lease does.
ClaimsEnd == \A p \in Photos : rows[p].token # NoToken ~> rows[p].token = NoToken

===============================================================================
