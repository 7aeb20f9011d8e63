---- MODULE JobQueueProofs ----
(***************************************************************************)
(* Proofs about JobQueue for every number of threads, clients, rows and    *)
(* tokens, and every setting of the timing parameters: types; leases, and  *)
(* what they are for under HeartbeatsCoverLease: no request is lost, only  *)
(* owners settle, and the queue implements LeasedJobs.                     *)
(***************************************************************************)
EXTENDS JobQueue, TLAPS

USE DEF Ids, Live, NoToken

-------------------------------------------------------------------------------
(***************************************************************************)
(* What the actions write into a row or a thread's state is of its type.   *)
(***************************************************************************)
Ages   == 0..(Lease + 1)
Claims == Tokens \cup {NoToken}
Pcs    == Executing \cup {"idle", "fetch", "dead"}

LEMMA Members ==
  /\ {"absent", "queued", "running", "done", "failed", "cancelled"} = Status
  /\ 0 \in Ages /\ NoToken \in Claims /\ Tokens \subseteq Claims /\ NoToken \notin Tokens
  /\ {"idle", "fetch", "run", "complete", "requeue", "fail", "dead"} = Pcs
  /\ 0 \in 0..MaxJobs /\ Ids \subseteq 0..MaxJobs
  BY TimingAssumption, BoundsAssumption
  DEF Status, Ages, Claims, Pcs, Executing, Settling

LEMMA RowWritten ==
  ASSUME NEW row \in Row
  PROVE  /\ \A s \in Status, k \in Claims :
              /\ [row EXCEPT !.status = s, !.token = k] \in Row
              /\ \A a \in Ages : [row EXCEPT !.status = s, !.token = k, !.age = a] \in Row
         /\ \A s \in Status, w \in Works, p \in Nat :
              [row EXCEPT !.status = s, !.work = w, !.prio = p] \in Row
         /\ \A a \in Ages : [row EXCEPT !.age = a] \in Row
         /\ \A p \in Nat : [row EXCEPT !.prio = p] \in Row
  BY DEF Row, Ages, Claims

LEMMA ThreadWritten ==
  ASSUME NEW th \in ThreadState
  PROVE  /\ \A q \in Pcs :
              /\ [th EXCEPT !.pc = q] \in ThreadState
              /\ \A i \in 0..MaxJobs, w \in Works :
                   [th EXCEPT !.pc = q, !.job = i, !.task = w] \in ThreadState
              /\ \A k \in Claims : [th EXCEPT !.pc = q, !.token = k] \in ThreadState
              /\ \A n \in Nat : [th EXCEPT !.pc = q, !.timer = n] \in ThreadState
         /\ \A n \in Nat : [th EXCEPT !.timer = n] \in ThreadState
  BY DEF ThreadState, Pcs, Claims

LEMMA NullRecords ==
  /\ NoRow \in Row /\ WellFormed(NoRow)
  /\ IdleThread \in ThreadState /\ Consistent(IdleThread)
<1>1. NoRow \in Row
  BY Members DEF NoRow, Row, Ages, Claims
<1>2. IdleThread \in ThreadState
  BY Members DEF IdleThread, ThreadState, Pcs, Claims
<1>3. QED
  BY <1>1, <1>2 DEF NoRow, WellFormed, IdleThread, Consistent, Executing, Settling

(***************************************************************************)
(* Type correctness, part by part: the table, the threads, the rest.       *)
(***************************************************************************)
RowsOK == rows \in [Ids -> Row] /\ \A i \in Ids : WellFormed(rows[i])

ThreadsOK ==
  /\ thread \in [Threads -> ThreadState]
  /\ \A t \in Threads : Consistent(thread[t])

RestOK ==
  /\ asking \in [Clients -> Requests \cup {PlainRequest(NoWork, 0)}]
  /\ faults \in 0..MaxFaults
  /\ owed \subseteq Works

LEMMA TypeParts == TypeOK <=> RowsOK /\ ThreadsOK /\ RestOK
  BY DEF TypeOK, RowsOK, ThreadsOK, RestOK

LEMMA TypeInit == Init => TypeOK
  BY TypeParts, NullRecords, BoundsAssumption
  DEF Init, RowsOK, ThreadsOK, RestOK, NoRow, IdleThread

LEMMA RequestTyped ==
  ASSUME NEW r \in Requests
  PROVE  r.work \in Works /\ r.prio \in Nat
  BY WorksAssumption DEF Request

\* Facts about the table that every step proof uses.
LEMMA RowFacts ==
  ASSUME TypeOK, NEW i \in Ids
  PROVE  /\ rows[i] \in Row /\ WellFormed(rows[i])
         /\ rows[i].status \in Status
         /\ rows[i].work \in Works <=> rows[i].status # "absent"
  BY WorksAssumption DEF TypeOK, WellFormed, Row

LEMMA ThreadFacts ==
  ASSUME TypeOK, NEW t \in Threads
  PROVE  /\ thread[t] \in ThreadState /\ Consistent(thread[t])
         /\ thread[t].timer \in Nat
         /\ thread[t].token \in Claims
         /\ thread[t].pc \in Pcs
  BY DEF TypeOK, ThreadState, Pcs, Claims

-------------------------------------------------------------------------------
(***************************************************************************)
(* Type correctness is preserved, one lemma per action.                    *)
(***************************************************************************)
LEMMA CoalesceType ==
  ASSUME TypeOK, NEW c \in Clients, NEW r \in Requests, Coalesce(c, r)
  PROVE  TypeOK'
<1>1. RowsOK /\ ThreadsOK /\ RestOK
  BY TypeParts
<1>2. PICK i \in Ids : Coalesce(c, r)!2!(i)
  BY DEF Coalesce
<1>3. r.work \in Works /\ r.prio \in Nat
  BY RequestTyped
<1>4. [rows[i] EXCEPT !.prio = r.prio] \in Row
  BY <1>3, Members, RowFacts, RowWritten
<1>5. WellFormed([rows[i] EXCEPT !.prio = r.prio])
  BY RowFacts DEF WellFormed, Row
<1>6. RowsOK'
  BY <1>1, <1>2, <1>4, <1>5 DEF RowsOK
<1>7. ThreadsOK' /\ RestOK'
  BY <1>1, <1>2, <1>3 DEF Coalesce, ThreadsOK, RestOK
<1>8. QED
  BY <1>6, <1>7 DEF TypeOK, RowsOK, ThreadsOK, RestOK

LEMMA DecideType ==
  ASSUME TypeOK, NEW c \in Clients, NEW r \in Requests, Decide(c, r)
  PROVE  TypeOK'
  BY DEF TypeOK, Decide

LEMMA InsertType ==
  ASSUME TypeOK, NEW c \in Clients, Insert(c)
  PROVE  TypeOK'
<1>1. RowsOK /\ ThreadsOK /\ RestOK
  BY TypeParts
<1>2. asking[c].work \in Works /\ asking[c].prio \in Nat
  BY <1>1, RequestTyped DEF Insert, IsAsking, RestOK, PlainRequest
<1>3. PICK i \in Ids : rows' = [rows EXCEPT ![i] = [NoRow EXCEPT !.status = "queued",
                                                    !.work = asking[c].work,
                                                    !.prio = asking[c].prio]]
  BY DEF Insert
<1> DEFINE new == [NoRow EXCEPT !.status = "queued", !.work = asking[c].work,
                                !.prio = asking[c].prio]
<1>4. new \in Row
  BY <1>2, Members, NullRecords, RowWritten
<1>5. WellFormed(new)
  BY <1>2, WorksAssumption DEF WellFormed, NoRow
<1>6. RowsOK'
  BY <1>1, <1>3, <1>4, <1>5 DEF RowsOK
<1>7. ThreadsOK' /\ RestOK'
  BY <1>1, <1>2 DEF Insert, ThreadsOK, RestOK
<1>8. QED
  BY <1>6, <1>7 DEF TypeOK, RowsOK, ThreadsOK, RestOK

LEMMA ClaimType ==
  ASSUME TypeOK, NEW t \in Threads, Claim(t)
  PROVE  TypeOK'
<1>1. RowsOK /\ ThreadsOK /\ RestOK
  BY TypeParts
<1>2. PICK i \in Ids, k \in Tokens :
        /\ IsBest(i, Claimable(t))
        /\ rows' = [rows EXCEPT ![i] = [@ EXCEPT !.status = "running",
                                                 !.token = k, !.age = 0]]
        /\ thread' = [thread EXCEPT ![t] = [IdleThread EXCEPT !.pc = "fetch",
                                                              !.token = k]]
  BY DEF Claim
<1> DEFINE new == [rows[i] EXCEPT !.status = "running", !.token = k, !.age = 0]
           th  == [IdleThread EXCEPT !.pc = "fetch", !.token = k]
<1>3. new \in Row
  BY Members, RowFacts, RowWritten
<1>4. WellFormed(new)
  BY <1>2, RowFacts, Members DEF WellFormed, Row, IsBest, Claimable
<1>5. RowsOK'
  BY <1>1, <1>2, <1>3, <1>4 DEF RowsOK
<1>6. th \in ThreadState
  BY Members, NullRecords, ThreadWritten
<1>7. Consistent(th)
  BY Members DEF Consistent, IdleThread, Executing, Settling
<1>8. ThreadsOK' /\ RestOK'
  BY <1>1, <1>2, <1>6, <1>7 DEF Claim, ThreadsOK, RestOK
<1>9. QED
  BY <1>5, <1>8 DEF TypeOK, RowsOK, ThreadsOK, RestOK

LEMMA BeginType ==
  ASSUME TypeOK, NEW t \in Threads, Begin(t)
  PROVE  TypeOK'
<1>1. RowsOK /\ ThreadsOK /\ RestOK
  BY TypeParts
<1>2. PICK i \in Ids : Begin(t)!2!(i)
  BY DEF Begin
<1> DEFINE th == [thread[t] EXCEPT !.pc = "run", !.job = i, !.task = rows[i].work]
<1>3. rows[i].work \in Works
  BY <1>2, RowFacts, ThreadFacts DEF Begin, WellFormed, Consistent
<1>4. th \in ThreadState
  BY <1>3, Members, ThreadFacts, ThreadWritten
<1>5. Consistent(th)
  BY <1>3, ThreadFacts DEF Begin, Consistent, ThreadState, Executing, Settling
<1>6. ThreadsOK' /\ RestOK'
  BY <1>1, <1>2, <1>4, <1>5 DEF Begin, ThreadsOK, RestOK
<1>7. RowsOK'
  BY <1>1 DEF Begin, RowsOK
<1>8. QED
  BY <1>6, <1>7 DEF TypeOK, RowsOK, ThreadsOK, RestOK

LEMMA ClaimLostType ==
  ASSUME TypeOK, NEW t \in Threads, ClaimLost(t)
  PROVE  TypeOK'
  BY NullRecords DEF TypeOK, ClaimLost

\* A thread's step that only moves it on, from one execution state to another.
LEMMA MoveOnType ==
  ASSUME TypeOK, NEW t \in Threads, thread[t].pc \in Executing,
         NEW q \in Executing, NEW n \in Nat,
         \/ thread' = [thread EXCEPT ![t] = [@ EXCEPT !.pc = q, !.timer = n]]
         \/ thread' = [thread EXCEPT ![t] = [@ EXCEPT !.pc = q]]
         \/ thread' = [thread EXCEPT ![t] = [@ EXCEPT !.timer = n]]
  PROVE  ThreadsOK'
<1>1. ThreadsOK
  BY TypeParts
<1>2. /\ [thread[t] EXCEPT !.pc = q, !.timer = n] \in ThreadState
      /\ [thread[t] EXCEPT !.pc = q] \in ThreadState
      /\ [thread[t] EXCEPT !.timer = n] \in ThreadState
  BY Members, ThreadFacts, ThreadWritten DEF Pcs
<1>3. /\ Consistent([thread[t] EXCEPT !.pc = q, !.timer = n])
      /\ Consistent([thread[t] EXCEPT !.pc = q])
      /\ Consistent([thread[t] EXCEPT !.timer = n])
  BY ThreadFacts DEF Consistent, ThreadState
<1>4. QED
  BY <1>1, <1>2, <1>3 DEF ThreadsOK

LEMMA HandlerType ==
  ASSUME TypeOK, NEW t \in Threads,
         HandlerEnds(t) \/ HandlerLocked(t) \/ CompleteFails(t)
  PROVE  TypeOK'
<1>1. RowsOK /\ ThreadsOK /\ RestOK
  BY TypeParts
<1>2. thread[t].pc \in Executing
  BY DEF HandlerEnds, HandlerLocked, CompleteFails, Executing, Settling
<1>3. \E q \in Executing, n \in Nat :
         \/ thread' = [thread EXCEPT ![t] = [@ EXCEPT !.pc = q, !.timer = n]]
         \/ thread' = [thread EXCEPT ![t] = [@ EXCEPT !.pc = q]]
  BY DEF HandlerEnds, HandlerLocked, CompleteFails, Executing, Settling
<1>4. ThreadsOK'
  BY <1>2, <1>3, MoveOnType
<1>5. RowsOK' /\ RestOK'
  BY <1>1, BoundsAssumption
  DEF HandlerEnds, HandlerLocked, CompleteFails, RowsOK, RestOK
<1>6. QED
  BY <1>4, <1>5 DEF TypeOK, RowsOK, ThreadsOK, RestOK

\* The rows that complete and fail write.
LEMMA ReleasedRow ==
  ASSUME TypeOK, NEW i \in Ids, rows[i].status # "absent",
         NEW s \in {"queued", "done", "failed", "cancelled"}
  PROVE  /\ [rows[i] EXCEPT !.status = s, !.token = NoToken] \in Row
         /\ WellFormed([rows[i] EXCEPT !.status = s, !.token = NoToken])
<1>1. [rows[i] EXCEPT !.status = s, !.token = NoToken] \in Row
  BY Members, RowFacts, RowWritten
<1>2. QED
  BY <1>1, RowFacts DEF WellFormed, Row

LEMMA CompleteType ==
  ASSUME TypeOK, NEW t \in Threads, Complete(t)
  PROVE  TypeOK'
<1>1. RowsOK /\ ThreadsOK /\ RestOK
  BY TypeParts
<1>2. thread[t].job \in Ids
  BY ThreadFacts DEF Complete, Consistent, Executing, Settling
<1>3. RowsOK'
  BY <1>1, <1>2, ReleasedRow DEF Complete, RowsOK
<1>4. ThreadsOK' /\ RestOK'
  BY <1>1, NullRecords DEF Complete, ThreadsOK, RestOK
<1>5. QED
  BY <1>3, <1>4 DEF TypeOK, RowsOK, ThreadsOK, RestOK

LEMMA FailType ==
  ASSUME TypeOK, NEW t \in Threads, Fail(t)
  PROVE  TypeOK'
<1>1. RowsOK /\ ThreadsOK /\ RestOK
  BY TypeParts
<1>2. thread[t].job \in Ids /\ thread[t].task \in Works
  BY ThreadFacts DEF Fail, Consistent, Executing, Settling
<1>3. RowsOK'
  BY <1>1, <1>2, ReleasedRow DEF Fail, RowsOK
<1>4. ThreadsOK' /\ RestOK'
  BY <1>1, <1>2, NullRecords DEF Fail, ThreadsOK, RestOK
<1>5. QED
  BY <1>3, <1>4 DEF TypeOK, RowsOK, ThreadsOK, RestOK

LEMMA RenewType ==
  ASSUME TypeOK, NEW t \in Threads, Renew(t)
  PROVE  TypeOK'
<1>1. RowsOK /\ ThreadsOK /\ RestOK
  BY TypeParts
<1>2. thread[t].job \in Ids /\ "run" \in Executing
  BY ThreadFacts DEF Renew, Consistent, Executing
<1> DEFINE i == thread[t].job
           new == [rows[i] EXCEPT !.age = 0]
<1>3. new \in Row
  BY <1>2, Members, RowFacts, RowWritten
<1>4. WellFormed(new)
  BY <1>2, RowFacts DEF WellFormed, Row
<1>5. RowsOK'
  BY <1>1, <1>2, <1>3, <1>4 DEF Renew, RowsOK
<1>6. ThreadsOK'
  BY <1>2, MoveOnType DEF Renew
<1>7. RestOK'
  BY <1>1 DEF Renew, RestOK
<1>8. QED
  BY <1>5, <1>6, <1>7 DEF TypeOK, RowsOK, ThreadsOK, RestOK

\* Only works are cut short.
LEMMA CutShortTyped ==
  ASSUME TypeOK, NEW T \in SUBSET Threads
  PROVE  CutShort(T) \subseteq Works
  BY ThreadFacts DEF CutShort, Consistent

LEMMA DieType ==
  ASSUME TypeOK, NEW t \in Threads, Die(t)
  PROVE  TypeOK'
<1>1. RowsOK /\ ThreadsOK /\ RestOK
  BY TypeParts
<1> DEFINE th == [IdleThread EXCEPT !.pc = "dead"]
<1>2. th \in ThreadState
  BY Members, NullRecords, ThreadWritten
<1>3. Consistent(th)
  BY DEF Consistent, IdleThread, Executing, Settling
<1>4. ThreadsOK' /\ RowsOK'
  BY <1>1, <1>2, <1>3 DEF Die, ThreadsOK, RowsOK
<1>5. RestOK'
  BY <1>1, CutShortTyped, BoundsAssumption DEF Die, RestOK
<1>6. QED
  BY <1>4, <1>5 DEF TypeOK, RowsOK, ThreadsOK, RestOK

LEMMA CrashType ==
  ASSUME TypeOK, NEW P \in Processes, Crash(P)
  PROVE  TypeOK'
<1>1. RowsOK /\ ThreadsOK /\ RestOK
  BY TypeParts
<1>2. ThreadsOK' /\ RowsOK'
  BY <1>1, NullRecords DEF Crash, ThreadsOK, RowsOK
<1>3. RestOK'
  BY <1>1, CutShortTyped, BoundsAssumption, ThreadsAssumption DEF Crash, RestOK
<1>4. QED
  BY <1>2, <1>3 DEF TypeOK, RowsOK, ThreadsOK, RestOK

LEMMA CancelType ==
  ASSUME TypeOK, NEW w \in Cancellable, Cancel(w)
  PROVE  TypeOK'
<1>1. RowsOK /\ ThreadsOK /\ RestOK
  BY TypeParts
<1>2. RowsOK'
  BY <1>1, ReleasedRow DEF Cancel, RowsOK
<1>3. ThreadsOK' /\ RestOK'
  BY <1>1 DEF Cancel, ThreadsOK, RestOK
<1>4. QED
  BY <1>2, <1>3 DEF TypeOK, RowsOK, ThreadsOK, RestOK

LEMMA DeleteType ==
  ASSUME TypeOK, NEW D, Delete(D)
  PROVE  TypeOK'
<1>1. RowsOK /\ ThreadsOK /\ RestOK
  BY TypeParts
<1>2. RowsOK'
  BY <1>1, NullRecords DEF Delete, RowsOK
<1>3. ThreadsOK' /\ RestOK'
  BY <1>1 DEF Delete, ThreadsOK, RestOK
<1>4. QED
  BY <1>2, <1>3 DEF TypeOK, RowsOK, ThreadsOK, RestOK

LEMMA SweepType ==
  ASSUME TypeOK, Sweep
  PROVE  TypeOK'
<1>1. RowsOK /\ ThreadsOK /\ RestOK
  BY TypeParts
<1> DEFINE new(i) == [rows[i] EXCEPT !.status = "queued", !.token = NoToken, !.age = 0]
<1>2. ASSUME NEW i \in Ids, Stale(i)
      PROVE  new(i) \in Row /\ WellFormed(new(i))
  <2>1. new(i) \in Row
    BY Members, RowFacts, RowWritten
  <2>2. QED
    BY <1>2, <2>1, RowFacts DEF WellFormed, Row, Stale
<1>3. RowsOK'
  BY <1>1, <1>2 DEF Sweep, RowsOK
<1>4. ThreadsOK' /\ RestOK'
  BY <1>1 DEF Sweep, ThreadsOK, RestOK
<1>5. QED
  BY <1>3, <1>4 DEF TypeOK, RowsOK, ThreadsOK, RestOK

LEMMA TickType ==
  ASSUME TypeOK, Tick
  PROVE  TypeOK'
<1>1. RowsOK /\ ThreadsOK /\ RestOK
  BY TypeParts
<1>2. ASSUME NEW i \in Ids, rows[i].age <= Lease
      PROVE  /\ [rows[i] EXCEPT !.age = @ + 1] \in Row
             /\ WellFormed([rows[i] EXCEPT !.age = @ + 1])
  <2>1. rows[i].age + 1 \in Ages
    BY <1>2, RowFacts, TimingAssumption DEF Row, Ages
  <2>2. [rows[i] EXCEPT !.age = @ + 1] \in Row
    BY <2>1, RowFacts, RowWritten
  <2>3. QED
    BY <2>2, RowFacts DEF WellFormed, Row
<1>3. RowsOK'
  BY <1>1, <1>2 DEF Tick, RowsOK
<1>4. ASSUME NEW t \in Threads
      PROVE  /\ [thread[t] EXCEPT !.timer = @ + 1] \in ThreadState
             /\ Consistent([thread[t] EXCEPT !.timer = @ + 1])
  <2>1. [thread[t] EXCEPT !.timer = @ + 1] \in ThreadState
    <3>1. thread[t].timer + 1 \in Nat
      BY ThreadFacts
    <3>2. QED
      BY <3>1, ThreadFacts, ThreadWritten
  <2>2. QED
    BY <2>1, ThreadFacts DEF Consistent, ThreadState
<1>5. ThreadsOK'
  BY <1>1, <1>4 DEF Tick, ThreadsOK
<1>6. RestOK'
  BY <1>1 DEF Tick, RestOK
<1>7. QED
  BY <1>3, <1>5, <1>6 DEF TypeOK, RowsOK, ThreadsOK, RestOK

LEMMA TypeStep == TypeOK /\ [Next]_vars => TypeOK'
<1> SUFFICES ASSUME TypeOK, [Next]_vars PROVE TypeOK'
  OBVIOUS
<1>1. CASE \E t \in Threads : Step(t)
  BY <1>1, ClaimType, BeginType, ClaimLostType, HandlerType, CompleteType,
     FailType, RenewType, DieType DEF Step
<1>2. CASE \E c \in Clients : \/ Insert(c)
                              \/ \E r \in Requests : Coalesce(c, r) \/ Decide(c, r)
  BY <1>2, InsertType, CoalesceType, DecideType
<1>3. CASE \/ \E S \in PurgeSets, K \in {Works} \cup {{w} : w \in Works} : Purge(S, K)
           \/ PurgeDone
  BY <1>3, DeleteType DEF Purge, PurgeDone
<1>4. CASE \/ \E P \in Processes : Crash(P)
           \/ \E w \in Cancellable : Cancel(w)
           \/ Sweep \/ Tick
  BY <1>4, CrashType, CancelType, SweepType, TickType
<1>5. CASE UNCHANGED vars
  BY <1>5 DEF vars, TypeOK
<1>6. QED
  BY <1>1, <1>2, <1>3, <1>4, <1>5 DEF Next

\* The table and the threads' states always have their types: in particular a
\* row has a claim token exactly while it is running, whatever crashed.
THEOREM TypeCorrect == Spec => []TypeOK
<1>1. Init => TypeOK
  BY TypeInit
<1>2. TypeOK /\ [Next]_vars => TypeOK'
  BY TypeStep
<1>3. QED
  BY <1>1, <1>2, PTL DEF Spec

-------------------------------------------------------------------------------
(***************************************************************************)
(* The leases of JobQueue are safe for every number of threads and every   *)
(* timing that satisfies HeartbeatsCoverLease: LeaseInv is inductive.      *)
(***************************************************************************)

(***************************************************************************)
(* Most actions only take something away: a thread lets go of its job, or  *)
(* a row keeps its claim, is cancelled, or is rewritten while no thread    *)
(* works on it.  Such a step preserves the invariant whatever it is.       *)
(***************************************************************************)
Dropped(t) ==
  /\ thread'[t].pc \in {"idle", "dead"}
  /\ thread'[t].token = NoToken

KeptClaim(i) ==
  /\ rows'[i].status = rows[i].status
  /\ rows'[i].token = rows[i].token
  /\ rows'[i].work = rows[i].work
  /\ rows'[i].age <= rows[i].age

Cancelled(i) ==
  /\ rows'[i].status = "cancelled"
  /\ rows'[i].token = NoToken
  /\ rows'[i].work = rows[i].work

Rewritten(i) ==
  /\ rows'[i].status # "running"
  /\ rows'[i].token = NoToken
  /\ \A t \in Threads : thread'[t].pc \in Executing => thread'[t].job # i

Weakens ==
  /\ \A t \in Threads : thread'[t] = thread[t] \/ Dropped(t)
  /\ \A i \in Ids : KeptClaim(i) \/ Cancelled(i) \/ Rewritten(i)

LEMMA PcsDiffer ==
  /\ {"idle", "dead", "fetch"} \cap Executing = {}
  /\ "run" \in Executing /\ "run" \notin Settling
  /\ Settling \subseteq Executing
  /\ "fetch" \notin Settling
  BY DEF Executing, Settling

LEMMA WeakensTokens ==
  ASSUME TypeOK, TokensUnique, Weakens
  PROVE  TokensUnique'
<1>1. \A i \in Ids : rows'[i].token \in {rows[i].token, NoToken}
  BY DEF Weakens, KeptClaim, Cancelled, Rewritten
<1>2. \A t \in Threads : thread'[t].token \in {thread[t].token, NoToken}
  BY DEF Weakens, Dropped
<1>3. QED
  BY <1>1, <1>2 DEF TokensUnique, NoToken

LEMMA WeakensOwnership ==
  ASSUME TypeOK, LeaseOwnership, ExclusiveExecution, Weakens
  PROVE  LeaseOwnership' /\ ExclusiveExecution'
<1>1. \A t \in Threads : thread'[t].pc \in Executing => thread'[t] = thread[t]
  BY PcsDiffer DEF Weakens, Dropped
<1>2. LeaseOwnership'
  <2> SUFFICES ASSUME NEW t \in Threads, thread'[t].pc \in Executing
               PROVE  /\ \/ rows'[thread'[t].job].status = "running"
                            /\ rows'[thread'[t].job].token = thread'[t].token
                         \/ rows'[thread'[t].job].status = "cancelled"
                      /\ rows'[thread'[t].job].work = thread'[t].task
    BY DEF LeaseOwnership, Owns
  <2>1. thread'[t] = thread[t] /\ thread[t].job \in Ids
    BY <1>1, ThreadFacts DEF Consistent
  <2>2. KeptClaim(thread[t].job) \/ Cancelled(thread[t].job)
    BY <2>1 DEF Weakens, Rewritten
  <2>3. /\ Owns(t, thread[t].job) \/ rows[thread[t].job].status = "cancelled"
        /\ rows[thread[t].job].work = thread[t].task
    BY <2>1 DEF LeaseOwnership
  <2>4. QED
    BY <2>1, <2>2, <2>3 DEF Owns, KeptClaim, Cancelled
<1>3. ExclusiveExecution'
  BY <1>1 DEF ExclusiveExecution
<1>4. QED
  BY <1>2, <1>3

LEMMA WeakensFresh ==
  ASSUME TypeOK, TypeOK', LeaseFresh, Weakens
  PROVE  LeaseFresh'
<1> SUFFICES ASSUME NEW t \in Threads
             PROVE  /\ thread'[t].pc = "fetch" =>
                         /\ thread'[t].timer = 0
                         /\ \A i \in Ids : Owns(t, i)' => rows'[i].age = 0
                    /\ thread'[t].pc = "run" =>
                         /\ thread'[t].timer <= RenewBy
                         /\ Owns(t, thread[t].job)' =>
                              rows'[thread'[t].job].age <= thread'[t].timer
                    /\ thread'[t].pc \in Settling =>
                         /\ thread'[t].timer <= SettleBound
                         /\ Owns(t, thread[t].job)' =>
                              rows'[thread'[t].job].age <= RenewBy + thread'[t].timer
  BY DEF LeaseFresh
<1>1. CASE Dropped(t)
  BY <1>1, PcsDiffer DEF Dropped
<1>2. CASE thread'[t] = thread[t]
  <2>1. \A i \in Ids : Owns(t, i)' => Owns(t, i) /\ rows'[i].age <= rows[i].age
    BY <1>2 DEF Weakens, Owns, KeptClaim, Cancelled, Rewritten
  <2>2. \A i \in Ids : rows[i].age \in Nat /\ rows'[i].age \in Nat
    BY TimingAssumption DEF TypeOK, Row
  <2>3. CASE thread[t].pc = "fetch"
    BY <1>2, <2>1, <2>2, <2>3, PcsDiffer DEF LeaseFresh
  <2>4. CASE thread[t].pc \in Executing
    <3>1. thread[t].job \in Ids /\ thread[t].timer \in Nat
      BY <2>4, ThreadFacts DEF Consistent
    <3>2. QED
      BY <1>2, <2>1, <2>2, <2>4, <3>1, PcsDiffer, TimingAssumption DEF LeaseFresh
  <2>5. QED
    BY <1>2, <2>3, <2>4, PcsDiffer
<1>3. QED
  BY <1>1, <1>2 DEF Weakens

LEMMA WeakensInv ==
  ASSUME LeaseInv, TypeOK', Weakens
  PROVE  LeaseInv'
  BY WeakensTokens, WeakensOwnership, WeakensFresh DEF LeaseInv

-------------------------------------------------------------------------------
(***************************************************************************)
(* The steps that weaken.                                                  *)
(***************************************************************************)
\* A row that is not touched keeps its claim.
LEMMA SameRow ==
  ASSUME TypeOK, NEW i \in Ids, rows'[i] = rows[i]
  PROVE  KeptClaim(i)
  BY RowFacts DEF KeptClaim, Row

\* Nobody works on a row that is neither running nor cancelled.
LEMMA NobodyThere ==
  ASSUME LeaseOwnership, NEW i \in Ids, rows[i].status \notin {"running", "cancelled"},
         NEW t \in Threads, thread[t].pc \in Executing
  PROVE  thread[t].job # i
  BY DEF LeaseOwnership, Owns

LEMMA CoalesceWeakens ==
  ASSUME TypeOK, NEW c \in Clients, NEW r \in Requests, Coalesce(c, r) \/ Decide(c, r)
  PROVE  Weakens
<1>1. thread' = thread
  BY DEF Coalesce, Decide
<1>2. ASSUME NEW i \in Ids PROVE KeptClaim(i)
  <2>1. rows'[i] = rows[i] \/ rows'[i] = [rows[i] EXCEPT !.prio = r.prio]
    BY DEF Coalesce, Decide, TypeOK
  <2>2. QED
    BY <2>1, SameRow, RowFacts DEF KeptClaim, Row
<1>3. QED
  BY <1>1, <1>2 DEF Weakens

LEMMA InsertWeakens ==
  ASSUME TypeOK, LeaseOwnership, NEW c \in Clients, Insert(c)
  PROVE  Weakens
<1>1. thread' = thread
  BY DEF Insert
<1>2. PICK n \in Ids : /\ IsNextId(n)
                       /\ rows' = [rows EXCEPT ![n] = [NoRow EXCEPT !.status = "queued",
                                                         !.work = asking[c].work,
                                                         !.prio = asking[c].prio]]
  BY DEF Insert
<1>3. rows[n].status = "absent"
  BY <1>2, BoundsAssumption DEF IsNextId
<1>4. rows'[n].status = "queued" /\ rows'[n].token = NoToken
  BY <1>2, NullRecords DEF TypeOK, NoRow, Row
<1>5. Rewritten(n)
  BY <1>1, <1>3, <1>4, NobodyThere DEF Rewritten
<1>6. \A i \in Ids \ {n} : KeptClaim(i)
  BY <1>2, SameRow DEF TypeOK
<1>7. QED
  BY <1>1, <1>5, <1>6 DEF Weakens

\* A thread finds its claim gone, dies, or is killed with its process.
LEMMA GoneWeakens ==
  ASSUME TypeOK,
         \/ \E t \in Threads : ClaimLost(t) \/ Die(t)
         \/ \E P \in Processes : Crash(P)
  PROVE  Weakens
<1>1. rows' = rows
  BY DEF ClaimLost, Die, Crash
<1>2. \A t \in Threads : \/ thread'[t] = thread[t]
                         \/ thread'[t] = IdleThread
                         \/ thread'[t] = [IdleThread EXCEPT !.pc = "dead"]
  BY DEF ClaimLost, Die, Crash, TypeOK
<1>3. \A t \in Threads : thread'[t] = thread[t] \/ Dropped(t)
  BY <1>2 DEF Dropped, IdleThread
<1>4. QED
  BY <1>1, <1>3, SameRow DEF Weakens

\* The settling write goes to the row of the thread that lets go of it.
LEMMA SettleWeakens ==
  ASSUME TypeOK, LeaseOwnership, ExclusiveExecution,
         NEW t \in Threads, Complete(t) \/ Fail(t)
  PROVE  Weakens
<1> DEFINE n == thread[t].job
<1>1. thread[t].pc \in Executing /\ n \in Ids
  BY ThreadFacts DEF Complete, Fail, Consistent, Executing, Settling
<1>2. thread' = [thread EXCEPT ![t] = IdleThread]
  BY DEF Complete, Fail
<1>3. Dropped(t) /\ \A u \in Threads \ {t} : thread'[u] = thread[u]
  BY <1>2 DEF Dropped, IdleThread, TypeOK
<1>4. \A u \in Threads : thread'[u].pc \in Executing => thread'[u].job # n
  BY <1>1, <1>3, PcsDiffer DEF ExclusiveExecution, Dropped
<1>5. \A i \in Ids \ {n} : rows'[i] = rows[i]
  BY <1>1 DEF Complete, Fail, TypeOK
<1>6. \/ rows'[n] = rows[n]
      \/ rows'[n].status # "running" /\ rows'[n].token = NoToken
  <2>1. \/ rows'[n] = rows[n]
        \/ \E s \in {"queued", "done", "failed"} :
             rows'[n] = [rows[n] EXCEPT !.status = s, !.token = NoToken]
    BY <1>1 DEF Complete, Fail, TypeOK
  <2>2. QED
    BY <1>1, <2>1, RowFacts DEF Row
<1>7. KeptClaim(n) \/ Rewritten(n)
  BY <1>1, <1>4, <1>6, SameRow DEF Rewritten
<1>8. QED
  BY <1>3, <1>5, <1>7, SameRow DEF Weakens

\* Under HeartbeatsCoverLease the sweeper's cutoff spares every row somebody
\* works on.
LEMMA StaleIsUnattended ==
  ASSUME HeartbeatsCoverLease, LeaseInv, NEW i \in Ids, Stale(i),
         NEW t \in Threads, thread[t].pc \in Executing
  PROVE  thread[t].job # i
<1> SUFFICES ASSUME thread[t].job = i PROVE FALSE
  OBVIOUS
<1>1. Owns(t, i)
  BY DEF LeaseInv, LeaseOwnership, Stale
<1>2. rows[i].age <= RenewBy + SettleBound
  <2>1. thread[t].timer \in Nat /\ rows[i].age \in Nat
    BY ThreadFacts, RowFacts, TimingAssumption DEF LeaseInv, Row
  <2>2. thread[t].pc = "run" \/ thread[t].pc \in Settling
    BY DEF Executing
  <2>3. QED
    BY <1>1, <2>1, <2>2, TimingAssumption DEF LeaseInv, LeaseFresh
<1>3. rows[i].age \in Nat /\ rows[i].age > Lease
  BY RowFacts, TimingAssumption DEF LeaseInv, Row, Stale
<1>4. QED
  BY <1>2, <1>3, TimingAssumption DEF HeartbeatsCoverLease

LEMMA SweepWeakens ==
  ASSUME HeartbeatsCoverLease, LeaseInv, Sweep
  PROVE  Weakens
<1>1. TypeOK /\ thread' = thread
  BY DEF LeaseInv, Sweep
<1>2. ASSUME NEW i \in Ids, Stale(i)
      PROVE  Rewritten(i)
  <2>1. rows'[i] = [rows[i] EXCEPT !.status = "queued", !.token = NoToken, !.age = 0]
    BY <1>2 DEF Sweep
  <2>2. rows'[i].status = "queued" /\ rows'[i].token = NoToken
    BY <1>1, <2>1, RowFacts DEF Row
  <2>3. QED
    BY <1>1, <1>2, <2>2, StaleIsUnattended DEF Rewritten
<1>3. \A i \in Ids : ~Stale(i) => KeptClaim(i)
  BY <1>1, SameRow DEF Sweep
<1>4. QED
  BY <1>1, <1>2, <1>3 DEF Weakens

LEMMA CancelWeakens ==
  ASSUME TypeOK, NEW w \in Cancellable, Cancel(w)
  PROVE  Weakens
<1>1. thread' = thread
  BY DEF Cancel
<1>2. ASSUME NEW i \in Ids PROVE KeptClaim(i) \/ Cancelled(i)
  <2>1. \/ rows'[i] = rows[i]
        \/ rows'[i] = [rows[i] EXCEPT !.status = "cancelled", !.token = NoToken]
    BY DEF Cancel
  <2>2. QED
    BY <2>1, SameRow, RowFacts DEF Cancelled, Row
<1>3. QED
  BY <1>1, <1>2 DEF Weakens

LEMMA DeleteWeakens ==
  ASSUME TypeOK, LeaseOwnership, NEW D, Delete(D),
         \A i \in D : rows[i].status \notin {"running", "cancelled"}
  PROVE  Weakens
<1>1. thread' = thread
  BY DEF Delete
<1>2. ASSUME NEW i \in Ids, i \in D PROVE Rewritten(i)
  BY <1>1, <1>2, NobodyThere DEF Delete, Rewritten, NoRow
<1>3. ASSUME NEW i \in Ids, i \notin D PROVE KeptClaim(i)
  BY <1>3, SameRow DEF Delete
<1>4. QED
  BY <1>1, <1>2, <1>3 DEF Weakens

\* The purge sets of HeartbeatsCoverLease leave running rows alone, and no
\* purge names cancelled rows.
LEMMA PurgeWeakens ==
  ASSUME HeartbeatsCoverLease, TypeOK, LeaseOwnership,
         \/ \E S \in PurgeSets, K \in {Works} \cup {{w} : w \in Works} : Purge(S, K)
         \/ PurgeDone
  PROVE  Weakens
<1>1. CASE PurgeDone
  BY <1>1, DeleteWeakens DEF PurgeDone
<1>2. ASSUME NEW S \in PurgeSets, NEW K, Purge(S, K)
      PROVE  Weakens
  <2>1. "running" \notin S /\ "cancelled" \notin S
    BY WorksAssumption DEF HeartbeatsCoverLease, Purgeable
  <2>2. QED
    BY <1>2, <2>1, DeleteWeakens DEF Purge
<1>3. QED
  BY <1>1, <1>2

-------------------------------------------------------------------------------
(***************************************************************************)
(* The steps that take a claim, move on, renew, or let time pass.          *)
(***************************************************************************)
LEMMA ClaimLease ==
  ASSUME LeaseInv, TypeOK', NEW t \in Threads, Claim(t)
  PROVE  LeaseInv'
<1>1. TypeOK /\ TokensUnique /\ LeaseFresh /\ LeaseOwnership /\ ExclusiveExecution
  BY DEF LeaseInv
<1>2. PICK i \in Ids, k \in Tokens :
        /\ IsBest(i, Claimable(t)) /\ Fresh(k)
        /\ rows' = [rows EXCEPT ![i] = [@ EXCEPT !.status = "running",
                                                 !.token = k, !.age = 0]]
        /\ thread' = [thread EXCEPT ![t] = [IdleThread EXCEPT !.pc = "fetch",
                                                              !.token = k]]
  BY DEF Claim
<1>3. rows[i].status = "queued"
  BY <1>2 DEF IsBest, Claimable
<1>4. /\ rows'[i].status = "running" /\ rows'[i].token = k /\ rows'[i].age = 0
      /\ \A j \in Ids \ {i} : rows'[j] = rows[j]
  BY <1>1, <1>2, RowFacts DEF TypeOK, Row
<1>5. /\ thread'[t].pc = "fetch" /\ thread'[t].token = k /\ thread'[t].timer = 0
      /\ \A u \in Threads \ {t} : thread'[u] = thread[u]
  BY <1>1, <1>2 DEF TypeOK, IdleThread
<1>6. /\ \A j \in Ids : rows[j].token # k
      /\ \A u \in Threads : thread[u].token # k
      /\ k # NoToken
  BY <1>2, Members DEF Fresh
<1>7. TokensUnique'
  BY <1>1, <1>4, <1>5, <1>6 DEF TokensUnique
<1>8. \A u \in Threads \ {t} : thread[u].pc \in Executing => thread[u].job # i
  BY <1>1, <1>3, NobodyThere
<1>9. LeaseOwnership'
  <2> SUFFICES ASSUME NEW u \in Threads, thread'[u].pc \in Executing
               PROVE  /\ Owns(u, thread[u].job)' \/ rows'[thread'[u].job].status = "cancelled"
                      /\ rows'[thread'[u].job].work = thread'[u].task
    BY DEF LeaseOwnership
  <2>1. u # t /\ thread'[u] = thread[u]
    BY <1>5, PcsDiffer
  <2>2. thread[u].job \in Ids /\ rows'[thread[u].job] = rows[thread[u].job]
    BY <1>1, <1>4, <1>8, <2>1, ThreadFacts DEF Consistent
  <2>3. QED
    BY <1>1, <2>1, <2>2 DEF LeaseOwnership, Owns
<1>10. ExclusiveExecution'
  BY <1>1, <1>5, PcsDiffer DEF ExclusiveExecution
<1>11. LeaseFresh'
  <2>1. ASSUME NEW u \in Threads \ {t}, NEW j \in Ids, Owns(u, j)'
        PROVE  Owns(u, j) /\ rows'[j] = rows[j]
    BY <1>4, <1>5, <1>6, <2>1 DEF Owns
  <2>2. \A j \in Ids : Owns(t, j)' => j = i
    BY <1>4, <1>5, <1>6 DEF Owns
  <2>3. \A u \in Threads : thread[u].pc \in Executing => thread[u].job \in Ids
    BY <1>1, ThreadFacts DEF Consistent
  <2>4. QED
    BY <1>1, <1>4, <1>5, <2>1, <2>2, <2>3, PcsDiffer DEF LeaseFresh
<1>12. QED
  BY <1>7, <1>9, <1>10, <1>11 DEF LeaseInv

LEMMA BeginLease ==
  ASSUME LeaseInv, TypeOK', NEW t \in Threads, Begin(t)
  PROVE  LeaseInv'
<1>1. TypeOK /\ TokensUnique /\ LeaseFresh /\ LeaseOwnership /\ ExclusiveExecution
  BY DEF LeaseInv
<1>2. PICK i \in Ids :
        /\ rows[i].token = thread[t].token
        /\ thread' = [thread EXCEPT ![t] = [@ EXCEPT !.pc = "run", !.job = i,
                                                     !.task = rows[i].work]]
  BY DEF Begin
<1>3. /\ thread[t].pc = "fetch" /\ rows' = rows
      /\ thread[t].token # NoToken
  BY <1>1, ThreadFacts DEF Begin, Consistent
<1>4. /\ thread'[t].pc = "run" /\ thread'[t].job = i /\ thread'[t].task = rows[i].work
      /\ thread'[t].token = thread[t].token /\ thread'[t].timer = thread[t].timer
      /\ \A u \in Threads \ {t} : thread'[u] = thread[u]
  BY <1>1, <1>2, ThreadFacts DEF TypeOK, ThreadState
<1>5. Owns(t, i)
  BY <1>1, <1>2, <1>3, RowFacts DEF Owns, WellFormed
<1>6. TokensUnique'
  BY <1>1, <1>3, <1>4 DEF TokensUnique
<1>7. ASSUME NEW u \in Threads \ {t}, thread[u].pc \in Executing
      PROVE  thread[u].job # i
  BY <1>1, <1>3, <1>5, <1>7 DEF LeaseOwnership, Owns, TokensUnique
<1>8. LeaseOwnership'
  BY <1>1, <1>3, <1>4, <1>5 DEF LeaseOwnership, Owns
<1>9. ExclusiveExecution'
  BY <1>1, <1>4, <1>7 DEF ExclusiveExecution
<1>10. LeaseFresh'
  <2>1. thread[t].timer = 0 /\ rows[i].age = 0
    BY <1>1, <1>3, <1>5 DEF LeaseFresh
  <2>2. \A u \in Threads, j \in Ids : Owns(u, j)' <=> Owns(u, j)
    BY <1>3, <1>4 DEF Owns
  <2>3. \A u \in Threads : thread[u].pc \in Executing => thread[u].job \in Ids
    BY <1>1, ThreadFacts DEF Consistent
  <2>4. QED
    BY <1>1, <1>3, <1>4, <2>1, <2>2, <2>3, PcsDiffer, TimingAssumption DEF LeaseFresh
<1>11. QED
  BY <1>6, <1>8, <1>9, <1>10 DEF LeaseInv

LEMMA HandlerLease ==
  ASSUME LeaseInv, TypeOK', NEW t \in Threads,
         HandlerEnds(t) \/ HandlerLocked(t) \/ CompleteFails(t)
  PROVE  LeaseInv'
<1>1. TypeOK /\ TokensUnique /\ LeaseFresh /\ LeaseOwnership /\ ExclusiveExecution
  BY DEF LeaseInv
<1>2. \E q \in Settling :
        \/ thread[t].pc = "run" /\ thread' = [thread EXCEPT ![t] = [@ EXCEPT !.pc = q, !.timer = 0]]
        \/ thread[t].pc \in Settling /\ thread' = [thread EXCEPT ![t].pc = q]
  <2>1. ASSUME HandlerEnds(t) \/ HandlerLocked(t)
        PROVE  /\ thread[t].pc = "run"
               /\ \E q \in Settling :
                    thread' = [thread EXCEPT ![t] = [@ EXCEPT !.pc = q, !.timer = 0]]
    BY <2>1 DEF HandlerEnds, HandlerLocked, Settling
  <2>2. ASSUME CompleteFails(t)
        PROVE  /\ thread[t].pc \in Settling
               /\ \E q \in Settling : thread' = [thread EXCEPT ![t].pc = q]
    BY <2>2 DEF CompleteFails, Settling
  <2>3. QED
    BY <2>1, <2>2
<1>3. rows' = rows
  BY DEF HandlerEnds, HandlerLocked, CompleteFails
<1>4. /\ thread[t].pc \in Executing /\ thread'[t].pc \in Settling
      /\ thread'[t].job = thread[t].job /\ thread'[t].task = thread[t].task
      /\ thread'[t].token = thread[t].token
      /\ \/ thread[t].pc = "run" /\ thread'[t].timer = 0
         \/ thread[t].pc \in Settling /\ thread'[t].timer = thread[t].timer
      /\ \A u \in Threads \ {t} : thread'[u] = thread[u]
  <2>1. PICK q \in Settling :
          \/ thread[t].pc = "run" /\ thread' = [thread EXCEPT ![t] = [@ EXCEPT !.pc = q, !.timer = 0]]
          \/ thread[t].pc \in Settling /\ thread' = [thread EXCEPT ![t].pc = q]
    BY <1>2
  <2>2. \/ thread[t].pc = "run" /\ thread'[t] = [thread[t] EXCEPT !.pc = q, !.timer = 0]
        \/ thread[t].pc \in Settling /\ thread'[t] = [thread[t] EXCEPT !.pc = q]
    BY <1>1, <2>1 DEF TypeOK
  <2>3. \A u \in Threads \ {t} : thread'[u] = thread[u]
    BY <1>1, <2>1 DEF TypeOK
  <2>4. QED
    BY <1>1, <2>2, <2>3, ThreadFacts, PcsDiffer DEF ThreadState
<1>5. TokensUnique'
  BY <1>1, <1>3, <1>4 DEF TokensUnique
<1>6. LeaseOwnership'
  BY <1>1, <1>3, <1>4 DEF LeaseOwnership, Owns
<1>7. ExclusiveExecution'
  BY <1>1, <1>4, PcsDiffer DEF ExclusiveExecution
<1>8. LeaseFresh'
  <2>1. \A u \in Threads, j \in Ids : Owns(u, j)' <=> Owns(u, j)
    BY <1>3, <1>4 DEF Owns
  <2>2. \A u \in Threads : thread[u].pc \in Executing => thread[u].job \in Ids
    BY <1>1, ThreadFacts DEF Consistent
  <2>3. \A i \in Ids : rows[i].age \in Nat
    BY <1>1, RowFacts, TimingAssumption DEF Row
  <2>4. thread[t].timer \in Nat
    BY <1>1, ThreadFacts
  <2>5. /\ thread'[t].timer <= SettleBound
        /\ Owns(t, thread[t].job)' =>
             rows'[thread'[t].job].age <= RenewBy + thread'[t].timer
    BY <1>1, <1>3, <1>4, <2>1, <2>2, <2>3, <2>4, TimingAssumption, PcsDiffer
    DEF LeaseFresh
  <2>6. QED
    BY <1>1, <1>3, <1>4, <2>1, <2>2, <2>5, PcsDiffer DEF LeaseFresh
<1>9. QED
  BY <1>5, <1>6, <1>7, <1>8 DEF LeaseInv

LEMMA RenewLease ==
  ASSUME LeaseInv, TypeOK', NEW t \in Threads, Renew(t)
  PROVE  LeaseInv'
<1>1. TypeOK /\ TokensUnique /\ LeaseFresh /\ LeaseOwnership /\ ExclusiveExecution
  BY DEF LeaseInv
<1> DEFINE n == thread[t].job
<1>2. thread[t].pc = "run" /\ n \in Ids
  BY <1>1, ThreadFacts, PcsDiffer DEF Renew, Consistent
<1>3. /\ thread'[t].pc = "run" /\ thread'[t].job = n /\ thread'[t].timer = 0
      /\ thread'[t].token = thread[t].token /\ thread'[t].task = thread[t].task
      /\ \A u \in Threads \ {t} : thread'[u] = thread[u]
  BY <1>1, <1>2, ThreadFacts DEF Renew, TypeOK, ThreadState
<1>4. /\ rows[n].status = "running" => rows'[n].age = 0
      /\ rows'[n].status = rows[n].status /\ rows'[n].token = rows[n].token
      /\ rows'[n].work = rows[n].work
      /\ \A j \in Ids \ {n} : rows'[j] = rows[j]
  BY <1>1, <1>2, RowFacts DEF Renew, TypeOK, Row
<1>5. TokensUnique'
  BY <1>1, <1>3, <1>4 DEF TokensUnique
<1>6. \A u \in Threads, j \in Ids : Owns(u, j)' <=> Owns(u, j)
  BY <1>3, <1>4 DEF Owns
<1>7. \A u \in Threads : thread[u].pc \in Executing => thread[u].job \in Ids
  BY <1>1, ThreadFacts DEF Consistent
<1>8. LeaseOwnership'
  <2> SUFFICES ASSUME NEW u \in Threads, thread'[u].pc \in Executing
               PROVE  /\ Owns(u, thread[u].job)' \/ rows'[thread'[u].job].status = "cancelled"
                      /\ rows'[thread'[u].job].work = thread'[u].task
    BY DEF LeaseOwnership
  <2>1. /\ thread[u].pc \in Executing /\ thread'[u].job = thread[u].job
        /\ thread'[u].token = thread[u].token /\ thread'[u].task = thread[u].task
    BY <1>2, <1>3, PcsDiffer
  <2>2. /\ rows'[thread[u].job].status = rows[thread[u].job].status
        /\ rows'[thread[u].job].token = rows[thread[u].job].token
        /\ rows'[thread[u].job].work = rows[thread[u].job].work
    BY <1>4, <1>7, <2>1
  <2>3. QED
    BY <1>1, <2>1, <2>2 DEF LeaseOwnership, Owns
<1>9. ExclusiveExecution'
  BY <1>1, <1>2, <1>3, PcsDiffer DEF ExclusiveExecution
<1>10. LeaseFresh'
  <2>1. \A u \in Threads \ {t} : thread[u].pc \in Executing => thread[u].job # n
    BY <1>1, <1>2, PcsDiffer DEF ExclusiveExecution
  <2>2. ASSUME NEW u \in Threads \ {t}, thread[u].pc = "fetch", NEW j \in Ids, Owns(u, j)
        PROVE  rows'[j].age = 0
    <3>1. rows[j].age = 0 /\ rows[j].status = "running"
      BY <1>1, <2>2 DEF LeaseFresh, Owns
    <3>2. QED
      BY <1>4, <3>1
  <2>3. Owns(t, thread[t].job)' => rows'[thread'[t].job].age = 0
    BY <1>2, <1>3, <1>4 DEF Owns
  <2>4. ASSUME NEW u \in Threads \ {t}
        PROVE  /\ thread'[u] = thread[u]
               /\ thread[u].pc \in Executing => rows'[thread[u].job] = rows[thread[u].job]
    BY <1>3, <1>4, <1>7, <2>1
  <2> SUFFICES ASSUME NEW u \in Threads
               PROVE  /\ thread'[u].pc = "fetch" =>
                           /\ thread'[u].timer = 0
                           /\ \A j \in Ids : Owns(u, j)' => rows'[j].age = 0
                      /\ thread'[u].pc = "run" =>
                           /\ thread'[u].timer <= RenewBy
                           /\ Owns(u, thread[u].job)' =>
                                rows'[thread'[u].job].age <= thread'[u].timer
                      /\ thread'[u].pc \in Settling =>
                           /\ thread'[u].timer <= SettleBound
                           /\ Owns(u, thread[u].job)' =>
                                rows'[thread'[u].job].age <= RenewBy + thread'[u].timer
    BY DEF LeaseFresh
  <2>5. CASE u = t
    BY <1>3, <2>3, <2>5, PcsDiffer, TimingAssumption
  <2>6. CASE u # t
    BY <1>1, <1>6, <1>7, <2>2, <2>4, <2>6, PcsDiffer DEF LeaseFresh
  <2>7. QED
    BY <2>5, <2>6
<1>11. QED
  BY <1>5, <1>8, <1>9, <1>10 DEF LeaseInv

\* Time passes only while every heartbeat and every settling write is within
\* its bound, and ages a row no faster than its thread's timer.
LEMMA TickLease ==
  ASSUME HeartbeatsCoverLease, LeaseInv, TypeOK', Tick
  PROVE  LeaseInv'
<1>1. TypeOK /\ TokensUnique /\ LeaseFresh /\ LeaseOwnership /\ ExclusiveExecution
  BY DEF LeaseInv
<1>2. \A i \in Ids : /\ rows'[i].status = rows[i].status
                     /\ rows'[i].token = rows[i].token
                     /\ rows'[i].work = rows[i].work
                     /\ rows'[i].age <= rows[i].age + 1
                     /\ rows[i].age \in Nat
  <2> SUFFICES ASSUME NEW i \in Ids
               PROVE  /\ rows'[i].status = rows[i].status
                      /\ rows'[i].token = rows[i].token
                      /\ rows'[i].work = rows[i].work
                      /\ rows'[i].age <= rows[i].age + 1
                      /\ rows[i].age \in Nat
    OBVIOUS
  <2>1. rows[i] \in Row /\ rows[i].age \in Nat
    BY <1>1, RowFacts, TimingAssumption DEF Row
  <2>2. rows'[i] = rows[i] \/ rows'[i] = [rows[i] EXCEPT !.age = @ + 1]
    BY DEF Tick
  <2>3. QED
    BY <2>1, <2>2 DEF Row
<1>3. \A t \in Threads : /\ thread'[t].pc = thread[t].pc
                         /\ thread'[t].job = thread[t].job
                         /\ thread'[t].token = thread[t].token
                         /\ thread'[t].task = thread[t].task
                         /\ thread'[t].timer = IF Ticking(t) THEN thread[t].timer + 1
                                                             ELSE thread[t].timer
                         /\ thread[t].timer \in Nat
  BY <1>1, ThreadFacts DEF Tick, ThreadState
<1>4. TokensUnique'
  BY <1>1, <1>2, <1>3 DEF TokensUnique
<1>5. \A u \in Threads, j \in Ids : Owns(u, j)' <=> Owns(u, j)
  BY <1>2, <1>3 DEF Owns
<1>6. \A u \in Threads : thread[u].pc \in Executing => thread[u].job \in Ids
  BY <1>1, ThreadFacts DEF Consistent
<1>7. LeaseOwnership'
  BY <1>1, <1>2, <1>3, <1>6 DEF LeaseOwnership, Owns
<1>8. ExclusiveExecution'
  BY <1>1, <1>3 DEF ExclusiveExecution
<1>9. LeaseFresh'
  <2> SUFFICES ASSUME NEW t \in Threads
               PROVE  /\ thread'[t].pc # "fetch"
                      /\ thread'[t].pc = "run" =>
                           /\ thread'[t].timer <= RenewBy
                           /\ Owns(t, thread[t].job)' =>
                                rows'[thread'[t].job].age <= thread'[t].timer
                      /\ thread'[t].pc \in Settling =>
                           /\ thread'[t].timer <= SettleBound
                           /\ Owns(t, thread[t].job)' =>
                                rows'[thread'[t].job].age <= RenewBy + thread'[t].timer
    BY DEF LeaseFresh
  <2>1. Punctual(t) /\ t \in Beats
    BY DEF Tick, HeartbeatsCoverLease
  <2>2. CASE thread[t].pc = "run"
    <3>1. thread'[t].timer = thread[t].timer + 1 /\ thread[t].timer < RenewBy
      BY <1>3, <2>1, <2>2 DEF Punctual, Ticking
    <3>2. thread[t].job \in Ids
      BY <1>6, <2>2, PcsDiffer
    <3>3. Owns(t, thread[t].job)' =>
            rows[thread[t].job].age <= thread[t].timer
      BY <1>1, <1>3, <1>5, <2>2, <3>2 DEF LeaseFresh, Owns
    <3>4. rows'[thread[t].job].age <= rows[thread[t].job].age + 1
      BY <1>2, <3>2
    <3>5. rows'[thread[t].job].age \in Nat
      BY <3>2, TimingAssumption DEF TypeOK, Row
    <3>6. QED
      BY <1>2, <1>3, <2>2, <3>1, <3>2, <3>3, <3>4, <3>5, PcsDiffer,
         TimingAssumption
  <2>3. CASE thread[t].pc \in Settling
    <3>1. thread'[t].timer = thread[t].timer + 1 /\ thread[t].timer < SettleBound
      BY <1>3, <2>1, <2>3 DEF Punctual, Ticking
    <3>2. thread[t].job \in Ids
      BY <1>6, <2>3, PcsDiffer
    <3>3. Owns(t, thread[t].job)' =>
            rows[thread[t].job].age <= RenewBy + thread[t].timer
      BY <1>1, <1>3, <1>5, <2>3, <3>2 DEF LeaseFresh, Owns
    <3>4. rows'[thread[t].job].age <= rows[thread[t].job].age + 1
      BY <1>2, <3>2
    <3>5. rows'[thread[t].job].age \in Nat
      BY <3>2, TimingAssumption DEF TypeOK, Row
    <3>6. QED
      BY <1>2, <1>3, <2>3, <3>1, <3>2, <3>3, <3>4, <3>5, PcsDiffer,
         TimingAssumption
  <2>4. QED
    BY <1>3, <2>1, <2>2, <2>3 DEF Punctual
<1>10. QED
  BY <1>4, <1>7, <1>8, <1>9 DEF LeaseInv

-------------------------------------------------------------------------------
LEMMA LeaseInit == Init => LeaseInv
<1> SUFFICES ASSUME Init PROVE LeaseInv
  OBVIOUS
<1>1. TypeOK
  BY TypeInit
<1>2. \A t \in Threads : thread[t].pc = "idle" /\ thread[t].token = NoToken
  BY DEF Init, IdleThread
<1>3. \A i \in Ids : rows[i].token = NoToken
  BY DEF Init, NoRow
<1>4. QED
  BY <1>1, <1>2, <1>3, PcsDiffer
  DEF LeaseInv, TokensUnique, LeaseFresh, LeaseOwnership, ExclusiveExecution

LEMMA LeaseStep ==
  ASSUME HeartbeatsCoverLease, LeaseInv, [Next]_vars
  PROVE  LeaseInv'
<1>1. TypeOK /\ TypeOK'
  BY TypeStep DEF LeaseInv
<1>2. LeaseOwnership /\ ExclusiveExecution
  BY DEF LeaseInv
<1>3. CASE \E t \in Threads : Step(t)
  BY <1>1, <1>2, <1>3, ClaimLease, BeginLease, HandlerLease, RenewLease,
     GoneWeakens, SettleWeakens, WeakensInv DEF Step
<1>4. CASE \E c \in Clients : \/ Insert(c)
                              \/ \E r \in Requests : Coalesce(c, r) \/ Decide(c, r)
  BY <1>1, <1>2, <1>4, CoalesceWeakens, InsertWeakens, WeakensInv
<1>5. CASE \/ \E S \in PurgeSets, K \in {Works} \cup {{w} : w \in Works} : Purge(S, K)
           \/ PurgeDone
  BY <1>1, <1>2, <1>5, PurgeWeakens, WeakensInv
<1>6. CASE \/ \E P \in Processes : Crash(P)
           \/ \E w \in Cancellable : Cancel(w)
           \/ Sweep
  BY <1>1, <1>6, GoneWeakens, CancelWeakens, SweepWeakens, WeakensInv
<1>7. CASE Tick
  BY <1>1, <1>7, TickLease
<1>8. CASE UNCHANGED vars
  <2>1. Weakens
    BY <1>1, <1>8, SameRow DEF vars, Weakens
  <2>2. QED
    BY <1>1, <2>1, WeakensInv
<1>9. QED
  BY <1>3, <1>4, <1>5, <1>6, <1>7, <1>8 DEF Next

\* With a heartbeat on every thread, a lease that outlasts a renewal and a
\* settling write, and purges that leave running rows alone, the invariant of
\* the leases always holds.
THEOREM LeasesHold == HeartbeatsCoverLease /\ Spec => []LeaseInv
<1>1. Init => LeaseInv
  BY LeaseInit
<1>2. HeartbeatsCoverLease /\ LeaseInv /\ [Next]_vars => LeaseInv'
  BY LeaseStep
<1>3. HeartbeatsCoverLease => []HeartbeatsCoverLease
  OBVIOUS
<1>4. QED
  BY <1>1, <1>2, <1>3, PTL DEF Spec

\* No two threads ever work on one job.
THEOREM Exclusive == HeartbeatsCoverLease /\ Spec => []ExclusiveExecution
<1>1. LeaseInv => ExclusiveExecution
  BY DEF LeaseInv
<1>2. QED
  BY <1>1, LeasesHold, PTL

\* A thread that works on a job owns its row, unless the job was cancelled.
THEOREM Ownership == HeartbeatsCoverLease /\ Spec => []LeaseOwnership
<1>1. LeaseInv => LeaseOwnership
  BY DEF LeaseInv
<1>2. QED
  BY <1>1, LeasesHold, PTL

-------------------------------------------------------------------------------
(***************************************************************************)
(* No request is lost, and only owners settle: what the leases are for.    *)
(***************************************************************************)
Awaits(w, i) ==
  /\ rows[i].work = w
  /\ \/ rows[i].status = "queued"
     \/ /\ rows[i].status = "running"
        /\ \A t \in Threads : thread[t].pc \in Executing => ~Owns(t, i)

\* The induction hypothesis, with its parts named.
OwedInv == LeaseInv /\ NoLostRequest

LEMMA OwedParts ==
  ASSUME OwedInv
  PROVE  /\ TypeOK /\ TokensUnique /\ LeaseOwnership /\ ExclusiveExecution
         /\ \A w \in owed : \E i \in Ids : Awaits(w, i)
  BY DEF OwedInv, LeaseInv, NoLostRequest, Awaits

\* A row that keeps its claim goes on waiting for a run as long as no thread
\* begins one.
KeepsClaim(i) ==
  /\ rows'[i].work = rows[i].work
  /\ rows'[i].status = rows[i].status
  /\ rows'[i].token = rows[i].token

NoBegin ==
  \A t \in Threads : thread'[t].pc \in Executing =>
    thread[t].pc \in Executing /\ thread'[t].token = thread[t].token

LEMMA StillAwaits ==
  ASSUME NEW w, NEW i \in Ids, Awaits(w, i), KeepsClaim(i), NoBegin
  PROVE  Awaits(w, i)'
  BY DEF Awaits, KeepsClaim, NoBegin, Owns

LEMMA SameRowClaim ==
  ASSUME NEW i \in Ids, rows'[i] = rows[i]
  PROVE  KeepsClaim(i)
  BY DEF KeepsClaim

-------------------------------------------------------------------------------
LEMMA CoalesceOwed ==
  ASSUME OwedInv, NEW c \in Clients, NEW r \in Requests, Coalesce(c, r) \/ Decide(c, r)
  PROVE  NoLostRequest'
<1>1. TypeOK /\ \A w \in owed : \E i \in Ids : Awaits(w, i)
  BY OwedParts
<1>2. NoBegin
  BY DEF Coalesce, Decide, NoBegin
<1>3. ASSUME NEW i \in Ids PROVE KeepsClaim(i)
  <2>1. rows'[i] = rows[i] \/ rows'[i] = [rows[i] EXCEPT !.prio = r.prio]
    BY <1>1 DEF Coalesce, Decide, TypeOK
  <2>2. QED
    BY <1>1, <2>1, RowFacts DEF KeepsClaim, Row
<1>4. ASSUME NEW w \in owed' PROVE \E i \in Ids : Awaits(w, i)
  <2>1. CASE w \in owed
    BY <1>1, <2>1
  <2>2. CASE w \notin owed
    <3>1. \E i \in Ids : rows[i].work = r.work /\ rows[i].status = "queued" /\ w = r.work
      BY <2>2 DEF Coalesce, Decide, IsFirst, Covering
    <3>2. QED
      BY <3>1 DEF Awaits
  <2>3. QED
    BY <2>1, <2>2
<1>5. \A w \in owed' : \E i \in Ids : Awaits(w, i)'
  BY <1>2, <1>3, <1>4, StillAwaits
<1>6. QED
  BY <1>5 DEF NoLostRequest, Awaits

LEMMA InsertOwed ==
  ASSUME OwedInv, NEW c \in Clients, Insert(c)
  PROVE  NoLostRequest'
<1>1. TypeOK /\ \A w \in owed : \E i \in Ids : Awaits(w, i)
  BY OwedParts
<1>2. PICK n \in Ids : /\ IsNextId(n)
                       /\ rows' = [rows EXCEPT ![n] = [NoRow EXCEPT !.status = "queued",
                                                         !.work = asking[c].work,
                                                         !.prio = asking[c].prio]]
  BY DEF Insert
<1>3. rows[n].status = "absent"
  <2>1. ~(n < n)
    BY BoundsAssumption
  <2>2. QED
    BY <1>2, <2>1 DEF IsNextId
<1>4. rows'[n].status = "queued" /\ rows'[n].work = asking[c].work
  BY <1>1, <1>2, NullRecords DEF TypeOK, NoRow, Row
<1>5. \A w : w = asking[c].work => Awaits(w, n)'
  BY <1>4 DEF Awaits, Insert
<1>6. \A i \in Ids \ {n} : KeepsClaim(i)
  BY <1>1, <1>2, SameRowClaim DEF TypeOK
<1>7. NoBegin
  BY DEF Insert, NoBegin
<1>8. \A w \in owed : \E i \in Ids \ {n} : Awaits(w, i)
  BY <1>1, <1>3 DEF Awaits
<1>9. \A w \in owed : \E i \in Ids : Awaits(w, i)'
  BY <1>6, <1>7, <1>8, StillAwaits
<1>10. QED
  BY <1>5, <1>9 DEF Insert, NoLostRequest, Awaits

LEMMA ClaimOwed ==
  ASSUME OwedInv, NEW t \in Threads, Claim(t)
  PROVE  NoLostRequest'
<1>1. TypeOK /\ \A w \in owed : \E i \in Ids : Awaits(w, i)
  BY OwedParts
<1>2. PICK i \in Ids, k \in Tokens :
        /\ IsBest(i, Claimable(t)) /\ Fresh(k)
        /\ rows' = [rows EXCEPT ![i] = [@ EXCEPT !.status = "running",
                                                 !.token = k, !.age = 0]]
        /\ thread' = [thread EXCEPT ![t] = [IdleThread EXCEPT !.pc = "fetch",
                                                              !.token = k]]
  BY DEF Claim
<1>3. /\ rows'[i].status = "running" /\ rows'[i].token = k
      /\ rows'[i].work = rows[i].work
      /\ \A j \in Ids \ {i} : rows'[j] = rows[j]
  BY <1>1, <1>2, RowFacts DEF TypeOK, Row
<1>4. /\ thread'[t].pc = "fetch"
      /\ \A u \in Threads \ {t} : thread'[u] = thread[u] /\ thread[u].token # k
  BY <1>1, <1>2 DEF TypeOK, IdleThread, Fresh
<1>5. NoBegin
  BY <1>4, PcsDiffer DEF NoBegin
<1>6. \A u \in Threads : thread'[u].pc \in Executing => ~Owns(u, i)'
  BY <1>3, <1>4, PcsDiffer DEF Owns
<1>7. ASSUME NEW w, NEW j \in Ids, Awaits(w, j)
      PROVE  Awaits(w, j)'
  <2>1. CASE j = i
    BY <1>3, <1>6, <1>7, <2>1 DEF Awaits
  <2>2. CASE j # i
    BY <1>3, <1>5, <1>7, <2>2, SameRowClaim, StillAwaits
  <2>3. QED
    BY <2>1, <2>2
<1>8. QED
  BY <1>1, <1>7 DEF Claim, NoLostRequest, Awaits

LEMMA BeginOwed ==
  ASSUME OwedInv, NEW t \in Threads, Begin(t)
  PROVE  NoLostRequest'
<1>1. TypeOK /\ TokensUnique /\ \A w \in owed : \E i \in Ids : Awaits(w, i)
  BY OwedParts
<1>2. PICK i \in Ids :
        /\ rows[i].token = thread[t].token
        /\ thread' = [thread EXCEPT ![t] = [@ EXCEPT !.pc = "run", !.job = i,
                                                     !.task = rows[i].work]]
        /\ owed' = owed \ {rows[i].work}
  BY DEF Begin
<1>3. rows' = rows /\ thread[t].token # NoToken
  BY <1>1, ThreadFacts DEF Begin, Consistent
<1>4. /\ thread'[t].token = thread[t].token
      /\ \A u \in Threads \ {t} : thread'[u] = thread[u]
  BY <1>1, <1>2, ThreadFacts DEF TypeOK, ThreadState
<1>5. ASSUME NEW w \in owed', NEW j \in Ids, Awaits(w, j)
      PROVE  Awaits(w, j)'
  <2>1. j # i
    BY <1>2, <1>5 DEF Awaits
  <2>2. rows[j].token # thread[t].token
    BY <1>1, <1>2, <1>3, <2>1 DEF TokensUnique
  <2>3. \A u \in Threads : Owns(u, j)' <=> Owns(u, j)
    BY <1>3, <1>4 DEF Owns
  <2>4. ~Owns(t, j)
    BY <2>2 DEF Owns
  <2>5. QED
    BY <1>3, <1>4, <1>5, <2>3, <2>4 DEF Awaits
<1>6. \A w \in owed' : \E j \in Ids : Awaits(w, j)
  BY <1>1, <1>2
<1>7. QED
  BY <1>5, <1>6 DEF NoLostRequest, Awaits

\* A thread lets go of its job, or the handler moves on: the rows that wait
\* for a run go on waiting.
LEMMA HandlerOwed ==
  ASSUME OwedInv, NEW t \in Threads,
         \/ ClaimLost(t) \/ HandlerEnds(t) \/ HandlerLocked(t) \/ CompleteFails(t)
  PROVE  NoLostRequest'
<1>1. TypeOK /\ \A w \in owed : \E i \in Ids : Awaits(w, i)
  BY OwedParts
<1>2. rows' = rows /\ owed' = owed
  BY DEF ClaimLost, HandlerEnds, HandlerLocked, CompleteFails
<1>3. \A u \in Threads \ {t} : thread'[u] = thread[u]
  BY <1>1 DEF ClaimLost, HandlerEnds, HandlerLocked, CompleteFails, TypeOK
<1>4. ASSUME ClaimLost(t) PROVE NoBegin
  <2>1. thread'[t].pc = "idle"
    BY <1>1, <1>4 DEF ClaimLost, TypeOK, IdleThread
  <2>2. QED
    BY <1>3, <2>1, PcsDiffer DEF NoBegin
<1>5. ASSUME HandlerEnds(t) \/ HandlerLocked(t) \/ CompleteFails(t) PROVE NoBegin
  <2>1. thread[t].pc \in Executing
    BY <1>5 DEF HandlerEnds, HandlerLocked, CompleteFails, Executing, Settling
  <2>2. \E q \in Settling : \/ thread'[t] = [thread[t] EXCEPT !.pc = q, !.timer = 0]
                            \/ thread'[t] = [thread[t] EXCEPT !.pc = q]
    BY <1>1, <1>5 DEF HandlerEnds, HandlerLocked, CompleteFails, TypeOK, Settling
  <2>3. thread'[t].token = thread[t].token
    BY <1>1, <2>2, ThreadFacts DEF ThreadState
  <2>4. QED
    BY <1>3, <2>1, <2>3 DEF NoBegin
<1>6. NoBegin
  BY <1>4, <1>5
<1>7. \A w \in owed' : \E i \in Ids : Awaits(w, i)'
  BY <1>1, <1>2, <1>6, SameRowClaim, StillAwaits
<1>8. QED
  BY <1>7 DEF NoLostRequest, Awaits

LEMMA SettleOwed ==
  ASSUME OwedInv, NEW t \in Threads, Complete(t) \/ Fail(t)
  PROVE  NoLostRequest'
<1>1. /\ TypeOK /\ LeaseOwnership
      /\ \A w \in owed : \E i \in Ids : Awaits(w, i)
  BY OwedParts
<1> DEFINE n == thread[t].job
<1>2. thread[t].pc \in Executing /\ n \in Ids
  BY <1>1, ThreadFacts DEF Complete, Fail, Consistent, Executing, Settling
<1>3. /\ Owns(t, n) \/ rows[n].status = "cancelled"
      /\ rows[n].work = thread[t].task
  BY <1>1, <1>2 DEF LeaseOwnership
<1>4. \A w : ~Awaits(w, n)
  BY <1>2, <1>3 DEF Awaits, Owns
<1>5. \A i \in Ids \ {n} : rows'[i] = rows[i]
  BY <1>1, <1>2 DEF Complete, Fail, TypeOK
<1>6. NoBegin
  <2>1. thread'[t].pc = "idle" /\ \A u \in Threads \ {t} : thread'[u] = thread[u]
    BY <1>1 DEF Complete, Fail, TypeOK, IdleThread
  <2>2. QED
    BY <2>1, PcsDiffer DEF NoBegin
<1>7. \A w \in owed : \E i \in Ids : Awaits(w, i)'
  BY <1>1, <1>4, <1>5, <1>6, SameRowClaim, StillAwaits
<1>8. ASSUME NEW w \in owed', w \notin owed
      PROVE  \E i \in Ids : Awaits(w, i)'
  <2>1. Fail(t) /\ thread[t].pc = "requeue" /\ w = thread[t].task
    BY <1>8 DEF Complete, Fail
  <2>2. rows[n].status # "absent"
    BY <1>3 DEF Owns
  <2>3. rows'[n] = [rows[n] EXCEPT !.status = "queued", !.token = NoToken]
    BY <1>1, <1>2, <2>1, <2>2 DEF Fail, TypeOK
  <2>4. rows'[n].status = "queued" /\ rows'[n].work = thread[t].task
    BY <1>1, <1>2, <1>3, <2>3, RowFacts DEF Row
  <2>5. PICK i \in Ids : i = n
    BY <1>2
  <2>6. Awaits(w, i)'
    BY <2>1, <2>4, <2>5 DEF Awaits
  <2>7. QED
    BY <2>6
<1>9. \A w \in owed' : \E i \in Ids : Awaits(w, i)'
  BY <1>2, <1>7, <1>8
<1>10. QED
  BY <1>9 DEF NoLostRequest, Awaits

LEMMA RenewOwed ==
  ASSUME OwedInv, NEW t \in Threads, Renew(t)
  PROVE  NoLostRequest'
<1>1. TypeOK /\ \A w \in owed : \E i \in Ids : Awaits(w, i)
  BY OwedParts
<1> DEFINE n == thread[t].job
<1>2. thread[t].pc \in Executing /\ n \in Ids
  BY <1>1, ThreadFacts, PcsDiffer DEF Renew, Consistent
<1>3. ASSUME NEW i \in Ids PROVE KeepsClaim(i)
  <2>1. rows'[i] = rows[i] \/ rows'[i] = [rows[i] EXCEPT !.age = 0]
    BY <1>1, <1>2 DEF Renew, TypeOK
  <2>2. QED
    BY <1>1, <2>1, RowFacts DEF KeepsClaim, Row
<1>4. \A u \in Threads : thread'[u].pc = thread[u].pc /\ thread'[u].token = thread[u].token
  BY <1>1, ThreadFacts DEF Renew, TypeOK, ThreadState
<1>5. NoBegin
  BY <1>4 DEF NoBegin
<1>6. \A w \in owed' : \E i \in Ids : Awaits(w, i)'
  BY <1>1, <1>3, <1>5, StillAwaits DEF Renew
<1>7. QED
  BY <1>6 DEF NoLostRequest, Awaits

\* A run that is cut short leaves its row running with nobody on it.
LEMMA GoneOwed ==
  ASSUME OwedInv, NEW T \in SUBSET Threads,
         rows' = rows, owed' = owed \cup CutShort(T),
         \A t \in T : thread'[t].pc \notin Executing,
         \A t \in Threads \ T : thread'[t] = thread[t]
  PROVE  NoLostRequest'
<1>1. /\ TypeOK /\ LeaseOwnership /\ ExclusiveExecution
      /\ \A w \in owed : \E i \in Ids : Awaits(w, i)
  BY OwedParts
<1>2. NoBegin
  BY DEF NoBegin
<1>3. \A w \in owed : \E i \in Ids : Awaits(w, i)'
  BY <1>1, <1>2, SameRowClaim, StillAwaits
<1>4. ASSUME NEW t \in T, thread[t].pc \in Executing,
             rows[thread[t].job].status # "cancelled"
      PROVE  \A w : w = thread[t].task => \E i \in Ids : Awaits(w, i)'
  <2>1. PICK n \in Ids : n = thread[t].job
    BY <1>1, <1>4, ThreadFacts DEF Consistent
  <2>2. rows[n].work = thread[t].task /\ Owns(t, n)
    BY <1>1, <1>4, <2>1 DEF LeaseOwnership
  <2>3. ASSUME NEW u \in Threads, thread'[u].pc \in Executing
        PROVE  ~Owns(u, n)'
    <3>1. u \notin T /\ thread'[u] = thread[u] /\ u # t
      BY <2>3
    <3>2. thread[u].token # thread[t].token
      BY <1>1, <1>4, <2>3, <3>1, OwedParts, ThreadFacts
      DEF TokensUnique, Consistent
    <3>3. QED
      BY <2>2, <3>1, <3>2 DEF Owns
  <2>4. rows'[n].status = "running"
    BY <2>2 DEF Owns
  <2>5. \A w : w = thread[t].task => Awaits(w, n)'
    BY <2>2, <2>3, <2>4 DEF Awaits
  <2>6. QED
    BY <2>5
<1>5. ASSUME NEW w \in CutShort(T) PROVE \E i \in Ids : Awaits(w, i)'
  BY <1>4, <1>5 DEF CutShort
<1>6. \A w \in owed' : \E i \in Ids : Awaits(w, i)'
  BY <1>3, <1>5
<1>7. QED
  BY <1>6 DEF NoLostRequest, Awaits

LEMMA CrashOwed ==
  ASSUME OwedInv, \/ \E t \in Threads : Die(t)
                  \/ \E P \in Processes : Crash(P)
  PROVE  NoLostRequest'
<1>1. TypeOK
  BY OwedParts
<1>2. ASSUME NEW t \in Threads, Die(t) PROVE NoLostRequest'
  <2>1. thread'[t].pc = "dead" /\ \A u \in Threads \ {t} : thread'[u] = thread[u]
    BY <1>1, <1>2 DEF Die, TypeOK, IdleThread
  <2>2. QED
    BY <1>2, <2>1, PcsDiffer, GoneOwed DEF Die
<1>3. ASSUME NEW P \in Processes, Crash(P) PROVE NoLostRequest'
  <2>1. P \subseteq Threads
    BY ThreadsAssumption
  <2>2. /\ \A t \in P : thread'[t].pc = "idle"
        /\ \A t \in Threads \ P : thread'[t] = thread[t]
    BY <1>3, <2>1 DEF Crash, IdleThread
  <2>3. QED
    BY <1>3, <2>1, <2>2, PcsDiffer, GoneOwed DEF Crash
<1>4. QED
  BY <1>2, <1>3

\* A job taken back by the sweeper is queued again.
LEMMA SweepOwed ==
  ASSUME OwedInv, Sweep
  PROVE  NoLostRequest'
<1>1. TypeOK /\ \A w \in owed : \E i \in Ids : Awaits(w, i)
  BY OwedParts
<1>2. NoBegin
  BY DEF Sweep, NoBegin
<1>3. ASSUME NEW i \in Ids, Stale(i)
      PROVE  rows'[i].status = "queued" /\ rows'[i].work = rows[i].work
  <2>1. rows'[i] = [rows[i] EXCEPT !.status = "queued", !.token = NoToken, !.age = 0]
    BY <1>3 DEF Sweep
  <2>2. QED
    BY <1>1, <2>1, RowFacts DEF Row
<1>4. ASSUME NEW w, NEW i \in Ids, Awaits(w, i) PROVE Awaits(w, i)'
  <2>1. CASE Stale(i)
    BY <1>3, <1>4, <2>1 DEF Awaits
  <2>2. CASE ~Stale(i)
    <3>1. rows'[i] = rows[i]
      BY <2>2 DEF Sweep
    <3>2. QED
      BY <1>2, <1>4, <3>1, SameRowClaim, StillAwaits
  <2>3. QED
    BY <2>1, <2>2
<1>5. \A w \in owed' : \E i \in Ids : Awaits(w, i)'
  BY <1>1, <1>4 DEF Sweep
<1>6. QED
  BY <1>5 DEF NoLostRequest, Awaits

LEMMA CancelOwed ==
  ASSUME OwedInv, NEW w \in Cancellable, Cancel(w)
  PROVE  NoLostRequest'
<1>1. TypeOK /\ \A v \in owed : \E i \in Ids : Awaits(v, i)
  BY OwedParts
<1>2. NoBegin
  BY DEF Cancel, NoBegin
<1>3. ASSUME NEW v \in owed', NEW i \in Ids, Awaits(v, i) PROVE Awaits(v, i)'
  <2>1. rows[i].work # w
    BY <1>3 DEF Cancel, Awaits
  <2>2. rows'[i] = rows[i]
    BY <2>1 DEF Cancel
  <2>3. QED
    BY <1>2, <1>3, <2>2, SameRowClaim, StillAwaits
<1>4. \A v \in owed' : \E i \in Ids : Awaits(v, i)'
  BY <1>1, <1>3 DEF Cancel
<1>5. QED
  BY <1>4 DEF NoLostRequest, Awaits

\* A purge forgets the requests whose rows it takes.
LEMMA DeleteOwed ==
  ASSUME OwedInv, NEW D \in SUBSET Ids, Delete(D)
  PROVE  NoLostRequest'
<1>1. TypeOK /\ \A v \in owed : \E i \in Ids : Awaits(v, i)
  BY OwedParts
<1>2. NoBegin
  BY DEF Delete, NoBegin
<1>3. ASSUME NEW v \in owed', NEW i \in Ids, Awaits(v, i) PROVE Awaits(v, i)'
  <2>1. i \notin D
    BY <1>3 DEF Delete, Awaits
  <2>2. rows'[i] = rows[i]
    BY <2>1 DEF Delete
  <2>3. QED
    BY <1>2, <1>3, <2>2, SameRowClaim, StillAwaits
<1>4. \A v \in owed' : \E i \in Ids : Awaits(v, i)'
  BY <1>1, <1>3 DEF Delete
<1>5. QED
  BY <1>4 DEF NoLostRequest, Awaits

LEMMA TickOwed ==
  ASSUME OwedInv, Tick
  PROVE  NoLostRequest'
<1>1. TypeOK /\ \A w \in owed : \E i \in Ids : Awaits(w, i)
  BY OwedParts
<1>2. ASSUME NEW i \in Ids PROVE KeepsClaim(i)
  <2>1. rows'[i] = rows[i] \/ rows'[i] = [rows[i] EXCEPT !.age = @ + 1]
    BY DEF Tick
  <2>2. QED
    BY <1>1, <2>1, RowFacts DEF KeepsClaim, Row
<1>3. \A t \in Threads : thread'[t].pc = thread[t].pc /\ thread'[t].token = thread[t].token
  BY <1>1, ThreadFacts DEF Tick, ThreadState
<1>4. NoBegin
  BY <1>3 DEF NoBegin
<1>5. \A w \in owed' : \E i \in Ids : Awaits(w, i)'
  BY <1>1, <1>2, <1>4, StillAwaits DEF Tick
<1>6. QED
  BY <1>5 DEF NoLostRequest, Awaits

-------------------------------------------------------------------------------
LEMMA OwedStep ==
  ASSUME HeartbeatsCoverLease, OwedInv, [Next]_vars
  PROVE  OwedInv'
<1>1. LeaseInv'
  BY LeaseStep DEF OwedInv
<1>2. CASE \E t \in Threads : Step(t)
  BY <1>1, <1>2, ClaimOwed, BeginOwed, HandlerOwed, SettleOwed, RenewOwed, CrashOwed
  DEF Step, OwedInv
<1>3. CASE \E c \in Clients : \/ Insert(c)
                              \/ \E r \in Requests : Coalesce(c, r) \/ Decide(c, r)
  BY <1>1, <1>3, InsertOwed, CoalesceOwed DEF OwedInv
<1>4. CASE \/ \E S \in PurgeSets, K \in {Works} \cup {{w} : w \in Works} : Purge(S, K)
           \/ PurgeDone
  BY <1>1, <1>4, DeleteOwed DEF OwedInv, Purge, PurgeDone
<1>5. CASE \/ \E P \in Processes : Crash(P)
           \/ \E w \in Cancellable : Cancel(w)
           \/ Sweep \/ Tick
  BY <1>1, <1>5, CrashOwed, CancelOwed, SweepOwed, TickOwed DEF OwedInv
<1>6. CASE UNCHANGED vars
  BY <1>1, <1>6 DEF vars, OwedInv, NoLostRequest, Owns
<1>7. QED
  BY <1>2, <1>3, <1>4, <1>5, <1>6 DEF Next

\* Whatever crashes, dies or hits a lock, every request still owed a run has a
\* row that will be run from the start.
THEOREM NothingLost == HeartbeatsCoverLease /\ Spec => []NoLostRequest
<1>1. Init => OwedInv
  BY LeaseInit DEF OwedInv, Init, NoLostRequest
<1>2. HeartbeatsCoverLease /\ OwedInv /\ [Next]_vars => OwedInv'
  BY OwedStep
<1>3. OwedInv => NoLostRequest
  BY DEF OwedInv
<1>4. HeartbeatsCoverLease => []HeartbeatsCoverLease
  OBVIOUS
<1>5. QED
  BY <1>1, <1>2, <1>3, <1>4, PTL DEF Spec

-------------------------------------------------------------------------------
(***************************************************************************)
(* Only owners settle.                                                     *)
(***************************************************************************)
SettledByOwner(i) ==
  /\ rows'[i].status \in {"done", "failed"} =>
       \E t \in Threads : /\ Owns(t, i)
                          /\ thread[t].pc \in Settling
                          /\ thread'[t].pc = "idle"
  /\ rows'[i].status = "queued" =>
       \A t \in Threads : thread[t].pc \in Executing /\ thread[t].job = i =>
         thread[t].pc = "requeue" /\ thread'[t].pc = "idle"

\* No step but complete, fail and the sweeper's ends a run that way.
LEMMA OthersLeaveRunning ==
  ASSUME TypeOK, [Next]_vars, NEW i \in Ids, rows[i].status = "running",
         ~Sweep, \A t \in Threads : ~Complete(t) /\ ~Fail(t)
  PROVE  rows'[i].status \in {"running", "cancelled", "absent"}
<1>1. rows[i] \in Row
  BY RowFacts
<1>2. CASE UNCHANGED rows
  BY <1>2
<1>3. CASE \E c \in Clients : \/ Insert(c)
                              \/ \E r \in Requests : Coalesce(c, r) \/ Decide(c, r)
  <2>1. ASSUME NEW c \in Clients, NEW r \in Requests, Coalesce(c, r) \/ Decide(c, r)
        PROVE  rows'[i].status = "running"
    <3>1. rows'[i] = rows[i] \/ rows'[i] = [rows[i] EXCEPT !.prio = r.prio]
      BY <2>1 DEF Coalesce, Decide, TypeOK
    <3>2. QED
      BY <1>1, <3>1 DEF Row
  <2>2. ASSUME NEW c \in Clients, Insert(c)
        PROVE  rows'[i].status = "running"
    <3>1. PICK n \in Ids :
            /\ rows[n].status = "absent"
            /\ \E row : rows' = [rows EXCEPT ![n] = row]
      <4>1. \A n \in Ids : ~(n < n)
        BY BoundsAssumption
      <4>2. QED
        BY <2>2, <4>1 DEF Insert, IsNextId
    <3>2. QED
      BY <3>1 DEF TypeOK
  <2>3. QED
    BY <1>3, <2>1, <2>2
<1>4. CASE \/ \E S \in PurgeSets, K \in {Works} \cup {{w} : w \in Works} : Purge(S, K)
           \/ PurgeDone
  <2>1. \E D : Delete(D)
    BY <1>4 DEF Purge, PurgeDone
  <2>2. rows'[i] = NoRow \/ rows'[i] = rows[i]
    BY <2>1 DEF Delete
  <2>3. QED
    BY <2>2 DEF NoRow
<1>5. CASE \E w \in Cancellable : Cancel(w)
  <2>1. \/ rows'[i] = rows[i]
        \/ rows'[i] = [rows[i] EXCEPT !.status = "cancelled", !.token = NoToken]
    BY <1>5 DEF Cancel
  <2>2. QED
    BY <1>1, <2>1 DEF Row
<1>6. CASE Tick
  <2>1. rows'[i] = rows[i] \/ rows'[i] = [rows[i] EXCEPT !.age = @ + 1]
    BY <1>6 DEF Tick
  <2>2. QED
    BY <1>1, <2>1 DEF Row
<1>7. ASSUME NEW t \in Threads, Claim(t) PROVE rows'[i].status = "running"
  <2>1. PICK n \in Ids : /\ rows[n].status = "queued"
                         /\ \A j \in Ids \ {n} : rows'[j] = rows[j]
    BY <1>7 DEF Claim, IsBest, Claimable, TypeOK
  <2>2. QED
    BY <2>1 DEF TypeOK
<1>8. ASSUME NEW t \in Threads, Renew(t) PROVE rows'[i].status = "running"
  <2>1. rows'[i] = rows[i] \/ rows'[i] = [rows[i] EXCEPT !.age = 0]
    BY <1>8 DEF Renew, TypeOK
  <2>2. QED
    BY <1>1, <2>1 DEF Row
<1>9. QED
  BY <1>2, <1>3, <1>4, <1>5, <1>6, <1>7, <1>8
  DEF Next, Step, vars, Begin, ClaimLost, HandlerEnds, HandlerLocked, CompleteFails,
      Die, Crash

LEMMA SettlingSettles ==
  ASSUME LeaseInv, NEW t \in Threads, Complete(t) \/ Fail(t),
         NEW i \in Ids, rows[i].status = "running"
  PROVE  SettledByOwner(i)
<1>1. /\ TypeOK /\ LeaseOwnership /\ ExclusiveExecution
      /\ thread[t].pc \in Settling /\ thread[t].pc \in Executing
  BY DEF LeaseInv, Complete, Fail, Executing, Settling
<1>2. thread'[t].pc = "idle"
  BY <1>1 DEF Complete, Fail, TypeOK, IdleThread
<1>3. CASE thread[t].job # i
  <2>1. rows'[i] = rows[i]
    BY <1>1, <1>3, ThreadFacts DEF Complete, Fail, TypeOK, Consistent
  <2>2. QED
    BY <2>1 DEF SettledByOwner
<1>4. CASE thread[t].job = i
  <2>1. Owns(t, i)
    BY <1>1, <1>4 DEF LeaseOwnership
  <2>2. ASSUME NEW u \in Threads, thread[u].pc \in Executing, thread[u].job = i
        PROVE  u = t
    BY <1>1, <1>4, <2>2 DEF ExclusiveExecution
  <2>3. thread[t].pc # "requeue" => rows'[i].status # "queued"
    <3>1. SUFFICES ASSUME thread[t].pc # "requeue"
                   PROVE  \E s \in {"done", "failed"} :
                            rows'[i] = [rows[i] EXCEPT !.status = s, !.token = NoToken]
      BY <1>1, RowFacts DEF Row
    <3>2. QED
      BY <1>1, <1>4, <3>1 DEF Complete, Fail, TypeOK
  <2>4. QED
    BY <1>1, <1>2, <2>1, <2>2, <2>3 DEF SettledByOwner
<1>5. QED
  BY <1>3, <1>4

LEMMA SweepSettles ==
  ASSUME HeartbeatsCoverLease, LeaseInv, Sweep, NEW i \in Ids, rows[i].status = "running"
  PROVE  SettledByOwner(i)
<1>1. TypeOK
  BY DEF LeaseInv
<1>2. CASE ~Stale(i)
  <2>1. rows'[i] = rows[i]
    BY <1>2 DEF Sweep
  <2>2. QED
    BY <2>1 DEF SettledByOwner
<1>3. CASE Stale(i)
  <2>1. rows'[i] = [rows[i] EXCEPT !.status = "queued", !.token = NoToken, !.age = 0]
    BY <1>3 DEF Sweep
  <2>2. rows'[i].status = "queued"
    BY <1>1, <2>1, RowFacts DEF Row
  <2>3. QED
    BY <1>3, <2>2, StaleIsUnattended DEF SettledByOwner
<1>4. QED
  BY <1>2, <1>3

\* A running job ends by its owner's hand, or goes back to the queue when
\* nobody works on it.
THEOREM OnlyOwnersSettle == HeartbeatsCoverLease /\ Spec => OwnerSettles
<1>1. ASSUME HeartbeatsCoverLease, LeaseInv, [Next]_vars,
             NEW i \in Ids, rows[i].status = "running"
      PROVE  SettledByOwner(i)
  <2>1. CASE \E t \in Threads : Complete(t) \/ Fail(t)
    BY <1>1, <2>1, SettlingSettles
  <2>2. CASE Sweep
    BY <1>1, <2>2, SweepSettles
  <2>3. CASE ~Sweep /\ \A t \in Threads : ~Complete(t) /\ ~Fail(t)
    <3>1. rows'[i].status \in {"running", "cancelled", "absent"}
      BY <1>1, <2>3, OthersLeaveRunning DEF LeaseInv
    <3>2. QED
      BY <3>1 DEF SettledByOwner
  <2>4. QED
    BY <2>1, <2>2, <2>3
<1>2. HeartbeatsCoverLease /\ LeaseInv /\ [Next]_vars =>
        [\A i \in Ids : rows[i].status = "running" =>
           /\ rows'[i].status \in {"done", "failed"} =>
                \E t \in Threads : /\ Owns(t, i)
                                   /\ thread[t].pc \in Settling
                                   /\ thread'[t].pc = "idle"
           /\ rows'[i].status = "queued" =>
                \A t \in Threads : thread[t].pc \in Executing /\ thread[t].job = i =>
                  thread[t].pc = "requeue" /\ thread'[t].pc = "idle"]_vars
  BY <1>1 DEF SettledByOwner
<1>3. HeartbeatsCoverLease => []HeartbeatsCoverLease
  OBVIOUS
<1>4. QED
  BY <1>2, <1>3, LeasesHold, PTL DEF Spec, OwnerSettles

-------------------------------------------------------------------------------
(***************************************************************************)
(* JobQueue implements LeasedJobs under HeartbeatsCoverLease, for every    *)
(* number of threads and jobs: each step of the queue is a step of the     *)
(* promise or changes nothing that the promise speaks of.                  *)
(***************************************************************************)
(***************************************************************************)
(* Who holds a job.                                                        *)
(***************************************************************************)
LEMMA Phases ==
  ASSUME NEW i \in Ids
  PROVE  /\ rows[i].status = "absent" => Phase(i) = "absent"
         /\ rows[i].status = "queued" => Phase(i) = "waiting"
         /\ rows[i].status = "running" => Phase(i) = "held"
         /\ rows[i].status \in {"done", "failed", "cancelled"} => Phase(i) = "settled"
  BY DEF Phase

\* Tokens are not shared, and threads execute different jobs.
LEMMA OneHolder ==
  ASSUME LeaseInv, NEW i \in Ids, NEW t \in Holders(i), NEW u \in Holders(i)
  PROVE  t = u
<1>1. TypeOK /\ TokensUnique /\ LeaseOwnership /\ ExclusiveExecution
  BY DEF LeaseInv
<1>2. t \in Threads /\ u \in Threads
  BY DEF Holders
<1>3. ASSUME NEW x \in Threads, thread[x].pc = "fetch", Owns(x, i)
      PROVE  rows[i].token = thread[x].token /\ thread[x].token # NoToken
  BY <1>1, <1>3, ThreadFacts DEF Owns, Consistent
<1>4. ASSUME NEW x \in Threads, thread[x].pc \in Executing, thread[x].job = i,
             rows[i].status = "running"
      PROVE  rows[i].token = thread[x].token
  BY <1>1, <1>4 DEF LeaseOwnership, Owns
<1>5. CASE thread[t].pc = "fetch" \/ thread[u].pc = "fetch"
  <2>1. rows[i].status = "running" /\ rows[i].token # NoToken
    BY <1>2, <1>3, <1>5, PcsDiffer DEF Holders, Owns
  <2>2. thread[t].token = rows[i].token /\ thread[u].token = rows[i].token
    BY <1>2, <1>4, <2>1 DEF Holders, Owns
  <2>3. QED
    BY <1>1, <1>2, <2>1, <2>2 DEF TokensUnique
<1>6. CASE thread[t].pc # "fetch" /\ thread[u].pc # "fetch"
  BY <1>1, <1>2, <1>6 DEF Holders, ExclusiveExecution
<1>7. QED
  BY <1>5, <1>6

LEMMA HolderIs ==
  ASSUME LeaseInv, NEW i \in Ids
  PROVE  /\ Holders(i) = {} => Holder(i) = NoToken
         /\ \A t \in Holders(i) : Holder(i) = t
         /\ Holder(i) \in Threads \cup {NoToken}
         /\ Holder(i) \in Threads => Holder(i) \in Holders(i)
<1>1. Holders(i) = {} => Holder(i) = NoToken /\ Holder(i) \notin Threads
  BY ThreadsAssumption DEF Holder
<1>2. ASSUME NEW t \in Holders(i) PROVE Holder(i) = t /\ t \in Threads
  <2>1. t \in Threads
    BY DEF Holders
  <2>2. Holder(i) \in Holders(i)
    BY <2>1 DEF Holder
  <2>3. QED
    BY <2>1, <2>2, OneHolder
<1>3. QED
  BY <1>1, <1>2

\* Who holds a job depends on the threads' jobs and tokens and on the row.
LEMMA SameHolders ==
  ASSUME NEW i \in Ids, Holders(i)' = Holders(i)
  PROVE  Holder(i)' = Holder(i)
  BY DEF Holder

-------------------------------------------------------------------------------
(***************************************************************************)
(* The promise's steps, told of each job's phase and holder.               *)
(***************************************************************************)
SamePlace(i) == Phase(i)' = Phase(i) /\ Holder(i)' = Holder(i)

LEMMA Nothing ==
  ASSUME \A i \in Ids : SamePlace(i)
  PROVE  UNCHANGED Promise!vars
  BY DEF SamePlace, Promise!vars

LEMMA IsPost ==
  ASSUME NEW j \in Ids, Phase(j) = "absent", Phase(j)' = "waiting",
         Holder(j)' = Holder(j), \A i \in Ids \ {j} : SamePlace(i)
  PROVE  Promise!Next
<1>1. Promise!Post(j)
  BY DEF Promise!Post, SamePlace
<1>2. QED
  BY <1>1 DEF Promise!Next

LEMMA IsTake ==
  ASSUME NEW w \in Threads, NEW j \in Ids, Phase(j) = "waiting", Phase(j)' = "held",
         Holder(j) = NoToken, Holder(j)' = w, \A i \in Ids : Holder(i) # w,
         \A i \in Ids \ {j} : SamePlace(i)
  PROVE  Promise!Next
<1>1. Promise!Take(w, j)
  BY DEF Promise!Take, SamePlace
<1>2. QED
  BY <1>1 DEF Promise!Next

LEMMA IsLeave ==
  ASSUME NEW w \in Threads, NEW j \in Ids, Phase(j) \in {"held", "settled"},
         Phase(j)' \in {"waiting", "settled"},
         Holder(j) = w, Holder(j)' = NoToken, \A i \in Ids \ {j} : SamePlace(i)
  PROVE  Promise!Next
<1>1. Promise!Leave(w, j)
  BY DEF Promise!Leave, SamePlace
<1>2. QED
  BY <1>1 DEF Promise!Next

LEMMA IsVanish ==
  ASSUME NEW W \in SUBSET Threads,
         \A i \in Ids : /\ Phase(i)' = Phase(i)
                        /\ Holder(i)' = IF Holder(i) \in W THEN NoToken ELSE Holder(i)
  PROVE  Promise!Next
<1>1. Promise!Vanish(W)
  BY DEF Promise!Vanish
<1>2. QED
  BY <1>1 DEF Promise!Next

LEMMA IsRecover ==
  ASSUME NEW J \in SUBSET Ids,
         \A i \in J : Phase(i) = "held" /\ Phase(i)' = "waiting",
         \A i \in J : Holder(i) = NoToken /\ Holder(i)' = NoToken,
         \A i \in Ids \ J : SamePlace(i)
  PROVE  Promise!Next
<1>1. Promise!Recover(J)
  BY DEF Promise!Recover, SamePlace
<1>2. QED
  BY <1>1 DEF Promise!Next

LEMMA IsCancel ==
  ASSUME NEW J \in SUBSET Ids,
         \A i \in J : Phase(i) \in {"waiting", "held"} /\ Phase(i)' = "settled",
         \A i \in J : Holder(i)' \in {Holder(i), NoToken},
         \A i \in Ids : Holder(i)' \in Threads \cup {NoToken},
         \A i \in Ids \ J : SamePlace(i)
  PROVE  Promise!Next
<1>1. Promise!Cancel(J)
  BY DEF Promise!Cancel, SamePlace
<1>2. QED
  BY <1>1 DEF Promise!Next

LEMMA IsForget ==
  ASSUME NEW J \in SUBSET Ids,
         \A i \in J : Phase(i) \in {"waiting", "settled"} /\ Phase(i)' = "absent",
         \A i \in J : Holder(i) = NoToken /\ Holder(i)' = NoToken,
         \A i \in Ids \ J : SamePlace(i)
  PROVE  Promise!Next
<1>1. Promise!Forget(J)
  BY DEF Promise!Forget, SamePlace
<1>2. QED
  BY <1>1 DEF Promise!Next

-------------------------------------------------------------------------------
(***************************************************************************)
(* Steps that keep every job in its place.                                 *)
(***************************************************************************)
SameClaim(i) == rows'[i].status = rows[i].status /\ rows'[i].token = rows[i].token

SameDuty(t) ==
  /\ thread'[t].token = thread[t].token /\ thread'[t].job = thread[t].job
  /\ thread'[t].pc = "fetch" <=> thread[t].pc = "fetch"
  /\ thread'[t].pc \in Executing <=> thread[t].pc \in Executing

LEMMA SameRowPlace ==
  ASSUME NEW i \in Ids, SameClaim(i), \A t \in Threads : SameDuty(t)
  PROVE  SamePlace(i)
<1>1. Phase(i)' = Phase(i)
  BY DEF Phase, SameClaim
<1>2. Holders(i)' = Holders(i)
  BY DEF Holders, Owns, SameClaim, SameDuty
<1>3. QED
  BY <1>1, <1>2, SameHolders DEF SamePlace

LEMMA KeepsPlaces ==
  ASSUME \A i \in Ids : SameClaim(i), \A t \in Threads : SameDuty(t)
  PROVE  UNCHANGED Promise!vars
  BY SameRowPlace, Nothing

LEMMA SameThreads ==
  ASSUME thread' = thread
  PROVE  \A t \in Threads : SameDuty(t)
  BY DEF SameDuty

LEMMA RequestPromise ==
  ASSUME TypeOK, NEW c \in Clients, NEW r \in Requests, Coalesce(c, r) \/ Decide(c, r)
  PROVE  UNCHANGED Promise!vars
<1>1. thread' = thread
  BY DEF Coalesce, Decide
<1>2. ASSUME NEW i \in Ids PROVE SameClaim(i)
  <2>1. rows'[i] = rows[i] \/ rows'[i] = [rows[i] EXCEPT !.prio = r.prio]
    BY DEF Coalesce, Decide, TypeOK
  <2>2. QED
    BY <2>1, RowFacts DEF SameClaim, Row
<1>3. QED
  BY <1>1, <1>2, SameThreads, KeepsPlaces

LEMMA HandlerPromise ==
  ASSUME TypeOK, NEW t \in Threads,
         HandlerEnds(t) \/ HandlerLocked(t) \/ CompleteFails(t)
  PROVE  UNCHANGED Promise!vars
<1>1. rows' = rows
  BY DEF HandlerEnds, HandlerLocked, CompleteFails
<1>2. \E q \in Settling :
        \/ thread' = [thread EXCEPT ![t] = [@ EXCEPT !.pc = q, !.timer = 0]]
        \/ thread' = [thread EXCEPT ![t].pc = q]
  BY DEF HandlerEnds, HandlerLocked, CompleteFails, Settling
<1>3. thread[t].pc \in Executing
  BY DEF HandlerEnds, HandlerLocked, CompleteFails, Executing, Settling
<1>4. ASSUME NEW u \in Threads PROVE SameDuty(u)
  <2>1. CASE u = t
    <3>1. \E q \in Settling : \/ thread'[t] = [thread[t] EXCEPT !.pc = q, !.timer = 0]
                              \/ thread'[t] = [thread[t] EXCEPT !.pc = q]
      BY <1>2 DEF TypeOK
    <3>2. QED
      BY <1>3, <2>1, <3>1, ThreadFacts, PcsDiffer DEF SameDuty, ThreadState
  <2>2. CASE u # t
    BY <1>2, <2>2 DEF SameDuty, TypeOK
  <2>3. QED
    BY <2>1, <2>2
<1>5. QED
  BY <1>1, <1>4, KeepsPlaces DEF SameClaim

LEMMA RenewPromise ==
  ASSUME TypeOK, NEW t \in Threads, Renew(t)
  PROVE  UNCHANGED Promise!vars
<1>1. thread[t].pc = "run" /\ thread[t].job \in Ids
  BY ThreadFacts, PcsDiffer DEF Renew, Consistent
<1>2. ASSUME NEW i \in Ids PROVE SameClaim(i)
  <2>1. rows'[i] = rows[i] \/ rows'[i] = [rows[i] EXCEPT !.age = 0]
    BY <1>1 DEF Renew, TypeOK
  <2>2. QED
    BY <2>1, RowFacts DEF SameClaim, Row
<1>3. ASSUME NEW u \in Threads PROVE SameDuty(u)
  <2>1. thread'[u] = thread[u] \/ thread'[u] = [thread[u] EXCEPT !.timer = 0]
    BY DEF Renew, TypeOK
  <2>2. QED
    BY <2>1, ThreadFacts DEF SameDuty, ThreadState
<1>4. QED
  BY <1>2, <1>3, KeepsPlaces

LEMMA TickPromise ==
  ASSUME TypeOK, Tick
  PROVE  UNCHANGED Promise!vars
<1>1. ASSUME NEW i \in Ids PROVE SameClaim(i)
  <2>1. rows'[i] = rows[i] \/ rows'[i] = [rows[i] EXCEPT !.age = @ + 1]
    BY DEF Tick
  <2>2. QED
    BY <2>1, RowFacts DEF SameClaim, Row
<1>2. ASSUME NEW u \in Threads PROVE SameDuty(u)
  <2>1. thread'[u] = thread[u] \/ thread'[u] = [thread[u] EXCEPT !.timer = @ + 1]
    BY DEF Tick
  <2>2. QED
    BY <2>1, ThreadFacts DEF SameDuty, ThreadState
<1>3. QED
  BY <1>1, <1>2, KeepsPlaces

\* A thread that fetches its job holds it as it did, and goes on to run it.
LEMMA BeginPromise ==
  ASSUME LeaseInv, NEW t \in Threads, Begin(t)
  PROVE  UNCHANGED Promise!vars
<1>1. TypeOK /\ TokensUnique
  BY DEF LeaseInv
<1>2. PICK n \in Ids :
        /\ rows[n].token = thread[t].token
        /\ thread' = [thread EXCEPT ![t] = [@ EXCEPT !.pc = "run", !.job = n,
                                                     !.task = rows[n].work]]
  BY DEF Begin
<1>3. /\ thread[t].pc = "fetch" /\ rows' = rows /\ thread[t].token # NoToken
  BY <1>1, ThreadFacts DEF Begin, Consistent
<1>4. /\ thread'[t].pc = "run" /\ thread'[t].job = n
      /\ \A u \in Threads \ {t} : thread'[u] = thread[u]
  BY <1>1, <1>2, ThreadFacts DEF TypeOK, ThreadState
<1>5. Owns(t, n) /\ \A i \in Ids \ {n} : ~Owns(t, i)
  BY <1>1, <1>2, <1>3, RowFacts DEF Owns, WellFormed, TokensUnique
<1>6. ASSUME NEW i \in Ids PROVE SamePlace(i)
  <2>1. Phase(i)' = Phase(i)
    BY <1>3 DEF Phase
  <2>2. ASSUME NEW u \in Threads PROVE u \in Holders(i)' <=> u \in Holders(i)
    <3>1. CASE u = t
      BY <1>3, <1>4, <1>5, <3>1, PcsDiffer DEF Holders
    <3>2. CASE u # t
      BY <1>3, <1>4, <3>2 DEF Holders, Owns
    <3>3. QED
      BY <3>1, <3>2
  <2>3. Holders(i)' = Holders(i)
    BY <2>2 DEF Holders
  <2>4. QED
    BY <2>1, <2>3, SameHolders DEF SamePlace
<1>7. QED
  BY <1>6, Nothing

-------------------------------------------------------------------------------
(***************************************************************************)
(* Steps of the promise that threads take.                                 *)
(***************************************************************************)
\* A thread finds its claim gone, dies, or is killed with its process.
LEMMA GonePromise ==
  ASSUME LeaseInv, LeaseInv', NEW W \in SUBSET Threads, rows' = rows,
         \A t \in W : thread'[t].pc \in {"idle", "dead"},
         \A t \in Threads \ W : thread'[t] = thread[t]
  PROVE  Promise!Next
<1>1. ASSUME NEW i \in Ids
      PROVE  Holders(i)' = Holders(i) \ W
  <2>1. \A t \in W : t \notin Holders(i)'
    BY PcsDiffer DEF Holders
  <2>2. \A t \in Threads \ W : t \in Holders(i)' <=> t \in Holders(i)
    BY DEF Holders, Owns
  <2>3. QED
    BY <2>1, <2>2 DEF Holders
<1>2. ASSUME NEW i \in Ids
      PROVE  Holder(i)' = IF Holder(i) \in W THEN NoToken ELSE Holder(i)
  <2>1. CASE Holders(i)' = {}
    <3>1. Holder(i)' = NoToken
      BY <2>1 DEF Holder
    <3>2. Holder(i) \in W \/ Holder(i) = NoToken
      BY <1>1, <2>1, HolderIs
    <3>3. QED
      BY <3>1, <3>2
  <2>2. CASE Holders(i)' # {}
    <3>1. PICK t \in Holders(i)' : TRUE
      BY <2>2
    <3>2. t \in Holders(i) /\ t \notin W
      BY <1>1, <3>1
    <3>3. Holder(i) = t /\ Holder(i)' = t
      <4>1. Holder(i) = t
        BY <3>2, HolderIs
      <4>2. \A u \in Holders(i)' : u = t
        BY <1>1, <3>2, OneHolder
      <4>3. t \in Threads
        BY <3>2 DEF Holders
      <4>4. QED
        BY <3>1, <4>1, <4>2, <4>3 DEF Holder
    <3>4. QED
      BY <3>2, <3>3
  <2>3. QED
    BY <2>1, <2>2
<1>3. \A i \in Ids : Phase(i)' = Phase(i)
  BY DEF Phase
<1>4. QED
  BY <1>2, <1>3, IsVanish

LEMMA GoneSteps ==
  ASSUME LeaseInv, LeaseInv',
         \/ \E t \in Threads : ClaimLost(t) \/ Die(t)
         \/ \E P \in Processes : Crash(P)
  PROVE  Promise!Next
<1>1. TypeOK
  BY DEF LeaseInv
<1>2. ASSUME NEW t \in Threads, ClaimLost(t) \/ Die(t)
      PROVE  Promise!Next
  <2>1. rows' = rows
    BY <1>2 DEF ClaimLost, Die
  <2>2. thread'[t].pc \in {"idle", "dead"}
    BY <1>1, <1>2 DEF ClaimLost, Die, IdleThread, TypeOK
  <2>3. \A u \in Threads \ {t} : thread'[u] = thread[u]
    BY <1>1, <1>2 DEF ClaimLost, Die, TypeOK
  <2> DEFINE W == {t}
  <2>4. W \in SUBSET Threads /\ \A u \in W : thread'[u].pc \in {"idle", "dead"}
    BY <2>2
  <2>5. \A u \in Threads \ W : thread'[u] = thread[u]
    BY <2>3
  <2> HIDE DEF W
  <2>6. QED
    BY <2>1, <2>4, <2>5, GonePromise
<1>3. ASSUME NEW P \in Processes, Crash(P)
      PROVE  Promise!Next
  <2>1. rows' = rows /\ P \in SUBSET Threads
    BY <1>3, ThreadsAssumption DEF Crash
  <2>2. \A u \in P : thread'[u].pc \in {"idle", "dead"}
    BY <1>3, <2>1 DEF Crash, IdleThread
  <2>3. \A u \in Threads \ P : thread'[u] = thread[u]
    BY <1>3 DEF Crash
  <2>4. QED
    BY <2>1, <2>2, <2>3, GonePromise
<1>4. QED
  BY <1>2, <1>3

\* Nobody holds a job that waits or was never posted.
LEMMA Unheld ==
  ASSUME LeaseInv, NEW i \in Ids, rows[i].status \notin {"running", "cancelled"}
  PROVE  Holders(i) = {} /\ Holder(i) = NoToken
<1>1. \A t \in Threads : thread[t].pc \in Executing => thread[t].job # i
  BY NobodyThere DEF LeaseInv
<1>2. Holders(i) = {}
  BY <1>1 DEF Holders, Owns
<1>3. QED
  BY <1>2 DEF Holder

LEMMA ClaimPromise ==
  ASSUME LeaseInv, LeaseInv', NEW t \in Threads, Claim(t)
  PROVE  Promise!Next
<1>1. TypeOK
  BY DEF LeaseInv
<1>2. PICK n \in Ids, k \in Tokens :
        /\ IsBest(n, Claimable(t)) /\ Fresh(k)
        /\ rows' = [rows EXCEPT ![n] = [@ EXCEPT !.status = "running",
                                                 !.token = k, !.age = 0]]
        /\ thread' = [thread EXCEPT ![t] = [IdleThread EXCEPT !.pc = "fetch",
                                                              !.token = k]]
  BY DEF Claim
<1>3. rows[n].status = "queued" /\ thread[t].pc = "idle"
  BY <1>2 DEF IsBest, Claimable, Claim
<1>4. /\ rows'[n].status = "running" /\ rows'[n].token = k
      /\ \A i \in Ids \ {n} : rows'[i] = rows[i]
  BY <1>1, <1>2, RowFacts DEF TypeOK, Row
<1>5. /\ thread'[t].pc = "fetch" /\ thread'[t].token = k
      /\ \A u \in Threads \ {t} : thread'[u] = thread[u]
  BY <1>1, <1>2 DEF TypeOK, IdleThread
<1>6. \A i \in Ids : rows[i].token # k
  BY <1>2 DEF Fresh
<1>7. \A i \in Ids : t \notin Holders(i)
  BY <1>3, PcsDiffer DEF Holders
<1>8. Phase(n) = "waiting" /\ Phase(n)' = "held"
  BY <1>3, <1>4 DEF Phase
<1>9. Holder(n) = NoToken
  BY <1>3, Unheld
<1>10. Holder(n)' = t
  <2>1. t \in Holders(n)'
    BY <1>4, <1>5 DEF Holders, Owns
  <2>2. \A u \in Holders(n)' : u = t
    <3>1. Holders(n) = {}
      BY <1>3, Unheld
    <3>2. ASSUME NEW u \in Threads \ {t}, u \in Holders(n)' PROVE FALSE
      <4>1. thread[u].pc \notin Executing \/ thread[u].job # n
        BY <3>1, <3>2 DEF Holders
      <4>2. thread[u].token = k
        BY <1>4, <1>5, <3>2, <4>1 DEF Holders, Owns
      <4>3. QED
        BY <1>2, <4>2 DEF Fresh
    <3>3. QED
      BY <3>2 DEF Holders
  <2>3. QED
    BY <2>1, <2>2 DEF Holder
<1>11. ASSUME NEW i \in Ids \ {n} PROVE SamePlace(i)
  <2>1. Phase(i)' = Phase(i)
    BY <1>4 DEF Phase
  <2>2. t \notin Holders(i)'
    BY <1>4, <1>5, <1>6, PcsDiffer DEF Holders, Owns
  <2>3. \A u \in Threads \ {t} : u \in Holders(i)' <=> u \in Holders(i)
    BY <1>4, <1>5 DEF Holders, Owns
  <2>4. Holders(i)' = Holders(i)
    BY <1>7, <2>2, <2>3 DEF Holders
  <2>5. QED
    BY <2>1, <2>4, SameHolders DEF SamePlace
<1>12. \A i \in Ids : Holder(i) # t
  BY <1>7, HolderIs
<1>13. QED
  BY <1>8, <1>9, <1>10, <1>11, <1>12, IsTake

\* The settling write: the thread leaves its job, settled or waiting again.
LEMMA SettlePromise ==
  ASSUME LeaseInv, LeaseInv', NEW t \in Threads, Complete(t) \/ Fail(t)
  PROVE  Promise!Next
<1>1. TypeOK /\ LeaseOwnership /\ ExclusiveExecution
  BY DEF LeaseInv
<1>2. PICK n \in Ids : n = thread[t].job /\ thread[t].pc \in Executing
  BY <1>1, ThreadFacts DEF Complete, Fail, Consistent, Executing, Settling
<1>3. /\ thread'[t].pc = "idle"
      /\ \A u \in Threads \ {t} : thread'[u] = thread[u]
  BY <1>1 DEF Complete, Fail, IdleThread, TypeOK
<1>4. \A i \in Ids \ {n} : rows'[i] = rows[i]
  BY <1>1, <1>2 DEF Complete, Fail, TypeOK
<1>5. rows[n].status \in {"running", "cancelled"}
  BY <1>1, <1>2 DEF LeaseOwnership, Owns
<1>6. rows'[n].status \in {"queued", "done", "failed", "cancelled"}
  <2>1. \/ rows'[n] = rows[n] /\ rows[n].status # "running"
        \/ \E s \in {"queued", "done", "failed"} :
             rows'[n] = [rows[n] EXCEPT !.status = s, !.token = NoToken]
    BY <1>1, <1>2, <1>5 DEF Complete, Fail, TypeOK
  <2>2. QED
    BY <1>1, <1>2, <1>5, <2>1, RowFacts DEF Row
<1>7. Phase(n) \in {"held", "settled"} /\ Phase(n)' \in {"waiting", "settled"}
  BY <1>5, <1>6 DEF Phase
<1>8. t \in Holders(n)
  BY <1>2 DEF Holders
<1>9. Holder(n) = t
  BY <1>2, <1>8, HolderIs
<1>10. Holders(n)' = {}
  <2>1. t \notin Holders(n)'
    BY <1>3, PcsDiffer DEF Holders
  <2>2. ASSUME NEW u \in Threads \ {t}, u \in Holders(n)' PROVE FALSE
    <3>1. thread[u].pc \in Executing /\ thread[u].job = n
      BY <1>3, <1>6, <2>2 DEF Holders, Owns
    <3>2. QED
      BY <1>1, <1>2, <3>1 DEF ExclusiveExecution
  <2>3. QED
    BY <2>1, <2>2 DEF Holders
<1>11. Holder(n)' = NoToken
  BY <1>10 DEF Holder
<1>12. ASSUME NEW i \in Ids \ {n} PROVE SamePlace(i)
  <2>1. Phase(i)' = Phase(i)
    BY <1>4 DEF Phase
  <2>2. t \notin Holders(i) /\ t \notin Holders(i)'
    BY <1>2, <1>3, PcsDiffer DEF Holders
  <2>3. \A u \in Threads \ {t} : u \in Holders(i)' <=> u \in Holders(i)
    BY <1>3, <1>4 DEF Holders, Owns
  <2>4. Holders(i)' = Holders(i)
    BY <2>2, <2>3 DEF Holders
  <2>5. QED
    BY <2>1, <2>4, SameHolders DEF SamePlace
<1>13. QED
  BY <1>2, <1>7, <1>9, <1>11, <1>12, IsLeave

-------------------------------------------------------------------------------
(***************************************************************************)
(* Steps of the promise that change the table under the threads.           *)
(***************************************************************************)
LEMMA InsertPromise ==
  ASSUME LeaseInv, LeaseInv', NEW c \in Clients, Insert(c)
  PROVE  Promise!Next
<1>1. TypeOK /\ thread' = thread
  BY DEF LeaseInv, Insert
<1>2. PICK n \in Ids : /\ IsNextId(n)
                       /\ rows' = [rows EXCEPT ![n] = [NoRow EXCEPT !.status = "queued",
                                                         !.work = asking[c].work,
                                                         !.prio = asking[c].prio]]
  BY DEF Insert
<1>3. rows[n].status = "absent"
  BY <1>2, BoundsAssumption DEF IsNextId
<1>4. rows'[n].status = "queued" /\ \A i \in Ids \ {n} : rows'[i] = rows[i]
  BY <1>1, <1>2 DEF TypeOK, NoRow
<1>5. Phase(n) = "absent" /\ Phase(n)' = "waiting"
  BY <1>3, <1>4 DEF Phase
<1>6. Holders(n) = {} /\ Holder(n) = NoToken
  BY <1>3, Unheld
<1>7. Holders(n)' = {}
  BY <1>1, <1>4, <1>6 DEF Holders, Owns
<1>8. Holder(n)' = Holder(n)
  BY <1>6, <1>7, SameHolders
<1>9. \A i \in Ids \ {n} : SamePlace(i)
  BY <1>1, <1>4, SameThreads, SameRowPlace DEF SameClaim
<1>10. QED
  BY <1>5, <1>8, <1>9, IsPost

\* A fetching thread loses sight of a cancelled row; one that runs its handler
\* still works on it.
LEMMA CancelPromise ==
  ASSUME LeaseInv, LeaseInv', NEW w \in Cancellable, Cancel(w)
  PROVE  Promise!Next
<1>1. TypeOK /\ thread' = thread
  BY DEF LeaseInv, Cancel
<1> DEFINE Hit(i) == rows[i].work = w /\ rows[i].status \in {"queued", "running"}
<1>2. PICK J \in SUBSET Ids : J = {i \in Ids : Hit(i)}
  OBVIOUS
<1>3. ASSUME NEW i \in J
      PROVE  rows[i].status \in {"queued", "running"} /\ rows'[i].status = "cancelled"
  <2>1. rows'[i] = [rows[i] EXCEPT !.status = "cancelled", !.token = NoToken]
    BY <1>2 DEF Cancel
  <2>2. QED
    BY <1>1, <1>2, <2>1, RowFacts DEF Row
<1>4. \A i \in J : Phase(i) \in {"waiting", "held"} /\ Phase(i)' = "settled"
  BY <1>3 DEF Phase
<1>5. \A i \in Ids : Holder(i)' \in Threads \cup {NoToken}
  BY DEF Holder
<1>6. ASSUME NEW i \in J PROVE Holder(i)' \in {Holder(i), NoToken}
  <2>1. \A t \in Holders(i)' : t \in Holders(i)
    BY <1>1, <1>3 DEF Holders, Owns
  <2>2. CASE Holders(i)' = {}
    BY <2>2 DEF Holder
  <2>3. CASE Holders(i)' # {}
    <3>1. Holder(i)' \in Holders(i)'
      BY <2>3 DEF Holder, Holders
    <3>2. QED
      BY <1>2, <2>1, <3>1, HolderIs
  <2>4. QED
    BY <2>2, <2>3
<1>7. \A i \in Ids \ J : SamePlace(i)
  <2>1. \A i \in Ids \ J : rows'[i] = rows[i]
    BY <1>2 DEF Cancel
  <2>2. QED
    BY <1>1, <2>1, SameThreads, SameRowPlace DEF SameClaim
<1>8. QED
  BY <1>4, <1>5, <1>6, <1>7, IsCancel

LEMMA DeletePromise ==
  ASSUME LeaseInv, LeaseInv', NEW D \in SUBSET Ids, Delete(D),
         \A i \in D : rows[i].status \in {"queued", "failed", "done"}
  PROVE  Promise!Next
<1>1. thread' = thread
  BY DEF Delete
<1>2. \A i \in D : rows'[i].status = "absent"
  BY DEF Delete, NoRow
<1>3. \A i \in D : Phase(i) \in {"waiting", "settled"} /\ Phase(i)' = "absent"
  BY <1>2 DEF Phase
<1>4. ASSUME NEW i \in D PROVE Holder(i) = NoToken /\ Holder(i)' = NoToken
  <2>1. Holders(i) = {} /\ Holder(i) = NoToken
    BY Unheld
  <2>2. Holders(i)' = {}
    BY <1>1, <1>2, <2>1 DEF Holders, Owns
  <2>3. QED
    BY <2>1, <2>2 DEF Holder
<1>5. \A i \in Ids \ D : SamePlace(i)
  <2>1. \A i \in Ids \ D : rows'[i] = rows[i]
    BY DEF Delete
  <2>2. QED
    BY <1>1, <2>1, SameThreads, SameRowPlace DEF SameClaim
<1>6. QED
  BY <1>3, <1>4, <1>5, IsForget

LEMMA PurgePromise ==
  ASSUME HeartbeatsCoverLease, LeaseInv, LeaseInv',
         \/ \E S \in PurgeSets, K \in {Works} \cup {{w} : w \in Works} : Purge(S, K)
         \/ PurgeDone
  PROVE  Promise!Next
<1>1. CASE PurgeDone
  <2>1. PICK D \in SUBSET {i \in Ids : rows[i].status = "done"} : Delete(D)
    BY <1>1 DEF PurgeDone
  <2>2. D \in SUBSET Ids /\ \A i \in D : rows[i].status = "done"
    BY <2>1
  <2>3. QED
    BY <2>1, <2>2, DeletePromise
<1>2. ASSUME NEW S \in PurgeSets, NEW K, Purge(S, K)
      PROVE  Promise!Next
  <2>1. S \subseteq {"queued", "failed", "done"}
    BY WorksAssumption DEF HeartbeatsCoverLease, Purgeable
  <2>2. PICK D \in SUBSET Ids : D = {i \in Ids : rows[i].status \in S /\ rows[i].work \in K}
    OBVIOUS
  <2>3. Delete(D)
    BY <1>2, <2>2 DEF Purge
  <2>4. QED
    BY <2>1, <2>2, <2>3, DeletePromise
<1>3. QED
  BY <1>1, <1>2

\* The sweeper recovers only what nobody works on.
LEMMA SweepPromise ==
  ASSUME HeartbeatsCoverLease, LeaseInv, LeaseInv', Sweep
  PROVE  Promise!Next
<1>1. TypeOK /\ thread' = thread
  BY DEF LeaseInv, Sweep
<1>2. PICK J \in SUBSET Ids : J = {i \in Ids : Stale(i)}
  OBVIOUS
<1>3. ASSUME NEW i \in J
      PROVE  rows[i].status = "running" /\ rows'[i].status = "queued"
  <2>1. rows'[i] = [rows[i] EXCEPT !.status = "queued", !.token = NoToken, !.age = 0]
    BY <1>2 DEF Sweep
  <2>2. QED
    BY <1>1, <1>2, <2>1, RowFacts DEF Row, Stale
<1>4. \A i \in J : Phase(i) = "held" /\ Phase(i)' = "waiting"
  BY <1>3 DEF Phase
<1>5. ASSUME NEW i \in J PROVE Holder(i) = NoToken /\ Holder(i)' = NoToken
  <2>1. \A t \in Threads : thread[t].pc \in Executing => thread[t].job # i
    BY <1>2, StaleIsUnattended
  <2>2. ASSUME NEW t \in Threads, thread[t].pc = "fetch", Owns(t, i) PROVE FALSE
    <3>1. rows[i].age = 0
      BY <1>2, <2>2 DEF LeaseInv, LeaseFresh
    <3>2. QED
      BY <1>2, <3>1, TimingAssumption DEF Stale
  <2>3. Holders(i) = {}
    BY <2>1, <2>2 DEF Holders
  <2>4. Holders(i)' = {}
    BY <1>1, <1>3, <2>3 DEF Holders, Owns
  <2>5. QED
    BY <2>3, <2>4 DEF Holder
<1>6. \A i \in Ids \ J : SamePlace(i)
  <2>1. \A i \in Ids \ J : rows'[i] = rows[i]
    BY <1>2 DEF Sweep
  <2>2. QED
    BY <1>1, <2>1, SameThreads, SameRowPlace DEF SameClaim
<1>7. QED
  BY <1>4, <1>5, <1>6, IsRecover

-------------------------------------------------------------------------------
(***************************************************************************)
(* Every behaviour of the queue is a behaviour of the promise.             *)
(***************************************************************************)
LEMMA InitPromise == Init => Promise!Init
<1> SUFFICES ASSUME Init PROVE Promise!Init
  OBVIOUS
<1>1. \A i \in Ids : rows[i].status = "absent"
  BY DEF Init, NoRow
<1>2. \A t \in Threads : thread[t].pc = "idle"
  BY DEF Init, IdleThread
<1>3. ASSUME NEW i \in Ids PROVE Phase(i) = "absent" /\ Holder(i) = NoToken
  <2>1. Holders(i) = {}
    BY <1>2, PcsDiffer DEF Holders
  <2>2. QED
    BY <1>1, <2>1 DEF Phase, Holder
<1>4. QED
  BY <1>3 DEF Promise!Init

LEMMA StepPromise ==
  ASSUME HeartbeatsCoverLease, LeaseInv, LeaseInv', [Next]_vars
  PROVE  [Promise!Next]_(Promise!vars)
<1>1. TypeOK
  BY DEF LeaseInv
<1>2. CASE \E t \in Threads : Step(t)
  BY <1>1, <1>2, ClaimPromise, BeginPromise, GoneSteps, HandlerPromise, SettlePromise,
     RenewPromise DEF Step
<1>3. CASE \E c \in Clients : \/ Insert(c)
                              \/ \E r \in Requests : Coalesce(c, r) \/ Decide(c, r)
  BY <1>1, <1>3, RequestPromise, InsertPromise
<1>4. CASE \/ \E S \in PurgeSets, K \in {Works} \cup {{w} : w \in Works} : Purge(S, K)
           \/ PurgeDone
  BY <1>4, PurgePromise
<1>5. CASE \/ \E P \in Processes : Crash(P)
           \/ \E w \in Cancellable : Cancel(w)
           \/ Sweep
  BY <1>5, GoneSteps, CancelPromise, SweepPromise
<1>6. CASE Tick
  BY <1>1, <1>6, TickPromise
<1>7. CASE UNCHANGED vars
  <2>1. thread' = thread /\ rows' = rows
    BY <1>7 DEF vars
  <2>2. QED
    BY <2>1, SameThreads, KeepsPlaces DEF SameClaim
<1>8. QED
  BY <1>2, <1>3, <1>4, <1>5, <1>6, <1>7 DEF Next

\* With a heartbeat on every thread and a lease that outlasts it, the queue with
\* its tokens, leases and sweeper implements jobs that are handed to one worker
\* and handed on only when that worker is gone.
THEOREM PromiseKept == HeartbeatsCoverLease /\ Spec => KeepsPromise
<1>1. Init => Promise!Init
  BY InitPromise
<1>2. HeartbeatsCoverLease /\ LeaseInv /\ LeaseInv' /\ [Next]_vars
        => [Promise!Next]_(Promise!vars)
  BY StepPromise
<1>3. HeartbeatsCoverLease => []HeartbeatsCoverLease
  OBVIOUS
<1>4. QED
  BY <1>1, <1>2, <1>3, LeasesHold, PTL DEF Spec, KeepsPromise, Promise!Spec
===============================================================================
