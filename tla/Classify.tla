------------------------------- MODULE Classify -------------------------------
(***************************************************************************)
(* Classification.  Each stage of the ML worker has a status column on the *)
(* photo, and classify_status rolls some of them up.  Requests make        *)
(* columns `pending' and see to it that a classify_ml job is live for the  *)
(* photo: directly, or through the photo's `classify' stage in photo_work. *)
(* A job walks the stages, running those its session reads as not done.    *)
(* Photos are active here; `ok' stands for `empty' and `skipped' too.      *)
(***************************************************************************)
EXTENDS Integers, Sequences, FiniteSets

CONSTANTS
  Photos,       \* photos; those of them that are images are chosen at the start
  Walk,         \* the rolled-up stages, in the order they are run
  Ocr,          \* the stage after them: images only, and not rolled up
  Asks,         \* the sets of stages an administrator may ask for
  Retries,      \* what bulk_retry_stage jobs may be asked for
  Threads,      \* threads of the ML worker
  MaxRequests,  \* bound: requests
  MaxFaults     \* bound: crashes, and locked tables that make a job start again

VARIABLES
  images,    \* the photos with media_kind = "image"
  hashed,    \* the photos with a SHA: the index stage has read their file
  col,       \* photos.objects_status, ..., photos.ocr_status
  rolled,    \* photos.classify_status
  queued,    \* how many classify_ml jobs of a photo are queued
  thread,    \* each thread: the job it runs, and the row its session has loaded
  request,   \* the stages an enqueue_classify under way will make pending
  work,      \* each photo's classify stage in photo_work, and who serves it
  retry,     \* the bulk_retry_stage job of each kind
  requests, faults,   \* how many there were
  owed,      \* history: stages asked for, and not given up since
  drifted    \* history: photos whose roll-up was made from a row that had changed,
             \* or for which a stage that it rolls up was given up

vars == <<images, hashed, col, rolled, queued, thread, request, work, retry, requests, faults,
          owed, drifted>>

Rolled    == {Walk[i] : i \in 1..Len(Walk)}
Stages    == Rolled \cup {Ocr}
Nothing   == [p \in Photos |-> {}]
NoRow     == [rolled |-> "expired"]
IdleRetry == [pc |-> "none", ids |-> {}]
Idle      == [pc |-> "idle"]

\* There is a stage to roll up, and text recognition is not one.
ClassifyConstants ==
  /\ Walk \in Seq(Rolled) /\ Walk # <<>> /\ Ocr \notin Rolled
  /\ Asks \subseteq SUBSET Stages /\ \A r \in Retries : r.stages \subseteq Stages

TypeOK ==
  /\ images \subseteq Photos /\ hashed \subseteq Photos
  /\ col \in [Photos -> [Stages -> {"none", "pending", "ok", "failed"}]]
  /\ rolled \in [Photos -> {"pending", "ok", "failed"}]
  /\ queued \in [Photos -> Nat]
  /\ \A t \in Threads : thread[t] # Idle =>
       /\ thread[t].pc \in {"look", "run", "write", "end"}
       /\ thread[t].photo \in Photos /\ thread[t].at \in 1..(Len(Walk) + 2)
  /\ request \in [Photos -> SUBSET Stages]
  /\ work \in [Photos -> {"none", "asked", "insert", "finish"}]
  /\ retry \in [Retries -> [pc : {"none", "queued", "reset", "fanout"}, ids : SUBSET Photos]]
  /\ owed \in [Photos -> SUBSET Stages] /\ drifted \subseteq Photos

\* Photos no stage of the ML worker has seen.
Init ==
  /\ images \in SUBSET Photos /\ hashed \in SUBSET Photos
  /\ col = [p \in Photos |-> [s \in Stages |-> IF s = Ocr THEN "none" ELSE "pending"]]
  /\ rolled = [p \in Photos |-> "pending"]
  /\ queued = [p \in Photos |-> 0]
  /\ thread = [t \in Threads |-> Idle]
  /\ request = Nothing
  /\ work = [p \in Photos |-> "none"]
  /\ retry = [r \in Retries |-> IdleRetry]
  /\ requests = 0 /\ faults = 0
  /\ owed = Nothing /\ drifted = {}

-------------------------------------------------------------------------------
Runs(t, p) == thread[t] # Idle /\ thread[t].photo = p

\* enqueue_unique_for_photo coalesces with such a job.
Live(p) == queued[p] > 0 \/ \E t \in Threads : Runs(t, p)

\* The stage a thread looks at or runs, and the ones it has yet to settle.
Order == Append(Walk, Ocr)
At(t) == Order[thread[t].at]
Ahead(t) == IF thread[t].pc \notin {"look", "run"} THEN {}
            ELSE {Order[i] : i \in thread[t].at..Len(Order)}

\* Something under way will come to the stage.
Reached(p, s) ==
  \/ queued[p] > 0
  \/ \E t \in Threads : Runs(t, p) /\ s \in Ahead(t)
  \/ work[p] \in {"asked", "insert"}
  \/ \E r \in Retries : retry[r].pc = "fanout" /\ p \in retry[r].ids

\* The stages of asked are owed from now on.  Of the stages of left, which somebody stops
\* looking after for the reason its action names, those nothing else comes to are given up.
Owe(asked, left) ==
  LET lost == [p \in Photos |-> {s \in left[p] : ~Reached(p, s)'}]
  IN /\ owed' = [p \in Photos |-> (owed[p] \cup asked[p]) \ lost[p]]
     /\ drifted' = drifted \cup {p \in Photos : lost[p] \cap Rolled # {}}

\* Of the stages S[p], those that the running job with which a request for the photo
\* coalesces has left behind.
Behind(S) ==
  [p \in Photos |->
     {s \in S[p] : queued[p] = 0 /\ \E t \in Threads : Runs(t, p) /\ s \notin Ahead(t)}]

\* Of the stages S[p], those of photos whose hand-off has been made already: photo_work
\* holds the stage as pending still, and will not look at it again.
TooLate(S) == [p \in Photos |-> IF work[p] = "finish" THEN S[p] ELSE {}]

\* Of these photos, the stages that were asked for and are pending.
Owing(ids) ==
  [p \in Photos |-> IF p \in ids THEN {s \in owed[p] : col[p][s] = "pending"} ELSE {}]

Asked(p) == IF work[p] = "none" THEN "asked" ELSE work[p]

MakePending(S) ==
  col' = [p \in Photos |-> [s \in Stages |-> IF s \in S[p] THEN "pending" ELSE col[p][s]]]

-------------------------------------------------------------------------------
(***************************************************************************)
(* enqueue_classify: the photos and their columns are read first.          *)
(***************************************************************************)
RequestLook(ask, force) ==
  /\ requests < MaxRequests /\ request = Nothing
  /\ request' = [p \in Photos |-> {s \in ask : /\ s = Ocr => p \in images
                                               /\ force \/ col[p][s] # "ok"}]
  /\ request' # Nothing
  /\ requests' = requests + 1
  /\ UNCHANGED <<images, hashed, col, rolled, queued, thread, work, retry, faults, owed, drifted>>

\* Mutant of EnqueueUnique: a job only where classify_status is reset.
EnqueueRolledUp(S) ==
  queued' = [p \in Photos |-> IF S[p] \cap Rolled # {} /\ ~Live(p) THEN 1 ELSE queued[p]]

\* enqueue_unique_for_photo, for the photos with stages to run.
EnqueueUnique(S) ==
  queued' = [p \in Photos |-> IF S[p] # {} /\ ~Live(p) THEN 1 ELSE queued[p]]

\* Everything is written in one transaction.
RequestCommit ==
  /\ request # Nothing /\ request' = Nothing
  /\ MakePending(request)
  /\ rolled' = [p \in Photos |-> IF request[p] \cap Rolled # {} THEN "pending" ELSE rolled[p]]
  /\ EnqueueUnique(request)
  /\ UNCHANGED <<images, hashed, thread, work, retry, requests, faults>>
  /\ Owe(request, Behind(request))

\* _maybe_auto_enqueue, at the end of an index stage.
AutoEnqueue(p) ==
  LET unread == IF p \in images /\ col[p][Ocr] = "none" THEN {Ocr} ELSE {}
      S == unread \cup {s \in Rolled : col[p][s] = "pending"}
  IN /\ requests < MaxRequests /\ S # {}
     /\ requests' = requests + 1
     /\ hashed' = hashed \cup {p}
     /\ MakePending([Nothing EXCEPT ![p] = unread])
     /\ work' = [work EXCEPT ![p] = Asked(p)]
     /\ UNCHANGED <<images, rolled, queued, thread, request, retry, faults>>
     /\ Owe([Nothing EXCEPT ![p] = S], TooLate([Nothing EXCEPT ![p] = S]))

-------------------------------------------------------------------------------
(***************************************************************************)
(* bulk_retry_stage: one live job for each stage, substages and filter.    *)
(***************************************************************************)
Matches(r, p) ==
  \/ r.filter = "all"
  \/ r.by = "rollup" /\ rolled[p] = r.filter
  \/ r.by = "columns" /\ \E s \in r.stages :
       \/ col[p][s] = r.filter
       \/ s = Ocr /\ r.filter = "pending" /\ col[p][s] = "none"

RetryStage(r) ==
  /\ requests < MaxRequests /\ retry[r] = IdleRetry
  /\ requests' = requests + 1
  /\ retry' = [retry EXCEPT ![r].pc = "queued"]
  /\ UNCHANGED <<images, hashed, col, rolled, queued, thread, request, work, faults, owed, drifted>>

RetryLook(r) ==
  /\ retry[r].pc = "queued"
  /\ retry' = [retry EXCEPT ![r] = [pc |-> "reset", ids |-> {p \in images : Matches(r, p)}]]
  /\ UNCHANGED <<images, hashed, col, rolled, queued, thread, request, work, requests, faults, owed,
                 drifted>>

Chosen(r) == [p \in Photos |-> IF p \in retry[r].ids THEN r.stages ELSE {}]

\* The columns become pending, classify_status does not.
RetryReset(r) ==
  /\ retry[r].pc = "reset"
  /\ retry' = [retry EXCEPT ![r].pc = "fanout"]
  /\ MakePending(Chosen(r))
  /\ UNCHANGED <<images, hashed, rolled, queued, thread, request, work, requests, faults>>
  /\ Owe(Chosen(r), Nothing)

RetryFanOut(r) ==
  /\ retry[r].pc = "fanout"
  /\ work' = [p \in Photos |-> IF p \in retry[r].ids THEN Asked(p) ELSE work[p]]
  /\ retry' = [retry EXCEPT ![r] = IdleRetry]
  /\ UNCHANGED <<images, hashed, col, rolled, queued, thread, request, requests, faults>>
  /\ Owe(Nothing, TooLate(Owing(retry[r].ids)))

\* The job fails, or starts again and looks for photos again: those it made pending are
\* fanned out only if they match still.
RetryFault(r) ==
  /\ faults < MaxFaults /\ faults' = faults + 1
  /\ retry[r].pc \in {"reset", "fanout"}
  /\ \E pc \in {"queued", "none"} : retry' = [retry EXCEPT ![r] = [pc |-> pc, ids |-> {}]]
  /\ UNCHANGED <<images, hashed, col, rolled, queued, thread, request, work, requests>>
  /\ Owe(Nothing, IF retry[r].pc = "fanout" THEN Owing(retry[r].ids) ELSE Nothing)

-------------------------------------------------------------------------------
(***************************************************************************)
(* photo_work's classify stage: look for a live job, insert one, finish.   *)
(***************************************************************************)
HandOffLook(p) ==
  /\ work[p] = "asked"
  /\ work' = [work EXCEPT ![p] = IF Live(p) THEN "finish" ELSE "insert"]
  /\ UNCHANGED <<images, hashed, col, rolled, queued, thread, request, retry, requests, faults>>
  /\ Owe(Nothing, Behind(Owing({p})))

HandOffInsert(p) ==
  /\ work[p] = "insert"
  /\ work' = [work EXCEPT ![p] = "finish"]
  /\ queued' = [queued EXCEPT ![p] = @ + 1]
  /\ UNCHANGED <<images, hashed, col, rolled, thread, request, retry, requests, faults, owed, drifted>>

HandOffEnd(p) ==
  /\ work[p] = "finish"
  /\ work' = [work EXCEPT ![p] = "none"]
  /\ UNCHANGED <<images, hashed, col, rolled, queued, thread, request, retry, requests, faults, owed,
                 drifted>>

\* The row is claimed again after its lease.
HandOffFault(p) ==
  /\ faults < MaxFaults /\ faults' = faults + 1
  /\ work[p] \in {"insert", "finish"}
  /\ work' = [work EXCEPT ![p] = "asked"]
  /\ UNCHANGED <<images, hashed, col, rolled, queued, thread, request, retry, requests, owed, drifted>>

-------------------------------------------------------------------------------
(***************************************************************************)
(* run_classify_ml.                                                        *)
(***************************************************************************)
Row(p) == [col |-> col[p], rolled |-> rolled[p]]

\* The session's copy, until one of its commits expires it.
Loaded(t) == IF thread[t].row = NoRow THEN Row(thread[t].photo) ELSE thread[t].row

\* With a photo that has no SHA yet there is nothing to do.
Claim(t, p) ==
  /\ thread[t] = Idle /\ queued[p] > 0
  /\ queued' = [queued EXCEPT ![p] = @ - 1]
  /\ thread' = [thread EXCEPT ![t] = [pc |-> IF p \in hashed THEN "look" ELSE "end",
                                      photo |-> p, at |-> 1, row |-> Row(p)]]
  /\ UNCHANGED <<images, hashed, col, rolled, request, work, retry, requests, faults>>
  /\ Owe(Nothing, IF p \in hashed THEN Nothing ELSE Owing({p}))

\* The copy is kept where nothing was committed.
Onward(t, row) == thread' = [thread EXCEPT ![t].pc = "look", ![t].at = @ + 1, ![t].row = row]

Skips(t) == \/ Loaded(t).col[At(t)] = "ok"
            \/ At(t) = Ocr /\ thread[t].photo \notin images

\* The stage the thread is at, where it is owed and pending.
Facing(t) == [p \in Photos |-> Owing({thread[t].photo})[p] \cap {At(t)}]

\* A stage that became pending since the row was loaded is passed over.
Look(t) ==
  /\ thread[t].pc = "look" /\ thread[t].at <= Len(Order)
  /\ UNCHANGED <<images, hashed, col, rolled, queued, request, work, retry, requests, faults>>
  /\ IF Skips(t)
       THEN /\ Onward(t, Loaded(t))
            /\ Owe(Nothing, IF Loaded(t).col[At(t)] = "ok" THEN Facing(t) ELSE Nothing)
       ELSE /\ thread' = [thread EXCEPT ![t].pc = "run", ![t].row = Loaded(t)]
            /\ UNCHANGED <<owed, drifted>>

\* The stage is done, or its image cannot be worked on (what the stage wrote is rolled
\* back): either way its column is committed.
Settle(t) ==
  /\ thread[t].pc = "run"
  /\ \E result \in {"ok", "failed"} : col' = [col EXCEPT ![thread[t].photo][At(t)] = result]
  /\ Onward(t, NoRow)
  /\ UNCHANGED <<images, hashed, rolled, queued, request, work, retry, requests, faults, owed, drifted>>

\* There is no thumbnail, or no model: the column is left as it is.
Leave(t) ==
  /\ thread[t].pc = "run"
  /\ Onward(t, Loaded(t))
  /\ UNCHANGED <<images, hashed, col, rolled, queued, request, work, retry, requests, faults>>
  /\ Owe(Nothing, Facing(t))

\* What classify_status should say of these columns.
RollUp(c) ==
  IF \A s \in Rolled : c[s] = "ok" THEN "ok"
  ELSE IF /\ \E s \in Rolled : c[s] = "failed"
          /\ \A s \in Rolled : c[s] # "pending" THEN "failed"
  ELSE "pending"

\* The roll-up stands for the row as it was loaded.
Judged(t) == drifted' = IF Loaded(t) = Row(thread[t].photo)
                          THEN drifted \ {thread[t].photo} ELSE drifted \cup {thread[t].photo}

RollUpRead(t) ==
  /\ thread[t].pc = "look" /\ thread[t].at > Len(Order)
  /\ thread' = [thread EXCEPT ![t].row = Loaded(t),
       ![t].pc = IF Loaded(t).rolled = RollUp(Loaded(t).col) THEN "end" ELSE "write"]
  /\ Judged(t)
  /\ UNCHANGED <<images, hashed, col, rolled, queued, request, work, retry, requests, faults, owed>>

RollUpWrite(t) ==
  /\ thread[t].pc = "write"
  /\ rolled' = [rolled EXCEPT ![thread[t].photo] = RollUp(Loaded(t).col)]
  /\ thread' = [thread EXCEPT ![t].pc = "end", ![t].row = NoRow]
  /\ Judged(t)
  /\ UNCHANGED <<images, hashed, col, queued, request, work, retry, requests, faults, owed>>

Complete(t) ==
  /\ thread[t].pc = "end"
  /\ thread' = [thread EXCEPT ![t] = Idle]
  /\ UNCHANGED <<images, hashed, col, rolled, queued, request, work, retry, requests, faults, owed,
                 drifted>>

\* The job is queued again: its thread met a locked table, or is gone.
Requeue(t) ==
  /\ thread' = [thread EXCEPT ![t] = Idle]
  /\ queued' = [queued EXCEPT ![thread[t].photo] = @ + 1]

JobFault(t) ==
  /\ faults < MaxFaults /\ faults' = faults + 1
  /\ thread[t] # Idle
  /\ Requeue(t)
  /\ UNCHANGED <<images, hashed, col, rolled, request, work, retry, requests, owed, drifted>>

-------------------------------------------------------------------------------
Next ==
  \/ \E ask \in Asks, force \in BOOLEAN : RequestLook(ask, force)
  \/ RequestCommit
  \/ \E r \in Retries : \/ RetryStage(r) \/ RetryLook(r) \/ RetryReset(r) \/ RetryFanOut(r)
                        \/ RetryFault(r)
  \/ \E p \in Photos : \/ AutoEnqueue(p) \/ HandOffLook(p) \/ HandOffInsert(p)
                       \/ HandOffEnd(p) \/ HandOffFault(p)
  \/ \E t \in Threads : \/ \E p \in Photos : Claim(t, p)
                        \/ Look(t) \/ Settle(t) \/ Leave(t) \/ RollUpRead(t)
                        \/ RollUpWrite(t) \/ Complete(t) \/ JobFault(t)

Spec == Init /\ [][Next]_vars

-------------------------------------------------------------------------------
(***************************************************************************)
(* Property.                                                               *)
(***************************************************************************)
Unrolled(p) == Live(p) \/ work[p] # "none" \/ \E r \in Retries : p \in retry[r].ids

\* A stage that was asked for and is pending will be come to, through crashes, locked
\* tables, retries and coalesced requests.  It is given up, where nothing else comes to
\* it, when: the request or the hand-off coalesces with a running job that has passed the
\* stage; photo_work was handing the photo over already; a bulk retry fails before its
\* fan-out; the job passes the stage over on a row it had loaded before, or finds no
\* thumbnail, model or SHA.  And when nothing is under way for a photo, classify_status
\* says what its columns say, unless it was made from a row that had changed since, or a
\* stage it rolls up was given up.
StagesSettle ==
  \A p \in Photos :
    /\ \A s \in owed[p] : col[p][s] = "pending" => Reached(p, s)
    /\ Unrolled(p) \/ p \in drifted \/ rolled[p] = RollUp(col[p])
===============================================================================
