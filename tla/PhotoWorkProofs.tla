---------------------------- MODULE PhotoWorkProofs ----------------------------
(***************************************************************************)
(* Proofs about PhotoWork for every number of photos, stages, threads and *)
(* sessions, and every lease: claims are held, and only overlapping       *)
(* sessions make the table forget a stage.                                *)
(***************************************************************************)
EXTENDS PhotoWork, TLAPS

USE DEF NoToken, NoPhoto

-------------------------------------------------------------------------------
(***************************************************************************)
(* Types, part by part.  A batch entry that would insert a row names the  *)
(* stage it makes pending, and a map about to be written by a handler has *)
(* a stage: this is what TypeOK needs to be inductive.                    *)
(***************************************************************************)
TableOK ==
  /\ rows \in [Photos -> Row]
  /\ \A p \in Photos : ~Present(p) => rows[p] = NoRow
  /\ photos \subseteq Photos
  /\ \A p \in Photos \ photos : ~Present(p)

CrewOK ==
  /\ worker \in [Workers -> WorkerState]
  /\ \A w \in Workers :
       /\ worker[w].pc = "idle" => worker[w] = IdleWorker
       /\ worker[w].pc \in Holding => worker[w].photo \in Photos
       /\ worker[w].pc = "handoff" => worker[w].seen # NoStages

BatchOK == batch \in [Clients -> [Photos -> Entry]]

RestOK ==
  /\ faults \in 0..MaxFaults /\ requests \in 0..MaxRequests
  /\ torn \subseteq Photos /\ overrun \subseteq Photos

EntriesNameStages ==
  \A c \in Clients : \A p \in Batched(c) :
    batch[c][p].was = NoStages => batch[c][p].stage # NoStage

Typed == TableOK /\ CrewOK /\ BatchOK /\ RestOK /\ EntriesNameStages

LEMMA TypedTypes == Typed => TypeOK
  BY DEF Typed, TypeOK, TableOK, CrewOK, BatchOK, RestOK

LEMMA Pcs ==
  /\ "idle" \notin Holding /\ "fetch" \notin Holding
  /\ {"run", "handoff", "ok", "failed", "decide", "release", "finish"} = Holding
  /\ Writing \subseteq Holding /\ Running \subseteq Holding
  BY DEF Holding, Running, Writing

LEMMA Nulls ==
  /\ NoStages \in StageMap /\ NoRow \in Row /\ NoRow.stages = NoStages
  /\ NoRow.token = NoToken /\ NoRow.age = 0 /\ NoRow.prio = 0
  /\ IdleWorker \in WorkerState /\ IdleWorker.pc = "idle" /\ IdleWorker.token = NoToken
  /\ NoEntry \in Entry /\ NoEntry.was = NoStages /\ NoEntry.stage = NoStage
<1>1. NoStages \in StageMap
  BY DEF NoStages, StageMap
<1>2. NoRow \in Row
  BY <1>1, PhotoWorkAssumption DEF NoRow, Row
<1>3. IdleWorker \in WorkerState
  BY <1>1 DEF IdleWorker, WorkerState
<1>4. NoEntry \in Entry
  BY <1>1 DEF NoEntry, Entry
<1>5. QED
  BY <1>1, <1>2, <1>3, <1>4 DEF NoRow, IdleWorker, NoEntry

LEMMA RowFacts ==
  ASSUME TableOK, NEW p \in Photos
  PROVE  /\ rows[p] \in Row /\ rows[p].stages \in StageMap
         /\ rows[p].age \in 0..(Lease + 1) /\ rows[p].age \in Nat
         /\ rows[p].token # NoToken => Present(p)
         /\ Present(p) => p \in photos
         /\ \A s \in Stages : Pending(p, s) => Present(p)
<1>1. rows[p] \in Row
  BY DEF TableOK
<1>2. \A s \in Stages : Pending(p, s) => Present(p)
  BY DEF Pending, Present, NoStages
<1>3. QED
  BY <1>1, <1>2, Nulls, PhotoWorkAssumption DEF TableOK, Row

LEMMA WorkerFacts ==
  ASSUME CrewOK, NEW w \in Workers
  PROVE  /\ worker[w] \in WorkerState
         /\ worker[w].pc \in Holding => worker[w].photo \in Photos
         /\ worker[w].seen \in StageMap /\ StageOf[w] \in Stages
  BY PhotoWorkAssumption DEF CrewOK, WorkerState

-------------------------------------------------------------------------------
(***************************************************************************)
(* What a step may write into the table and into a thread's state.        *)
(***************************************************************************)
LEMMA TableWritten ==
  ASSUME TableOK, photos' = photos, NEW f, rows' = [p \in Photos |-> f[p]],
         \A p \in Photos : \/ f[p] = rows[p] \/ f[p] = NoRow
                           \/ f[p] \in Row /\ f[p].stages # NoStages /\ p \in photos
  PROVE  TableOK'
<1>1. \A p \in Photos : rows'[p] = f[p]
  OBVIOUS
<1>2. rows' \in [Photos -> Row]
  BY Nulls DEF TableOK
<1>3. \A p \in Photos : ~Present(p)' => rows'[p] = NoRow
  BY <1>1 DEF TableOK, Present
<1>4. \A p \in Photos \ photos : ~Present(p)'
  BY <1>1, Nulls DEF TableOK, Present
<1>5. QED
  BY <1>2, <1>3, <1>4 DEF TableOK

LEMMA OneRowWritten ==
  ASSUME TableOK, photos' = photos, NEW p \in Photos, NEW row,
         rows' = [rows EXCEPT ![p] = row],
         \/ row = rows[p] \/ row = NoRow
         \/ row \in Row /\ row.stages # NoStages /\ p \in photos
  PROVE  /\ TableOK' /\ rows'[p] = row
         /\ \A q \in Photos \ {p} : rows'[q] = rows[q]
<1> DEFINE f == [q \in Photos |-> IF q = p THEN row ELSE rows[q]]
<1>1. rows' = [q \in Photos |-> f[q]]
  BY DEF TableOK
<1>2. \A q \in Photos : \/ f[q] = rows[q] \/ f[q] = NoRow
                        \/ f[q] \in Row /\ f[q].stages # NoStages /\ q \in photos
  OBVIOUS
<1>3. rows'[p] = row /\ \A q \in Photos \ {p} : rows'[q] = rows[q]
  BY DEF TableOK
<1> HIDE DEF f
<1>4. TableOK'
  BY <1>1, <1>2, TableWritten
<1>5. QED
  BY <1>3, <1>4

LEMMA OneThreadMoves ==
  ASSUME CrewOK, NEW w \in Workers, NEW th,
         worker' = [worker EXCEPT ![w] = th],
         \/ th = IdleWorker
         \/ /\ th \in WorkerState /\ th.pc # "idle"
            /\ th.pc \in Holding => th.photo \in Photos
            /\ th.pc = "handoff" => th.seen # NoStages
  PROVE  /\ CrewOK' /\ worker'[w] = th
         /\ \A u \in Workers \ {w} : worker'[u] = worker[u]
<1>1. worker'[w] = th /\ \A u \in Workers \ {w} : worker'[u] = worker[u]
  BY DEF CrewOK
<1>2. th \in WorkerState /\ (th.pc = "idle" => th = IdleWorker)
      /\ (th.pc \in Holding => th.photo \in Photos)
      /\ (th.pc = "handoff" => th.seen # NoStages)
  BY Nulls, Pcs
<1>3. worker' \in [Workers -> WorkerState]
  BY <1>2 DEF CrewOK
<1>4. CrewOK'
  BY <1>1, <1>2, <1>3 DEF CrewOK
<1>5. QED
  BY <1>1, <1>4

\* A step of a thread that writes no batch and spends no request.
LEMMA BatchesKept ==
  ASSUME Typed, TableOK', CrewOK', RestOK', batch' = batch
  PROVE  Typed'
<1>1. BatchOK'
  BY DEF Typed, BatchOK
<1>2. EntriesNameStages'
  BY DEF Typed, EntriesNameStages, Batched
<1>3. QED
  BY <1>1, <1>2 DEF Typed

-------------------------------------------------------------------------------
(***************************************************************************)
(* Type correctness is preserved, one lemma per action.                   *)
(***************************************************************************)
LEMMA EnqueueTyped ==
  ASSUME Typed, NEW c \in Clients, NEW p \in Photos, NEW s \in Stages, NEW prio \in Prios,
         EnqueueStage(c, p, s, prio)
  PROVE  Typed'
<1> DEFINE e == [was |-> rows[p].stages, prio |-> rows[p].prio, raise |-> prio,
                 stage |-> IF Pending(p, s) THEN NoStage ELSE s]
<1>1. TableOK /\ CrewOK /\ BatchOK /\ RestOK
  BY DEF Typed
<1>2. batch' = [batch EXCEPT ![c][p] = e]
  BY DEF EnqueueStage
<1>3. e \in Entry
  BY <1>1, RowFacts DEF Row, Entry
<1>4. e.was = NoStages => e.stage # NoStage
  BY <1>1, RowFacts, PhotoWorkAssumption DEF Present
<1> HIDE DEF e
<1>5. BatchOK'
  BY <1>1, <1>2, <1>3 DEF BatchOK
<1>6. \A d \in Clients, q \in Photos : batch'[d][q] = batch[d][q] \/ batch'[d][q] = e
  BY <1>1, <1>2 DEF BatchOK
<1>7. EntriesNameStages'
  BY <1>4, <1>6 DEF Typed, EntriesNameStages, Batched
<1>8. RestOK'
  BY <1>1, PhotoWorkAssumption DEF EnqueueStage, RestOK
<1>9. TableOK' /\ CrewOK'
  BY <1>1 DEF EnqueueStage, TableOK, CrewOK, Present
<1>10. QED
  BY <1>5, <1>7, <1>8, <1>9 DEF Typed

LEMMA MergedRow ==
  ASSUME Typed, NEW c \in Clients, NEW p \in Batched(c), Writable(c, p)
  PROVE  /\ Merged(c, p) \in Row /\ Merged(c, p).stages # NoStages /\ p \in photos
         /\ Merged(c, p).token = rows[p].token /\ Merged(c, p).age = rows[p].age
         /\ batch[c][p].stage = NoStage => Merged(c, p).stages = rows[p].stages
         /\ batch[c][p].stage # NoStage =>
              Merged(c, p).stages = [batch[c][p].was EXCEPT ![batch[c][p].stage] = "pending"]
<1> DEFINE e == batch[c][p]
<1>1. TableOK /\ BatchOK /\ p \in Photos
  BY DEF Typed, Batched
<1>2. e \in Entry /\ rows[p] \in Row
  BY <1>1, RowFacts DEF BatchOK
<1>3. p \in photos
  BY <1>1, RowFacts DEF Writable
<1> DEFINE m  == IF e.stage = NoStage THEN rows[p].stages
                 ELSE [e.was EXCEPT ![e.stage] = "pending"]
           pr == IF e.raise > e.prio THEN e.raise ELSE rows[p].prio
<1>4. Merged(c, p) = [rows[p] EXCEPT !.stages = m, !.prio = pr]
  BY <1>2 DEF Merged, Row
<1>5. m \in StageMap
  <2>1. CASE e.stage = NoStage
    BY <1>2, <2>1 DEF Row
  <2>2. CASE e.stage # NoStage
    <3>1. e.was \in StageMap /\ e.stage \in Stages
      BY <1>2, <2>2 DEF Entry
    <3>2. [e.was EXCEPT ![e.stage] = "pending"] \in StageMap
      BY <3>1 DEF StageMap
    <3>3. QED
      BY <2>2, <3>2
  <2>3. QED
    BY <2>1, <2>2
<1>6. m # NoStages
  <2>1. CASE e.stage = NoStage
    <3>1. e.was # NoStages
      BY <2>1 DEF Typed, EntriesNameStages
    <3>2. QED
      BY <2>1, <3>1 DEF Writable, Present
  <2>2. CASE e.stage # NoStage
    <3>1. e.was \in StageMap /\ e.stage \in Stages
      BY <1>2, <2>2 DEF Entry
    <3>2. [e.was EXCEPT ![e.stage] = "pending"][e.stage] = "pending"
      BY <3>1 DEF StageMap
    <3>3. NoStages[e.stage] = "none"
      BY <3>1 DEF NoStages
    <3>4. QED
      BY <2>2, <3>2, <3>3
  <2>3. QED
    BY <2>1, <2>2
<1>7. pr \in Prios \cup {0}
  BY <1>2 DEF Row, Entry
<1> HIDE DEF m, pr
<1>8. /\ Merged(c, p) \in Row /\ Merged(c, p).stages = m
      /\ Merged(c, p).token = rows[p].token /\ Merged(c, p).age = rows[p].age
  BY <1>2, <1>4, <1>5, <1>7 DEF Row
<1>9. QED
  BY <1>3, <1>6, <1>8 DEF m

\* What a commit leaves of each row, and of the batches.
LEMMA CommitWrites ==
  ASSUME Typed, NEW c \in Clients, Commit(c)
  PROVE  /\ \A p \in Batched(c) : rows'[p] = Merged(c, p) /\ Writable(c, p)
         /\ \A p \in Photos \ Batched(c) : rows'[p] = rows[p]
         /\ Batched(c) \subseteq Photos
  BY DEF Commit, Batched

LEMMA EmptiedBatch ==
  ASSUME Typed, NEW c \in Clients,
         batch' = [batch EXCEPT ![c] = [p \in Photos |-> NoEntry]]
  PROVE  BatchOK' /\ EntriesNameStages'
<1>1. BatchOK
  BY DEF Typed
<1>2. BatchOK'
  BY <1>1, Nulls DEF BatchOK
<1>3. \A d \in Clients, q \in Photos : batch'[d][q] \in {batch[d][q], NoEntry}
  BY <1>1 DEF BatchOK
<1>4. EntriesNameStages'
  BY <1>3 DEF Typed, EntriesNameStages, Batched
<1>5. QED
  BY <1>2, <1>4

LEMMA CommitTyped ==
  ASSUME Typed, NEW c \in Clients, Commit(c) \/ CommitFails(c)
  PROVE  Typed'
<1>1. TableOK /\ CrewOK /\ BatchOK /\ RestOK
  BY DEF Typed
<1>2. BatchOK' /\ EntriesNameStages'
  BY EmptiedBatch DEF Commit, CommitFails
<1>3. CrewOK'
  BY <1>1 DEF Commit, CommitFails, CrewOK
<1>4. RestOK'
  BY <1>1 DEF Commit, CommitFails, RestOK, Overlapping, Batched
<1>5. TableOK'
  <2>1. CASE Commit(c)
    <3> DEFINE f == [p \in Photos |-> IF p \in Batched(c) THEN Merged(c, p) ELSE rows[p]]
    <3>1. rows' = [p \in Photos |-> f[p]] /\ photos' = photos
      BY <2>1 DEF Commit
    <3>2. \A p \in Batched(c) : Merged(c, p) \in Row /\ Merged(c, p).stages # NoStages
                                /\ p \in photos
      BY <2>1, MergedRow DEF Commit
    <3>3. \A p \in Photos : \/ f[p] = rows[p] \/ f[p] = NoRow
                            \/ f[p] \in Row /\ f[p].stages # NoStages /\ p \in photos
      BY <3>2
    <3> HIDE DEF f
    <3>4. QED
      BY <1>1, <3>1, <3>3, TableWritten
  <2>2. CASE CommitFails(c)
    BY <1>1, <2>2 DEF CommitFails, TableOK, Present
  <2>3. QED
    BY <2>1, <2>2
<1>6. QED
  BY <1>2, <1>3, <1>4, <1>5 DEF Typed

LEMMA DeleteTyped ==
  ASSUME Typed, NEW p \in Photos, DeletePhoto(p)
  PROVE  Typed'
<1>1. TableOK /\ CrewOK /\ BatchOK /\ RestOK
  BY DEF Typed
<1>2. rows'[p] = NoRow /\ \A q \in Photos \ {p} : rows'[q] = rows[q]
  BY <1>1 DEF DeletePhoto, TableOK
<1>3. TableOK'
  BY <1>1, <1>2, Nulls DEF DeletePhoto, TableOK, Present
<1>4. CrewOK' /\ RestOK'
  BY <1>1 DEF DeletePhoto, CrewOK, RestOK
<1>5. QED
  BY <1>3, <1>4, BatchesKept DEF DeletePhoto

LEMMA ClaimTyped ==
  ASSUME Typed, NEW w \in Workers, Claim(w)
  PROVE  Typed'
<1>1. TableOK /\ CrewOK /\ RestOK
  BY DEF Typed
<1>2. PICK p \in Photos, k \in Tokens :
        /\ IsBest(p, Claimable(w))
        /\ rows' = [rows EXCEPT ![p] = [@ EXCEPT !.token = k, !.age = 0]]
        /\ worker' = [worker EXCEPT ![w] = [IdleWorker EXCEPT !.pc = "fetch", !.token = k]]
  BY DEF Claim
<1> DEFINE row == [rows[p] EXCEPT !.token = k, !.age = 0]
           th  == [IdleWorker EXCEPT !.pc = "fetch", !.token = k]
<1>3. Present(p) /\ p \in photos
  BY <1>1, <1>2, RowFacts, PhotoWorkAssumption DEF IsBest, Claimable
<1>4. row \in Row /\ row.stages # NoStages
  <2>1. rows[p] \in Row /\ rows[p].stages # NoStages
    BY <1>1, <1>3, RowFacts DEF Present
  <2>2. 0 \in 0..(Lease + 1)
    BY PhotoWorkAssumption
  <2>3. row \in Row /\ row.stages = rows[p].stages
    BY <2>1, <2>2 DEF Row
  <2>4. QED
    BY <2>1, <2>3
<1>5. th \in WorkerState /\ th.pc = "fetch"
  BY Nulls DEF WorkerState
<1>6. rows' = [rows EXCEPT ![p] = row] /\ worker' = [worker EXCEPT ![w] = th]
  BY <1>1, <1>2 DEF TableOK
<1> HIDE DEF row, th
<1>7. TableOK'
  BY <1>1, <1>3, <1>4, <1>6, OneRowWritten DEF Claim
<1>8. CrewOK'
  BY <1>1, <1>5, <1>6, OneThreadMoves, Pcs
<1>9. RestOK'
  BY <1>1 DEF Claim, RestOK
<1>10. QED
  BY <1>7, <1>8, <1>9, BatchesKept DEF Claim

\* The thread reads, or goes on, and writes nothing.
LEMMA ReadTyped ==
  ASSUME Typed, NEW w \in Workers,
         \/ Fetch(w) \/ FetchNothing(w) \/ HandlerCommits(w)
         \/ \E s \in Stages : HandOff(w, s)
         \/ HandlerEnds(w) \/ Decide(w) \/ LosesRow(w) \/ Abandon(w)
  PROVE  Typed'
<1>1. TableOK /\ CrewOK /\ RestOK
  BY DEF Typed
<1>2. rows' = rows /\ photos' = photos /\ batch' = batch /\ torn' = torn
  BY DEF Fetch, FetchNothing, HandlerCommits, HandOff, HandlerEnds, Decide, LosesRow, Abandon
<1>3. TableOK'
  BY <1>1, <1>2 DEF TableOK, Present
<1>4. RestOK'
  <2>1. CASE Abandon(w)
    BY <1>1, <2>1, PhotoWorkAssumption DEF Abandon, RestOK
  <2>2. CASE ~Abandon(w)
    BY <1>1, <1>2, <2>2
    DEF Fetch, FetchNothing, HandlerCommits, HandOff, HandlerEnds, Decide, LosesRow, RestOK
  <2>3. QED
    BY <2>1, <2>2
<1>5. worker[w] \in WorkerState /\ worker[w].seen \in StageMap
  BY <1>1, WorkerFacts
<1>6. ASSUME worker[w].pc \in Holding
      PROVE  Loaded(w) \in StageMap
  BY <1>1, <1>6, RowFacts, WorkerFacts DEF Loaded
<1>7. CrewOK'
  <2>1. CASE FetchNothing(w) \/ LosesRow(w) \/ Abandon(w)
    BY <1>1, <2>1, OneThreadMoves DEF FetchNothing, LosesRow, Abandon
  <2>2. CASE Fetch(w)
    <3>1. PICK p \in Photos :
            worker' = [worker EXCEPT ![w] =
                         [@ EXCEPT !.pc = IF Pending(p, StageOf[w]) THEN "run" ELSE "release",
                                   !.photo = p, !.seen = rows[p].stages, !.cached = TRUE]]
      BY <2>2 DEF Fetch
    <3> DEFINE th == [worker[w] EXCEPT !.pc = IF Pending(p, StageOf[w]) THEN "run" ELSE "release",
                                       !.photo = p, !.seen = rows[p].stages, !.cached = TRUE]
    <3>2. th \in WorkerState /\ th.pc \in {"run", "release"} /\ th.photo = p
      BY <1>1, <1>5, RowFacts, Pcs DEF WorkerState
    <3>3. worker' = [worker EXCEPT ![w] = th]
      BY <1>1, <3>1 DEF CrewOK
    <3> HIDE DEF th
    <3>4. QED
      BY <1>1, <3>2, <3>3, OneThreadMoves
  <2>3. CASE HandlerCommits(w)
    <3> DEFINE th == [worker[w] EXCEPT !.cached = FALSE]
    <3>1. th \in WorkerState /\ th.pc = "run" /\ th.photo \in Photos
      BY <1>1, <1>5, <2>3, WorkerFacts, Pcs DEF HandlerCommits, WorkerState
    <3>2. worker' = [worker EXCEPT ![w] = th]
      BY <1>1, <2>3 DEF HandlerCommits, CrewOK
    <3> HIDE DEF th
    <3>3. QED
      BY <1>1, <3>1, <3>2, OneThreadMoves
  <2>4. ASSUME NEW s \in Stages, HandOff(w, s)
        PROVE  CrewOK'
    <3> DEFINE m  == [Loaded(w) EXCEPT ![s] = "pending"]
               th == [worker[w] EXCEPT !.pc = "handoff", !.cached = TRUE, !.seen = m]
    <3>1. worker[w].pc \in Holding /\ worker[w].photo \in Photos
      BY <1>1, <2>4, WorkerFacts, Pcs DEF HandOff
    <3>2. m \in StageMap /\ m[s] = "pending" /\ NoStages[s] = "none"
      BY <1>6, <3>1 DEF StageMap, NoStages
    <3> HIDE DEF m
    <3>3. th \in WorkerState /\ th.pc = "handoff" /\ th.photo \in Photos
          /\ th.seen # NoStages
      BY <1>5, <3>1, <3>2, Pcs DEF WorkerState
    <3>4. worker' = [worker EXCEPT ![w] = th]
      BY <1>1, <2>4 DEF HandOff, CrewOK, m
    <3> HIDE DEF th
    <3>5. QED
      BY <1>1, <3>3, <3>4, OneThreadMoves
  <2>5. CASE HandlerEnds(w)
    <3>1. PICK result \in Writing :
            worker' = [worker EXCEPT ![w] = [@ EXCEPT !.pc = result, !.cached = TRUE,
                                                      !.seen = Loaded(w)]]
      BY <2>5 DEF HandlerEnds
    <3> DEFINE th == [worker[w] EXCEPT !.pc = result, !.cached = TRUE, !.seen = Loaded(w)]
    <3>2. worker[w].pc \in Holding /\ worker[w].photo \in Photos
      BY <1>1, <2>5, WorkerFacts, Pcs DEF HandlerEnds
    <3>3. th \in WorkerState /\ th.pc \in Writing /\ th.photo \in Photos
      BY <1>5, <1>6, <3>2, Pcs DEF WorkerState
    <3>4. worker' = [worker EXCEPT ![w] = th]
      BY <1>1, <3>1 DEF CrewOK
    <3> HIDE DEF th
    <3>5. QED
      BY <1>1, <3>3, <3>4, OneThreadMoves DEF Writing
  <2>6. CASE Decide(w)
    <3>1. worker[w].photo \in Photos
      BY <1>1, <2>6, WorkerFacts, Pcs DEF Decide
    <3>2. \/ worker' = [worker EXCEPT ![w] = IdleWorker]
          \/ \E q \in {"finish", "release"} :
               worker' = [worker EXCEPT ![w] = [worker[w] EXCEPT !.pc = q]]
      BY <1>1, <2>6 DEF Decide, CrewOK
    <3>3. CASE worker' = [worker EXCEPT ![w] = IdleWorker]
      BY <1>1, <3>3, OneThreadMoves
    <3>4. ASSUME NEW q \in {"finish", "release"},
                 worker' = [worker EXCEPT ![w] = [worker[w] EXCEPT !.pc = q]]
          PROVE  CrewOK'
      <4> DEFINE th == [worker[w] EXCEPT !.pc = q]
      <4>1. th \in WorkerState /\ th.pc = q /\ th.photo \in Photos
        BY <1>5, <3>1, Pcs DEF WorkerState
      <4>2. worker' = [worker EXCEPT ![w] = th]
        BY <3>4
      <4> HIDE DEF th
      <4>3. QED
        BY <1>1, <4>1, <4>2, OneThreadMoves
    <3>5. QED
      BY <3>2, <3>3, <3>4
  <2>7. QED
    BY <2>1, <2>2, <2>3, <2>4, <2>5, <2>6
<1>8. QED
  BY <1>2, <1>3, <1>4, <1>7, BatchesKept

\* The thread writes the map of its row, or gives the row back, or deletes it.
LEMMA WriteTyped ==
  ASSUME Typed, NEW w \in Workers, CommitHandOff(w) \/ Write(w)
  PROVE  Typed'
<1>1. TableOK /\ CrewOK /\ RestOK
  BY DEF Typed
<1>2. PICK p \in Photos : p = worker[w].photo
  BY <1>1, WorkerFacts, Pcs DEF CommitHandOff, Write
<1>3. \/ rows' = rows
      \/ /\ Present(p)
         /\ \E m \in StageMap : /\ rows' = [rows EXCEPT ![p].stages = m]
                                /\ m # NoStages
  <2>1. CASE CommitHandOff(w)
    BY <1>1, <1>2, <2>1, WorkerFacts DEF CommitHandOff, RowGone, CrewOK
  <2>2. CASE Write(w)
    <3> DEFINE m == [worker[w].seen EXCEPT ![StageOf[w]] = worker[w].pc]
    <3>1. worker[w].seen \in StageMap /\ StageOf[w] \in Stages
          /\ worker[w].pc \in {"pending", "ok", "failed"}
      BY <1>1, <2>2, WorkerFacts DEF Write, Writing
    <3>2. m \in StageMap /\ m[StageOf[w]] # "none"
      BY <3>1 DEF StageMap
    <3>3. m # NoStages
      BY <3>1, <3>2 DEF NoStages
    <3>4. \/ rows' = rows
          \/ Present(p) /\ rows' = [rows EXCEPT ![p].stages = m]
      BY <1>2, <2>2 DEF Write, RowGone
    <3> HIDE DEF m
    <3>5. QED
      BY <3>2, <3>3, <3>4
  <2>3. QED
    BY <2>1, <2>2
<1>4. TableOK'
  <2>1. photos' = photos
    BY DEF CommitHandOff, Write
  <2>2. CASE rows' = rows
    BY <1>1, <2>1, <2>2 DEF TableOK, Present
  <2>3. ASSUME NEW m \in StageMap, m # NoStages, Present(p),
               rows' = [rows EXCEPT ![p].stages = m]
        PROVE  TableOK'
    <3> DEFINE row == [rows[p] EXCEPT !.stages = m]
    <3>1. rows[p] \in Row /\ p \in photos
      BY <1>1, <2>3, RowFacts
    <3>2. row \in Row /\ row.stages # NoStages
      BY <2>3, <3>1 DEF Row
    <3>3. rows' = [rows EXCEPT ![p] = row]
      BY <1>1, <2>3 DEF TableOK
    <3> HIDE DEF row
    <3>4. QED
      BY <1>1, <2>1, <3>1, <3>2, <3>3, OneRowWritten
  <2>4. QED
    BY <1>3, <2>2, <2>3
<1>5. CrewOK'
  <2>1. \E th : /\ worker' = [worker EXCEPT ![w] = th]
                /\ th \in WorkerState /\ th.pc \in {"run", "decide"} /\ th.photo = p
    <3>1. worker[w] \in WorkerState
      BY <1>1, WorkerFacts
    <3>2. CASE CommitHandOff(w)
      <4> DEFINE th == [worker[w] EXCEPT !.pc = "run", !.cached = FALSE]
      <4>1. th \in WorkerState /\ th.pc = "run" /\ th.photo = p
        BY <1>2, <3>1, Pcs DEF WorkerState
      <4>2. worker' = [worker EXCEPT ![w] = th]
        BY <1>1, <3>2 DEF CommitHandOff, CrewOK
      <4> HIDE DEF th
      <4>3. QED
        BY <4>1, <4>2
    <3>3. CASE Write(w)
      <4> DEFINE th == [worker[w] EXCEPT !.pc = "decide", !.cached = FALSE, !.seen = NoStages]
      <4>1. th \in WorkerState /\ th.pc = "decide" /\ th.photo = p
        BY <1>2, <3>1, Nulls, Pcs DEF WorkerState
      <4>2. worker' = [worker EXCEPT ![w] = th]
        BY <1>1, <3>3 DEF Write, CrewOK
      <4> HIDE DEF th
      <4>3. QED
        BY <4>1, <4>2
    <3>4. QED
      BY <3>2, <3>3
  <2>2. QED
    BY <1>1, <2>1, OneThreadMoves
<1>6. RestOK'
  BY <1>1 DEF CommitHandOff, Write, RestOK
<1>7. QED
  BY <1>4, <1>5, <1>6, BatchesKept DEF CommitHandOff, Write

LEMMA UnclaimedRow ==
  ASSUME TableOK, NEW p \in Photos
  PROVE  /\ Unclaimed(p).stages = rows[p].stages
         /\ Unclaimed(p).token = NoToken /\ Unclaimed(p).age = 0
         /\ Unclaimed(p) \in Row
         /\ ~Present(p) => Unclaimed(p) = rows[p]
<1>1. rows[p] \in Row /\ 0 \in 0..(Lease + 1)
  BY RowFacts, PhotoWorkAssumption
<1>2. rows[p].token = NoToken /\ rows[p].age = 0 => Unclaimed(p) = rows[p]
  BY <1>1 DEF Unclaimed, Row
<1>3. QED
  BY <1>1, <1>2, Nulls DEF Unclaimed, Row, TableOK

LEMMA SettleTyped ==
  ASSUME Typed, NEW w \in Workers, Release(w) \/ Finish(w)
  PROVE  Typed'
<1>1. TableOK /\ CrewOK /\ RestOK
  BY DEF Typed
<1>2. PICK p \in Photos : p = worker[w].photo
  BY <1>1, WorkerFacts, Pcs DEF Release, Finish
<1>3. \E row \in {Unclaimed(p), NoRow} : rows' = [rows EXCEPT ![p] = row]
  BY <1>2 DEF Release, Finish
<1>4. \/ Unclaimed(p) = rows[p]
      \/ Unclaimed(p) \in Row /\ Unclaimed(p).stages # NoStages /\ p \in photos
  BY <1>1, UnclaimedRow, RowFacts DEF Present
<1>5. TableOK'
  BY <1>1, <1>3, <1>4, OneRowWritten DEF Release, Finish
<1>6. CrewOK'
  BY <1>1, OneThreadMoves DEF Release, Finish
<1>7. RestOK'
  BY <1>1 DEF Release, Finish, RestOK
<1>8. QED
  BY <1>5, <1>6, <1>7, BatchesKept DEF Release, Finish

LEMMA CrashTyped ==
  ASSUME Typed, Crash
  PROVE  Typed'
<1>1. TableOK /\ CrewOK /\ RestOK
  BY DEF Typed
<1>2. TableOK'
  BY <1>1 DEF Crash, TableOK, Present
<1>3. CrewOK'
  BY Nulls, Pcs DEF Crash, CrewOK
<1>4. RestOK'
  BY <1>1, PhotoWorkAssumption DEF Crash, RestOK
<1>5. QED
  BY <1>2, <1>3, <1>4, BatchesKept DEF Crash

LEMMA TimeTyped ==
  ASSUME Typed, ReclaimStale \/ Tick
  PROVE  Typed'
<1>1. TableOK /\ CrewOK /\ RestOK
  BY DEF Typed
<1>2. CrewOK' /\ RestOK'
  <2>1. CrewOK'
    BY <1>1 DEF ReclaimStale, Tick, CrewOK
  <2>2. RestOK'
    BY <1>1, PhotoWorkAssumption DEF ReclaimStale, Tick, Overdue, RestOK
  <2>3. QED
    BY <2>1, <2>2
<1>3. TableOK'
  <2>1. CASE ReclaimStale
    <3> DEFINE f == [p \in Photos |-> IF Expired(p) THEN Unclaimed(p) ELSE rows[p]]
    <3>1. rows' = [p \in Photos |-> f[p]] /\ photos' = photos
      BY <2>1 DEF ReclaimStale
    <3>2. \A p \in Photos : \/ f[p] = rows[p]
                            \/ f[p] \in Row /\ f[p].stages # NoStages /\ p \in photos
      BY <1>1, UnclaimedRow, RowFacts DEF Present
    <3> HIDE DEF f
    <3>3. QED
      BY <1>1, <3>1, <3>2, TableWritten
  <2>2. CASE Tick
    <3> DEFINE f == [p \in Photos |-> IF rows[p].token # NoToken /\ rows[p].age <= Lease
                                        THEN [rows[p] EXCEPT !.age = @ + 1] ELSE rows[p]]
    <3>1. rows' = [p \in Photos |-> f[p]] /\ photos' = photos
      BY <2>2 DEF Tick
    <3>2. ASSUME NEW p \in Photos, rows[p].token # NoToken, rows[p].age <= Lease
          PROVE  /\ [rows[p] EXCEPT !.age = @ + 1] \in Row
                 /\ [rows[p] EXCEPT !.age = @ + 1].stages # NoStages /\ p \in photos
      <4>1. rows[p] \in Row /\ Present(p) /\ p \in photos
        BY <1>1, <3>2, RowFacts
      <4>2. rows[p].age + 1 \in 0..(Lease + 1)
        BY <1>1, <3>2, RowFacts, PhotoWorkAssumption
      <4>3. QED
        BY <4>1, <4>2 DEF Row, Present
    <3>3. \A p \in Photos : \/ f[p] = rows[p]
                            \/ f[p] \in Row /\ f[p].stages # NoStages /\ p \in photos
      BY <3>2
    <3> HIDE DEF f
    <3>4. QED
      BY <1>1, <3>1, <3>3, TableWritten
  <2>3. QED
    BY <2>1, <2>2
<1>4. QED
  BY <1>2, <1>3, BatchesKept DEF ReclaimStale, Tick

LEMMA TypedInit == Init => Typed
<1> SUFFICES ASSUME Init PROVE Typed
  OBVIOUS
<1>1. TableOK
  BY Nulls DEF Init, TableOK, Present
<1>2. CrewOK
  BY Nulls, Pcs DEF Init, CrewOK
<1>3. BatchOK /\ EntriesNameStages
  BY Nulls DEF Init, BatchOK, EntriesNameStages, Batched
<1>4. RestOK
  BY PhotoWorkAssumption DEF Init, RestOK
<1>5. QED
  BY <1>1, <1>2, <1>3, <1>4 DEF Typed

LEMMA TypedStep == Typed /\ [Next]_vars => Typed'
<1> SUFFICES ASSUME Typed, [Next]_vars PROVE Typed'
  OBVIOUS
<1>1. CASE \E w \in Workers : Step(w) \/ Abandon(w) \/ \E s \in Stages : HandOff(w, s)
  BY <1>1, ClaimTyped, ReadTyped, WriteTyped, SettleTyped DEF Step
<1>2. CASE \E c \in Clients :
             \/ \E p \in Photos, s \in Stages, prio \in Prios : EnqueueStage(c, p, s, prio)
             \/ Commit(c) \/ CommitFails(c)
  BY <1>2, EnqueueTyped, CommitTyped
<1>3. CASE (\E p \in Photos : DeletePhoto(p)) \/ Crash \/ ReclaimStale \/ Tick
  BY <1>3, DeleteTyped, CrashTyped, TimeTyped
<1>4. CASE UNCHANGED vars
  <2>1. TableOK' /\ CrewOK' /\ RestOK'
    BY <1>4 DEF Typed, vars, TableOK, CrewOK, RestOK, Present
  <2>2. QED
    BY <1>4, <2>1, BatchesKept DEF vars
<1>5. QED
  BY <1>1, <1>2, <1>3, <1>4 DEF Next

\* The table, the threads and the sessions are always of their types; every row
\* has a stage, and only photos that exist have rows.
THEOREM PhotoWorkTypes == Spec => []TypeOK
  BY TypedTypes, TypedInit, TypedStep, PTL DEF Spec

-------------------------------------------------------------------------------
(***************************************************************************)
(* Claims.  A thread's token is on its row until the thread settles it: no *)
(* token is used twice, a row that vanished under its thread belonged to a *)
(* photo that is gone (and that no session can give a row again), and the *)
(* lease of a held row has not run out, but for photos in `overrun'.      *)
(***************************************************************************)
TokensHeld ==
  \A w \in Workers : worker[w].token = NoToken <=> worker[w].pc = "idle"

TokensDiffer ==
  /\ \A p, q \in Photos : p # q /\ rows[p].token = rows[q].token => rows[p].token = NoToken
  /\ \A w, u \in Workers : w # u /\ worker[w].token = worker[u].token
                           => worker[w].token = NoToken

GoneForGood ==
  \A w \in Workers : worker[w].pc \in Holding /\ ~Present(worker[w].photo)
                       => worker[w].photo \notin photos \/ worker[w].photo \in overrun

LeaseRuns ==
  \A w \in Workers : \A p \in Photos \ overrun :
    \/ worker[w].pc \in Holding /\ worker[w].photo = p
    \/ worker[w].pc = "fetch" /\ rows[p].token = worker[w].token
    => rows[p].age <= Lease

ClaimInv == Typed /\ TokensHeld /\ TokensDiffer /\ GoneForGood /\ LeaseRuns /\ ClaimHeld

\* A thread that holds a row is the only one that does.
LEMMA OneHolder ==
  ASSUME ClaimInv, NEW w \in Workers, NEW u \in Workers,
         worker[w].pc \in Holding, worker[u].pc \in Holding \cup {"fetch"},
         Present(worker[w].photo), worker[w].photo \notin overrun,
         rows[worker[w].photo].token = worker[u].token
  PROVE  w = u
<1>1. worker[w].token = worker[u].token
  BY DEF ClaimInv, ClaimHeld
<1>2. worker[u].token # NoToken
  BY Pcs DEF ClaimInv, TokensHeld
<1>3. QED
  BY <1>1, <1>2 DEF ClaimInv, TokensDiffer

\* Most steps keep a row's claim, clear it while nobody holds the row, or
\* delete the row with its photo, unless the lease was outlasted; a thread
\* stays, goes on with its photo, or is idle again.
StillClaimed(p) ==
  /\ rows'[p].token = rows[p].token /\ rows'[p].age = rows[p].age
  /\ Present(p)' <=> Present(p)

Unattended(p) ==
  /\ rows'[p].token = NoToken
  /\ \A w \in Workers : worker'[w].pc \in Holding => worker'[w].photo # p

Deleted(p) ==
  /\ rows'[p] = NoRow /\ p \notin photos'

GoesOn(w) ==
  /\ worker[w].pc \in Holding /\ worker'[w].pc \in Holding
  /\ worker'[w].photo = worker[w].photo /\ worker'[w].token = worker[w].token

Weakens ==
  /\ photos' \subseteq photos /\ overrun' = overrun
  /\ \A p \in Photos : rows'[p].token \in {rows[p].token, NoToken}
  /\ \A p \in Photos \ overrun : StillClaimed(p) \/ Unattended(p) \/ Deleted(p)
  /\ \A w \in Workers : worker'[w] = worker[w] \/ worker'[w] = IdleWorker \/ GoesOn(w)

LEMMA WeakensClaim ==
  ASSUME ClaimInv, Typed', Weakens
  PROVE  ClaimInv'
<1>1. CrewOK /\ CrewOK' /\ TableOK
  BY DEF ClaimInv, Typed
<1>2. \A p \in Photos : rows'[p].token \in {rows[p].token, NoToken}
  BY DEF Weakens
<1>3. \A w \in Workers : \/ worker'[w].token = NoToken /\ worker'[w].pc = "idle"
                         \/ worker'[w].token = worker[w].token
  BY Nulls DEF Weakens, GoesOn
<1>4. TokensHeld'
  BY Nulls, Pcs DEF ClaimInv, TokensHeld, Weakens, GoesOn
<1>5. TokensDiffer'
  BY <1>2, <1>3 DEF ClaimInv, TokensDiffer
<1>6. ASSUME NEW w \in Workers, worker'[w].pc \in Holding
      PROVE  /\ worker[w].pc \in Holding /\ worker'[w].photo = worker[w].photo
             /\ worker'[w].token = worker[w].token /\ worker[w].photo \in Photos
             /\ \/ StillClaimed(worker[w].photo) \/ Deleted(worker[w].photo)
                \/ worker[w].photo \in overrun
  <2>1. worker[w].pc \in Holding /\ worker'[w].photo = worker[w].photo
        /\ worker'[w].token = worker[w].token
    BY <1>6, Nulls, Pcs DEF Weakens, GoesOn
  <2>2. worker[w].photo \in Photos
    BY <1>1, <2>1 DEF CrewOK
  <2>3. QED
    BY <1>6, <2>1, <2>2 DEF Weakens, Unattended
<1>7. GoneForGood'
  <2> SUFFICES ASSUME NEW w \in Workers, worker'[w].pc \in Holding,
                      ~Present(worker[w].photo)', worker[w].photo \notin overrun
               PROVE  worker'[w].photo \notin photos'
    BY <1>6 DEF GoneForGood, Present, Weakens
  <2>1. PICK p \in Photos : p = worker[w].photo /\ p = worker'[w].photo
    BY <1>6
  <2>2. CASE Deleted(p)
    BY <2>1, <2>2 DEF Deleted
  <2>3. CASE StillClaimed(p)
    <3>1. ~Present(p)
      BY <2>1, <2>3 DEF StillClaimed, Present
    <3>2. QED
      BY <1>6, <2>1, <3>1 DEF ClaimInv, GoneForGood, Weakens
  <2>4. QED
    BY <1>6, <2>1, <2>2, <2>3
<1>8. ClaimHeld'
  <2> SUFFICES ASSUME NEW w \in Workers, worker'[w].pc \in Holding,
                      Present(worker[w].photo)', worker[w].photo \notin overrun
               PROVE  rows'[worker'[w].photo].token = worker'[w].token
    BY <1>6 DEF ClaimHeld, Present, Weakens
  <2>1. PICK p \in Photos : p = worker[w].photo /\ p = worker'[w].photo
    BY <1>6
  <2>2. ~Deleted(p)
    BY <2>1, Nulls DEF Deleted, Present
  <2>3. StillClaimed(p) /\ Present(p)
    BY <1>6, <2>1, <2>2 DEF StillClaimed, Present
  <2>4. QED
    BY <1>6, <2>1, <2>3 DEF ClaimInv, ClaimHeld, StillClaimed
<1>9. LeaseRuns'
  <2> SUFFICES ASSUME NEW w \in Workers, NEW p \in Photos \ overrun,
                      \/ worker'[w].pc \in Holding /\ worker'[w].photo = p
                      \/ worker'[w].pc = "fetch" /\ rows'[p].token = worker'[w].token
               PROVE  rows'[p].age <= Lease
    BY DEF LeaseRuns, Weakens
  <2>1. CASE worker'[w].pc \in Holding /\ worker'[w].photo = p
    <3>1. worker[w].pc \in Holding /\ worker[w].photo = p /\ rows'[p].age \in {rows[p].age, 0}
      BY <1>6, <2>1, Nulls DEF StillClaimed, Deleted
    <3>2. QED
      BY <3>1, PhotoWorkAssumption DEF ClaimInv, LeaseRuns
  <2>2. CASE worker'[w].pc = "fetch" /\ rows'[p].token = worker'[w].token
    <3>1. worker'[w] = worker[w]
      BY <2>2, Nulls, Pcs DEF Weakens, GoesOn
    <3>2. rows'[p].token # NoToken
      BY <1>4, <2>2 DEF TokensHeld
    <3>3. StillClaimed(p)
      BY <3>2, Nulls DEF Weakens, Unattended, Deleted
    <3>4. QED
      BY <2>2, <3>1, <3>3 DEF ClaimInv, LeaseRuns, StillClaimed
  <2>3. QED
    BY <2>1, <2>2
<1>10. QED
  BY <1>4, <1>5, <1>7, <1>8, <1>9 DEF ClaimInv

-------------------------------------------------------------------------------
(***************************************************************************)
(* The steps that weaken.                                                 *)
(***************************************************************************)
LEMMA SessionWeakens ==
  ASSUME ClaimInv, NEW c \in Clients,
         \/ \E p \in Photos, s \in Stages, prio \in Prios : EnqueueStage(c, p, s, prio)
         \/ Commit(c) \/ CommitFails(c)
  PROVE  Weakens
<1>1. worker' = worker /\ photos' = photos /\ overrun' = overrun
  BY DEF EnqueueStage, Commit, CommitFails
<1>2. CASE ~Commit(c)
  <2>1. rows' = rows
    BY <1>2 DEF EnqueueStage, CommitFails
  <2>2. QED
    BY <1>1, <2>1 DEF Weakens, StillClaimed, Present
<1>3. CASE Commit(c)
  <2>1. Typed
    BY DEF ClaimInv
  <2>2. ASSUME NEW p \in Batched(c)
        PROVE  /\ rows'[p].token = rows[p].token /\ rows'[p].age = rows[p].age
               /\ rows'[p].stages # NoStages /\ p \in photos
    <3>1. rows'[p] = Merged(c, p) /\ Writable(c, p)
      BY <1>3, <2>1, CommitWrites
    <3>2. QED
      BY <2>1, <3>1, MergedRow
  <2>3. ASSUME NEW p \in Photos
        PROVE  /\ rows'[p].token = rows[p].token
               /\ p \in overrun \/ StillClaimed(p) \/ Unattended(p)
    <3>1. CASE p \notin Batched(c)
      BY <1>3, <2>1, <3>1, CommitWrites DEF StillClaimed, Present
    <3>2. CASE p \in Batched(c) /\ Present(p)
      BY <2>2, <3>2 DEF StillClaimed, Present
    <3>3. CASE p \in Batched(c) /\ ~Present(p)
      <4>1. rows'[p].token = rows[p].token /\ p \in photos
        BY <2>2, <3>3
      <4>2. rows[p].token = NoToken
        BY <2>1, <3>3, RowFacts DEF Typed
      <4>3. p \in overrun \/ \A w \in Workers : worker[w].pc \in Holding => worker[w].photo # p
        BY <3>3, <4>1 DEF ClaimInv, GoneForGood
      <4>4. QED
        BY <1>1, <4>1, <4>2, <4>3 DEF Unattended
    <3>4. QED
      BY <3>1, <3>2, <3>3
  <2>4. QED
    BY <1>1, <2>3 DEF Weakens
<1>4. QED
  BY <1>2, <1>3

LEMMA DeleteWeakens ==
  ASSUME ClaimInv, NEW p \in Photos, DeletePhoto(p)
  PROVE  Weakens
<1>1. rows'[p] = NoRow /\ \A q \in Photos \ {p} : rows'[q] = rows[q]
  BY DEF ClaimInv, Typed, TableOK, DeletePhoto
<1>2. Deleted(p) /\ \A q \in Photos \ {p} : StillClaimed(q)
  BY <1>1 DEF DeletePhoto, Deleted, StillClaimed, Present
<1>3. QED
  BY <1>1, <1>2, Nulls DEF DeletePhoto, Weakens

\* The threads change, one of them or all, and the table does not.
LEMMA ThreadWeakens ==
  ASSUME ClaimInv,
         \/ \E w \in Workers :
              \/ FetchNothing(w) \/ LosesRow(w) \/ Abandon(w)
              \/ HandlerCommits(w) \/ HandlerEnds(w) \/ Decide(w)
              \/ \E s \in Stages : HandOff(w, s)
         \/ Crash
  PROVE  Weakens
<1>1. rows' = rows /\ photos' = photos /\ overrun' = overrun
  BY DEF FetchNothing, LosesRow, Abandon, HandlerCommits, HandlerEnds, Decide, HandOff, Crash
<1>2. \A p \in Photos : StillClaimed(p)
  BY <1>1 DEF StillClaimed, Present
<1>3. CASE Crash
  BY <1>1, <1>2, <1>3 DEF Crash, Weakens
<1>4. ASSUME NEW w \in Workers,
             \/ FetchNothing(w) \/ LosesRow(w) \/ Abandon(w)
             \/ HandlerCommits(w) \/ HandlerEnds(w) \/ Decide(w)
             \/ \E s \in Stages : HandOff(w, s)
      PROVE  Weakens
  <2>1. CrewOK /\ worker[w] \in WorkerState
    BY WorkerFacts DEF ClaimInv, Typed
  <2>2. CASE FetchNothing(w) \/ LosesRow(w) \/ Abandon(w)
    BY <1>1, <1>2, <2>1, <2>2 DEF FetchNothing, LosesRow, Abandon, Weakens, CrewOK
  <2>3. CASE \/ HandlerCommits(w) \/ HandlerEnds(w) \/ Decide(w)
             \/ \E s \in Stages : HandOff(w, s)
    <3>1. worker[w].pc \in Holding
      BY <2>3, Pcs DEF HandlerCommits, HandlerEnds, Decide, HandOff
    <3>2. \/ worker' = [worker EXCEPT ![w] = IdleWorker]
          \/ worker' = [worker EXCEPT ![w].cached = FALSE]
          \/ \E q \in Holding : \E m : worker' = [worker EXCEPT ![w] = [@ EXCEPT !.pc = q,
                                                              !.cached = TRUE, !.seen = m]]
          \/ \E q \in Holding : worker' = [worker EXCEPT ![w] = [@ EXCEPT !.pc = q]]
      <4>1. CASE HandlerCommits(w)
        BY <4>1 DEF HandlerCommits
      <4>2. CASE Decide(w)
        BY <2>1, <4>2, Pcs DEF Decide, CrewOK
      <4>3. CASE HandlerEnds(w)
        BY <4>3, Pcs DEF HandlerEnds
      <4>4. ASSUME NEW s \in Stages, HandOff(w, s)
            PROVE  \E q \in Holding : \E m : worker' = [worker EXCEPT ![w] = [@ EXCEPT !.pc = q,
                                                              !.cached = TRUE, !.seen = m]]
        BY <4>4, Pcs DEF HandOff
      <4>5. QED
        BY <2>3, <4>1, <4>2, <4>3, <4>4
    <3>3. worker'[w] = IdleWorker \/ GoesOn(w)
      <4>1. CASE worker' = [worker EXCEPT ![w] = IdleWorker]
        BY <2>1, <4>1 DEF CrewOK
      <4>2. CASE worker' = [worker EXCEPT ![w].cached = FALSE]
        <5>1. worker'[w] = [worker[w] EXCEPT !.cached = FALSE]
          BY <2>1, <4>2 DEF CrewOK
        <5>2. QED
          BY <2>1, <3>1, <5>1 DEF GoesOn, WorkerState
      <4>3. ASSUME NEW q \in Holding, NEW m,
                   worker' = [worker EXCEPT ![w] = [@ EXCEPT !.pc = q, !.cached = TRUE,
                                                             !.seen = m]]
            PROVE  GoesOn(w)
        <5>1. worker'[w] = [worker[w] EXCEPT !.pc = q, !.cached = TRUE, !.seen = m]
          BY <2>1, <4>3 DEF CrewOK
        <5>2. QED
          BY <2>1, <3>1, <5>1 DEF GoesOn, WorkerState
      <4>4. ASSUME NEW q \in Holding,
                   worker' = [worker EXCEPT ![w] = [@ EXCEPT !.pc = q]]
            PROVE  GoesOn(w)
        <5>1. worker'[w] = [worker[w] EXCEPT !.pc = q]
          BY <2>1, <4>4 DEF CrewOK
        <5>2. QED
          BY <2>1, <3>1, <5>1 DEF GoesOn, WorkerState
      <4>5. QED
        BY <3>2, <4>1, <4>2, <4>3, <4>4
    <3>4. \A u \in Workers \ {w} : worker'[u] = worker[u]
      BY <2>1, <3>2 DEF CrewOK
    <3>5. QED
      BY <1>1, <1>2, <3>3, <3>4 DEF Weakens
  <2>4. QED
    BY <1>4, <2>2, <2>3
<1>5. QED
  BY <1>3, <1>4

\* A thread writes the stages of its row, not its claim.
LEMMA WriteWeakens ==
  ASSUME ClaimInv, Typed', NEW w \in Workers, CommitHandOff(w) \/ Write(w)
  PROVE  Weakens
<1>1. CrewOK /\ TableOK /\ TableOK' /\ worker[w] \in WorkerState
  BY WorkerFacts DEF ClaimInv, Typed
<1>2. PICK p \in Photos : p = worker[w].photo
  BY <1>1, WorkerFacts, Pcs DEF CommitHandOff, Write
<1>3. photos' = photos
      /\ \/ rows' = rows
         \/ Present(p) /\ \E m : m # NoStages /\ rows' = [rows EXCEPT ![p].stages = m]
  <2>1. CASE CommitHandOff(w)
    BY <1>1, <1>2, <2>1 DEF CommitHandOff, RowGone, CrewOK
  <2>2. CASE Write(w)
    <3> DEFINE m == [worker[w].seen EXCEPT ![StageOf[w]] = worker[w].pc]
    <3>1. worker[w].seen \in StageMap /\ StageOf[w] \in Stages
          /\ worker[w].pc \in {"ok", "failed"}
      BY <1>1, <2>2, WorkerFacts DEF Write, Writing
    <3>2. m[StageOf[w]] # "none"
      BY <3>1 DEF StageMap
    <3>3. m # NoStages
      BY <3>1, <3>2 DEF NoStages
    <3>4. rows' = rows \/ (Present(p) /\ rows' = [rows EXCEPT ![p].stages = m])
      BY <1>2, <2>2 DEF Write, RowGone
    <3> HIDE DEF m
    <3>5. QED
      BY <2>2, <3>3, <3>4 DEF Write
  <2>3. QED
    BY <2>1, <2>2
<1>4. \A q \in Photos : StillClaimed(q)
  <2>1. ASSUME NEW m, m # NoStages, Present(p), rows' = [rows EXCEPT ![p].stages = m]
        PROVE  \A q \in Photos : StillClaimed(q)
    <3>1. rows[p] \in Row
      BY <1>1, RowFacts
    <3>2. rows'[p] = [rows[p] EXCEPT !.stages = m]
          /\ \A q \in Photos \ {p} : rows'[q] = rows[q]
      BY <1>1, <2>1 DEF TableOK
    <3>3. rows'[p].stages = m /\ rows'[p].token = rows[p].token /\ rows'[p].age = rows[p].age
      BY <3>1, <3>2 DEF Row
    <3>4. QED
      BY <2>1, <3>2, <3>3 DEF StillClaimed, Present
  <2>2. CASE rows' = rows
    BY <2>2 DEF StillClaimed, Present
  <2>3. QED
    BY <1>3, <2>1, <2>2
<1>5. GoesOn(w) /\ \A u \in Workers \ {w} : worker'[u] = worker[u]
  <2>1. worker[w].pc \in Holding
    BY Pcs DEF CommitHandOff, Write
  <2>2. \/ worker'[w] = [worker[w] EXCEPT !.pc = "run", !.cached = FALSE]
        \/ worker'[w] = [worker[w] EXCEPT !.pc = "decide", !.cached = FALSE,
                                          !.seen = NoStages]
    BY <1>1 DEF CommitHandOff, Write, CrewOK
  <2>3. /\ worker'[w].photo = worker[w].photo /\ worker'[w].token = worker[w].token
        /\ worker'[w].pc = "run" \/ worker'[w].pc = "decide"
    BY <1>1, <2>2 DEF WorkerState
  <2>4. GoesOn(w)
    BY <2>1, <2>3, Pcs DEF GoesOn
  <2>5. QED
    BY <1>1, <2>4 DEF CommitHandOff, Write, CrewOK
<1>6. QED
  BY <1>3, <1>4, <1>5 DEF Weakens, StillClaimed, CommitHandOff, Write

\* A row is settled by its holder, so nobody holds it afterwards, unless its
\* lease was outlasted.
LEMMA SettleWeakens ==
  ASSUME ClaimInv, NEW w \in Workers, Release(w) \/ Finish(w)
  PROVE  Weakens
<1>1. CrewOK /\ TableOK
  BY DEF ClaimInv, Typed
<1>2. worker[w].pc \in Holding
  BY Pcs DEF Release, Finish
<1>3. PICK p \in Photos : p = worker[w].photo
  BY <1>1, <1>2, WorkerFacts
<1>4. worker'[w] = IdleWorker /\ \A u \in Workers \ {w} : worker'[u] = worker[u]
  BY <1>1 DEF Release, Finish, CrewOK
<1>5. /\ rows'[p] = Unclaimed(p) \/ rows'[p] = NoRow
      /\ \A q \in Photos \ {p} : rows'[q] = rows[q]
  BY <1>1, <1>3 DEF Release, Finish, TableOK
<1>6. CASE Present(p) /\ p \notin overrun
  <2>1. ASSUME NEW u \in Workers \ {w}, worker[u].pc \in Holding, worker[u].photo = p
        PROVE  FALSE
    <3>1. rows[p].token = worker[u].token
      BY <1>6, <2>1 DEF ClaimInv, ClaimHeld
    <3>2. QED
      BY <1>2, <1>3, <1>6, <2>1, <3>1, OneHolder
  <2>2. rows'[p].token = NoToken
    BY <1>1, <1>5, UnclaimedRow, Nulls
  <2>3. Unattended(p)
    BY <1>4, <2>1, <2>2, Nulls, Pcs DEF Unattended
  <2>4. QED
    BY <1>4, <1>5, <2>2, <2>3 DEF Weakens, StillClaimed, Present, Release, Finish
<1>7. CASE ~Present(p)
  <2>1. rows'[p] = rows[p]
    BY <1>1, <1>5, <1>7, UnclaimedRow DEF TableOK
  <2>2. QED
    BY <1>4, <1>5, <2>1 DEF Weakens, StillClaimed, Present, Release, Finish
<1>8. CASE p \in overrun
  <2>1. rows'[p].token = NoToken
    BY <1>1, <1>5, UnclaimedRow, Nulls
  <2>2. QED
    BY <1>4, <1>5, <1>8, <2>1 DEF Weakens, StillClaimed, Present, Release, Finish
<1>9. QED
  BY <1>6, <1>7, <1>8

\* The sweeper's cutoff spares every row whose holder is within its lease.
LEMMA ReclaimWeakens ==
  ASSUME ClaimInv, ReclaimStale
  PROVE  Weakens
<1>1. TableOK /\ worker' = worker /\ photos' = photos /\ overrun' = overrun
  BY DEF ClaimInv, Typed, ReclaimStale
<1>2. ASSUME NEW p \in Photos \ overrun, Expired(p) PROVE Unattended(p)
  <2>1. rows'[p].token = NoToken
    BY <1>1, <1>2, UnclaimedRow DEF ReclaimStale
  <2>2. rows[p].age > Lease /\ rows[p].age \in Nat
    BY <1>1, <1>2, RowFacts DEF Expired
  <2>3. \A w \in Workers : worker[w].pc \in Holding => worker[w].photo # p
    BY <2>2, PhotoWorkAssumption DEF ClaimInv, LeaseRuns
  <2>4. QED
    BY <1>1, <2>1, <2>3 DEF Unattended
<1>3. \A p \in Photos : ~Expired(p) => StillClaimed(p)
  BY <1>1 DEF ReclaimStale, StillClaimed, Present
<1>4. \A p \in Photos : rows'[p].token \in {rows[p].token, NoToken}
  BY <1>1, UnclaimedRow DEF ReclaimStale
<1>5. QED
  BY <1>1, <1>2, <1>3, <1>4 DEF Weakens

-------------------------------------------------------------------------------
(***************************************************************************)
(* The steps that take a claim, look at it, or let time pass.             *)
(***************************************************************************)
LEMMA ClaimClaim ==
  ASSUME ClaimInv, Typed', NEW w \in Workers, Claim(w)
  PROVE  ClaimInv'
<1>1. CrewOK /\ TableOK /\ TokensHeld /\ TokensDiffer /\ GoneForGood /\ LeaseRuns /\ ClaimHeld
  BY DEF ClaimInv, Typed
<1>2. PICK p \in Photos, k \in Tokens :
        /\ IsBest(p, Claimable(w)) /\ Fresh(k)
        /\ rows' = [rows EXCEPT ![p] = [@ EXCEPT !.token = k, !.age = 0]]
        /\ worker' = [worker EXCEPT ![w] = [IdleWorker EXCEPT !.pc = "fetch", !.token = k]]
  BY DEF Claim
<1>3. /\ rows[p].token = NoToken /\ Present(p) /\ rows[p] \in Row
      /\ photos' = photos /\ overrun' = overrun
  BY <1>1, <1>2, RowFacts, PhotoWorkAssumption DEF IsBest, Claimable, Claim
<1>4. /\ rows'[p].token = k /\ rows'[p].age = 0 /\ rows'[p].stages = rows[p].stages
      /\ \A q \in Photos \ {p} : rows'[q] = rows[q]
  BY <1>1, <1>2, <1>3 DEF TableOK, Row
<1>5. /\ worker'[w].pc = "fetch" /\ worker'[w].token = k
      /\ \A u \in Workers \ {w} : worker'[u] = worker[u]
  BY <1>1, <1>2 DEF CrewOK, IdleWorker
<1>6. /\ \A q \in Photos : rows[q].token # k
      /\ \A u \in Workers : worker[u].token # k
      /\ k # NoToken
  BY <1>2, PhotoWorkAssumption DEF Fresh
<1>7. TokensHeld'
  BY <1>1, <1>5, <1>6 DEF TokensHeld
<1>8. TokensDiffer'
  BY <1>1, <1>4, <1>5, <1>6 DEF TokensDiffer
<1>9. ASSUME NEW u \in Workers, worker'[u].pc \in Holding
      PROVE  /\ worker'[u] = worker[u] /\ worker[u].photo \in Photos
             /\ \/ worker[u].photo \in overrun
                \/ worker[u].photo # p /\ rows'[worker[u].photo] = rows[worker[u].photo]
  <2>1. worker'[u] = worker[u] /\ worker[u].photo \in Photos
    BY <1>1, <1>5, <1>9, Pcs DEF CrewOK
  <2>2. worker[u].token # NoToken
    BY <1>1, <1>9, <2>1, Pcs DEF TokensHeld
  <2>3. worker[u].photo # p \/ p \in overrun
    BY <1>1, <1>3, <1>9, <2>1, <2>2 DEF ClaimHeld
  <2>4. QED
    BY <1>4, <2>1, <2>3
<1>10. ClaimHeld' /\ GoneForGood'
  BY <1>1, <1>3, <1>9 DEF ClaimHeld, GoneForGood, Present
<1>11. LeaseRuns'
  <2>1. ASSUME NEW u \in Workers, worker'[u].pc = "fetch", NEW q \in Photos \ overrun,
               rows'[q].token = worker'[u].token
        PROVE  rows'[q].age <= Lease
    <3>1. CASE q = p
      BY <1>4, <3>1, PhotoWorkAssumption
    <3>2. CASE q # p
      <4>1. rows'[q] = rows[q] /\ u # w
        BY <1>4, <1>5, <1>6, <2>1, <3>2
      <4>2. QED
        BY <1>1, <1>5, <2>1, <4>1 DEF LeaseRuns
    <3>3. QED
      BY <3>1, <3>2
  <2>2. QED
    BY <1>1, <1>3, <1>9, <2>1 DEF LeaseRuns
<1>12. QED
  BY <1>7, <1>8, <1>10, <1>11 DEF ClaimInv

LEMMA FetchClaim ==
  ASSUME ClaimInv, Typed', NEW w \in Workers, Fetch(w)
  PROVE  ClaimInv'
<1>1. CrewOK /\ TableOK /\ TokensHeld /\ TokensDiffer /\ GoneForGood /\ LeaseRuns /\ ClaimHeld
  BY DEF ClaimInv, Typed
<1>2. PICK p \in Photos :
        /\ rows[p].token = worker[w].token
        /\ worker' = [worker EXCEPT ![w] =
                        [@ EXCEPT !.pc = IF Pending(p, StageOf[w]) THEN "run" ELSE "release",
                                  !.photo = p, !.seen = rows[p].stages, !.cached = TRUE]]
  BY DEF Fetch
<1>3. worker[w].pc = "fetch" /\ rows' = rows /\ photos' = photos /\ overrun' = overrun
  BY DEF Fetch
<1>4. worker[w].token # NoToken /\ Present(p)
  BY <1>1, <1>2, <1>3, RowFacts DEF TokensHeld
<1>5. /\ worker'[w].pc \in Holding /\ worker'[w].photo = p
      /\ worker'[w].token = worker[w].token
      /\ \A u \in Workers \ {w} : worker'[u] = worker[u]
  <2>1. worker'[w] = [worker[w] EXCEPT !.pc = IF Pending(p, StageOf[w]) THEN "run" ELSE "release",
                                       !.photo = p, !.seen = rows[p].stages, !.cached = TRUE]
    BY <1>1, <1>2 DEF CrewOK
  <2>2. worker[w] \in WorkerState
    BY <1>1, WorkerFacts
  <2>3. worker'[w].pc \in {"run", "release"} /\ worker'[w].photo = p
        /\ worker'[w].token = worker[w].token
    BY <2>1, <2>2 DEF WorkerState
  <2>4. QED
    BY <1>1, <1>2, <2>3, Pcs DEF CrewOK
<1>6. TokensHeld' /\ TokensDiffer'
  BY <1>1, <1>3, <1>4, <1>5, Pcs DEF TokensHeld, TokensDiffer
<1>7. ClaimHeld' /\ GoneForGood'
  BY <1>1, <1>2, <1>3, <1>4, <1>5 DEF ClaimHeld, GoneForGood, Present
<1>8. LeaseRuns'
  <2>1. p \in overrun \/ rows[p].age <= Lease
    BY <1>1, <1>2, <1>3 DEF LeaseRuns
  <2>2. QED
    BY <1>1, <1>3, <1>5, <2>1, Pcs DEF LeaseRuns
<1>9. QED
  BY <1>6, <1>7, <1>8 DEF ClaimInv

\* A tick that ends the lease of a row somebody is at is an overrun.
LEMMA TickClaim ==
  ASSUME ClaimInv, Typed', Tick
  PROVE  ClaimInv'
<1>1. CrewOK /\ TableOK /\ TokensHeld /\ TokensDiffer /\ GoneForGood /\ LeaseRuns /\ ClaimHeld
  BY DEF ClaimInv, Typed
<1>2. worker' = worker /\ photos' = photos /\ overrun' = overrun \cup Overdue
  BY DEF Tick
<1>3. ASSUME NEW p \in Photos
      PROVE  /\ rows'[p].token = rows[p].token /\ rows'[p].stages = rows[p].stages
             /\ rows'[p].age \in {rows[p].age, rows[p].age + 1}
  <2>1. rows'[p] = rows[p] \/ rows'[p] = [rows[p] EXCEPT !.age = @ + 1]
    BY DEF Tick
  <2>2. rows[p] \in Row
    BY <1>1, RowFacts
  <2>3. QED
    BY <2>1, <2>2 DEF Row
<1>4. TokensHeld' /\ TokensDiffer'
  BY <1>1, <1>2, <1>3 DEF TokensHeld, TokensDiffer
<1>5. \A w \in Workers : worker[w].pc \in Holding => worker[w].photo \in Photos
  BY <1>1 DEF CrewOK
<1>6. ClaimHeld' /\ GoneForGood'
  BY <1>1, <1>2, <1>3, <1>5 DEF ClaimHeld, GoneForGood, Present
<1>7. LeaseRuns'
  <2> SUFFICES ASSUME NEW w \in Workers, NEW p \in Photos \ overrun, p \notin Overdue,
                      \/ worker[w].pc \in Holding /\ worker[w].photo = p
                      \/ worker[w].pc = "fetch" /\ rows'[p].token = worker[w].token
               PROVE  rows'[p].age <= Lease
    BY <1>2 DEF LeaseRuns
  <2>1. rows[p].age <= Lease /\ rows[p].age \in Nat /\ Lease \in Nat
    BY <1>1, <1>3, RowFacts, PhotoWorkAssumption DEF LeaseRuns
  <2>2. CASE rows[p].token = NoToken
    BY <2>1, <2>2 DEF Tick
  <2>3. CASE rows[p].token # NoToken
    <3>1. rows[p].token = worker[w].token
      BY <1>1, <1>3, <2>3, RowFacts DEF ClaimHeld
    <3>2. rows[p].age # Lease
      BY <2>3, <3>1 DEF Overdue
    <3>3. rows'[p].age \in {rows[p].age, rows[p].age + 1}
      BY <1>3
    <3>4. QED
      BY <2>1, <3>2, <3>3
  <2>4. QED
    BY <2>2, <2>3
<1>8. QED
  BY <1>4, <1>6, <1>7 DEF ClaimInv

LEMMA ClaimInit == Init => ClaimInv
<1> SUFFICES ASSUME Init PROVE ClaimInv
  OBVIOUS
<1>1. \A w \in Workers : worker[w] = IdleWorker
  BY DEF Init
<1>2. \A p \in Photos : rows[p] = NoRow
  BY DEF Init
<1>3. TokensHeld /\ TokensDiffer
  BY <1>1, <1>2, Nulls DEF TokensHeld, TokensDiffer
<1>4. GoneForGood /\ ClaimHeld /\ LeaseRuns
  BY <1>1, Nulls, Pcs DEF GoneForGood, ClaimHeld, LeaseRuns
<1>5. QED
  BY <1>3, <1>4, TypedInit DEF ClaimInv

LEMMA ClaimStep == ClaimInv /\ [Next]_vars => ClaimInv'
<1> SUFFICES ASSUME ClaimInv, [Next]_vars PROVE ClaimInv'
  OBVIOUS
<1>1. Typed'
  BY TypedStep DEF ClaimInv
<1>2. CASE \E w \in Workers : Step(w) \/ Abandon(w) \/ \E s \in Stages : HandOff(w, s)
  BY <1>1, <1>2, ClaimClaim, FetchClaim, ThreadWeakens, WriteWeakens, SettleWeakens,
     WeakensClaim DEF Step
<1>3. CASE \E c \in Clients :
             \/ \E p \in Photos, s \in Stages, prio \in Prios : EnqueueStage(c, p, s, prio)
             \/ Commit(c) \/ CommitFails(c)
  BY <1>1, <1>3, SessionWeakens, WeakensClaim
<1>4. CASE (\E p \in Photos : DeletePhoto(p)) \/ Crash \/ ReclaimStale
  BY <1>1, <1>4, DeleteWeakens, ThreadWeakens, ReclaimWeakens, WeakensClaim
<1>5. CASE Tick
  BY <1>1, <1>5, TickClaim
<1>6. CASE UNCHANGED vars
  <2>1. Weakens
    BY <1>6 DEF vars, Weakens, StillClaimed, Present
  <2>2. QED
    BY <1>1, <2>1, WeakensClaim
<1>7. QED
  BY <1>2, <1>3, <1>4, <1>5, <1>6 DEF Next

\* A thread that holds a photo owns the photo's row, whatever requests, stale
\* batches, deletions, crashes, the sweeper and other threads do meanwhile:
\* only a handler that outlasts its own lease loses its claim.
THEOREM ClaimsHold == Spec => []ClaimHeld
<1>1. ClaimInv => ClaimHeld
  BY DEF ClaimInv
<1>2. QED
  BY <1>1, ClaimInit, ClaimStep, PTL DEF Spec

-------------------------------------------------------------------------------
(***************************************************************************)
(* Stages.  A thread writes whole maps back, so what it keeps of its row  *)
(* must have every pending stage of the row, unless two sessions, or a    *)
(* handler beyond its lease, were at it; and a row to be finished has none. *)
(***************************************************************************)
\* Photos that two claims, or a claim and a request, may have been at together.
Marred == torn \cup overrun

CopyFaithful(w) ==
  LET p == worker[w].photo
  IN worker[w].pc \in Holding /\ p \notin Marred /\ Present(p) =>
       /\ worker[w].cached \/ worker[w].pc \in Writing \cup {"handoff"} =>
            \A s \in Stages : Pending(p, s) => worker[w].seen[s] = "pending"
       /\ worker[w].pc = "finish" => \A s \in Stages : ~Pending(p, s)

Faithful == \A w \in Workers : CopyFaithful(w)

\* OnlyOverlapsForget, of one step.
NoneForgotten ==
  \A p \in Photos, s \in Stages :
    Pending(p, s) /\ ~Pending(p, s)' => p \in Marred' \/ Settled(p, s)

StagesKept(p) == rows'[p].stages = rows[p].stages

\* A thread that does nothing stays faithful if its row keeps its stages, is
\* marred, or is deleted.
LEMMA CopyKept ==
  ASSUME NEW u \in Workers, CopyFaithful(u), worker'[u] = worker[u], Marred \subseteq Marred',
         worker[u].pc \in Holding =>
           \/ StagesKept(worker[u].photo)
           \/ worker[u].photo \in Marred'
           \/ rows'[worker[u].photo] = NoRow
  PROVE  CopyFaithful(u)'
<1> SUFFICES ASSUME NEW p, p = worker[u].photo, worker[u].pc \in Holding,
                    p \notin Marred', rows'[p].stages # NoStages
             PROVE  /\ worker[u].cached \/ worker[u].pc \in Writing \cup {"handoff"} =>
                         \A s \in Stages : rows'[p].stages[s] = "pending"
                                             => worker[u].seen[s] = "pending"
                    /\ worker[u].pc = "finish" =>
                         \A s \in Stages : rows'[p].stages[s] # "pending"
  BY DEF CopyFaithful, Present, Pending
<1>1. StagesKept(p)
  BY Nulls
<1>2. p \notin Marred /\ Present(p)
  BY <1>1 DEF StagesKept, Present
<1>3. QED
  BY <1>1, <1>2 DEF CopyFaithful, StagesKept, Pending

LEMMA StagesKeptForgetNone ==
  ASSUME \A p \in Photos : StagesKept(p)
  PROVE  NoneForgotten
  BY DEF NoneForgotten, StagesKept, Pending

LEMMA IdleIsFaithful ==
  ASSUME NEW w \in Workers, worker'[w].pc \notin Holding
  PROVE  CopyFaithful(w)'
  BY DEF CopyFaithful

\* A step of one thread that leaves the rows' stages alone.
LEMMA OneThreadFaithful ==
  ASSUME ClaimInv, Faithful, NEW w \in Workers, Marred' = Marred,
         \A p \in Photos : StagesKept(p),
         \A u \in Workers \ {w} : worker'[u] = worker[u],
         CopyFaithful(w)'
  PROVE  Faithful' /\ NoneForgotten
<1>1. ASSUME NEW u \in Workers \ {w} PROVE CopyFaithful(u)'
  <2>1. worker[u].pc \in Holding => worker[u].photo \in Photos
    BY DEF ClaimInv, Typed, CrewOK
  <2>2. QED
    BY <2>1, CopyKept DEF Faithful
<1>2. Faithful'
  BY <1>1 DEF Faithful
<1>3. QED
  BY <1>2, StagesKeptForgetNone

LEMMA FetchFaithful ==
  ASSUME ClaimInv, Faithful, NEW w \in Workers, Claim(w) \/ Fetch(w) \/ FetchNothing(w)
  PROVE  Faithful' /\ NoneForgotten
<1>1. CrewOK /\ TableOK /\ worker[w] \in WorkerState /\ Marred' = Marred
  BY WorkerFacts DEF ClaimInv, Typed, Claim, Fetch, FetchNothing, Marred
<1>2. \A u \in Workers \ {w} : worker'[u] = worker[u]
  BY <1>1 DEF Claim, Fetch, FetchNothing, CrewOK
<1>3. \A p \in Photos : StagesKept(p)
  <2>1. CASE Claim(w)
    <3>1. PICK q \in Photos, k \in Tokens :
            rows' = [rows EXCEPT ![q] = [@ EXCEPT !.token = k, !.age = 0]]
      BY <2>1 DEF Claim
    <3>2. rows[q] \in Row
      BY <1>1, RowFacts
    <3>3. /\ rows'[q] = [rows[q] EXCEPT !.token = k, !.age = 0]
          /\ \A p \in Photos \ {q} : rows'[p] = rows[p]
      BY <1>1, <3>1 DEF TableOK
    <3>4. rows'[q].stages = rows[q].stages
      BY <3>2, <3>3 DEF Row
    <3>5. QED
      BY <3>3, <3>4 DEF StagesKept
  <2>2. CASE ~Claim(w)
    BY <2>2 DEF Fetch, FetchNothing, StagesKept
  <2>3. QED
    BY <2>1, <2>2
<1>4. CopyFaithful(w)'
  <2>1. CASE Fetch(w)
    <3>1. PICK q \in Photos, pc \in {"run", "release"} :
            worker' = [worker EXCEPT ![w] = [@ EXCEPT !.pc = pc, !.photo = q,
                                               !.seen = rows[q].stages, !.cached = TRUE]]
      BY <2>1 DEF Fetch
    <3>2. worker'[w] = [worker[w] EXCEPT !.pc = pc, !.photo = q,
                                          !.seen = rows[q].stages, !.cached = TRUE]
      BY <1>1, <3>1 DEF CrewOK
    <3>3. worker'[w].pc = pc /\ worker'[w].photo = q /\ worker'[w].seen = rows[q].stages
      BY <1>1, <3>2 DEF WorkerState
    <3>4. rows' = rows
      BY <2>1 DEF Fetch
    <3>5. QED
      BY <3>3, <3>4 DEF CopyFaithful, Pending
  <2>2. CASE ~Fetch(w)
    <3>1. worker'[w].pc \in {"idle", "fetch"}
      BY <1>1, <2>2, Nulls DEF Claim, FetchNothing, CrewOK, IdleWorker
    <3>2. QED
      BY <3>1, Pcs, IdleIsFaithful
  <2>3. QED
    BY <2>1, <2>2
<1>5. QED
  BY <1>1, <1>2, <1>3, <1>4, OneThreadFaithful

\* What a session reads of its thread's row has every stage of it that is pending.
LEMMA LoadedIsFaithful ==
  ASSUME ClaimInv, Faithful, NEW w \in Workers, worker[w].pc = "run",
         worker[w].photo \notin Marred, Present(worker[w].photo),
         NEW s \in Stages, Pending(worker[w].photo, s)
  PROVE  Loaded(w)[s] = "pending"
  BY Pcs DEF Faithful, CopyFaithful, Loaded, Pending

LEMMA HandlerFaithful ==
  ASSUME ClaimInv, Faithful, NEW w \in Workers,
         \/ HandlerCommits(w) \/ HandlerEnds(w) \/ Decide(w)
         \/ \E s \in Stages : HandOff(w, s)
  PROVE  Faithful' /\ NoneForgotten
<1>1. CrewOK /\ worker[w] \in WorkerState /\ Marred' = Marred /\ rows' = rows
  BY WorkerFacts DEF ClaimInv, Typed, HandlerCommits, HandlerEnds, Decide, HandOff, Marred
<1>2. \A u \in Workers \ {w} : worker'[u] = worker[u]
  BY <1>1 DEF HandlerCommits, HandlerEnds, Decide, HandOff, CrewOK
<1>3. \A p \in Photos : StagesKept(p)
  BY <1>1 DEF StagesKept
<1>4. PICK p \in Photos : p = worker[w].photo
  BY <1>1, WorkerFacts, Pcs DEF HandlerCommits, HandlerEnds, Decide, HandOff
<1>5. CASE HandlerCommits(w)
  <2>1. worker'[w] = [worker[w] EXCEPT !.cached = FALSE] /\ worker[w].pc = "run"
    BY <1>1, <1>5 DEF HandlerCommits, CrewOK
  <2>2. worker'[w].pc = "run" /\ ~worker'[w].cached
    BY <1>1, <2>1 DEF WorkerState
  <2>3. CopyFaithful(w)'
    BY <2>2 DEF CopyFaithful, Writing
  <2>4. QED
    BY <1>1, <1>2, <1>3, <2>3, OneThreadFaithful
<1>6. CASE HandlerEnds(w)
  <2>1. PICK result \in Writing :
          worker' = [worker EXCEPT ![w] = [@ EXCEPT !.pc = result, !.cached = TRUE,
                                                    !.seen = Loaded(w)]]
    BY <1>6 DEF HandlerEnds
  <2>2. worker'[w] = [worker[w] EXCEPT !.pc = result, !.cached = TRUE, !.seen = Loaded(w)]
    BY <1>1, <2>1 DEF CrewOK
  <2>3. worker'[w].pc = result /\ worker'[w].photo = p /\ worker'[w].seen = Loaded(w)
    BY <1>1, <1>4, <2>2 DEF WorkerState
  <2>4. worker[w].pc = "run" /\ result # "finish"
    BY <1>6 DEF HandlerEnds, Writing
  <2>5. p \notin Marred /\ Present(p) =>
          \A s \in Stages : Pending(p, s) => Loaded(w)[s] = "pending"
    BY <1>4, <2>4, LoadedIsFaithful
  <2>6. CopyFaithful(w)'
    BY <1>1, <2>3, <2>4, <2>5 DEF CopyFaithful, Pending, Present
  <2>7. QED
    BY <1>1, <1>2, <1>3, <2>6, OneThreadFaithful
<1>7. ASSUME NEW s \in Stages, HandOff(w, s) PROVE CopyFaithful(w)'
  <2> DEFINE m == [Loaded(w) EXCEPT ![s] = "pending"]
  <2>1. worker'[w] = [worker[w] EXCEPT !.pc = "handoff", !.cached = TRUE, !.seen = m]
    BY <1>1, <1>7 DEF HandOff, CrewOK
  <2>2. worker'[w].pc = "handoff" /\ worker'[w].photo = p /\ worker'[w].seen = m
    BY <1>1, <1>4, <2>1 DEF WorkerState
  <2>3. Loaded(w) \in StageMap
    BY <1>1, <1>4, WorkerFacts, RowFacts DEF Loaded, ClaimInv, Typed
  <2>4. \A r \in Stages : Loaded(w)[r] = "pending" => m[r] = "pending"
    BY <2>3 DEF StageMap
  <2>5. p \notin Marred /\ Present(p) =>
          \A r \in Stages : Pending(p, r) => Loaded(w)[r] = "pending"
    BY <1>4, <1>7, LoadedIsFaithful DEF HandOff
  <2> HIDE DEF m
  <2>6. QED
    BY <1>1, <2>2, <2>4, <2>5 DEF CopyFaithful, Pending, Present
<1>8. CASE Decide(w)
  <2>1. \/ worker'[w] = IdleWorker
        \/ /\ worker'[w] = [worker[w] EXCEPT !.pc = "finish"]
           /\ \A s \in Stages : ~Pending(p, s)
        \/ worker'[w] = [worker[w] EXCEPT !.pc = "release"]
    BY <1>1, <1>4, <1>8 DEF Decide, CrewOK
  <2>2. /\ worker[w].pc = "decide"
        /\ \/ worker'[w].pc = "idle"
           \/ /\ worker'[w].photo = p /\ worker'[w].cached = worker[w].cached
              /\ worker'[w].seen = worker[w].seen
              /\ \/ worker'[w].pc = "finish" /\ \A s \in Stages : ~Pending(p, s)
                 \/ worker'[w].pc = "release"
    BY <1>1, <1>4, <1>8, <2>1, Nulls DEF Decide, WorkerState
  <2>3. CASE worker'[w].pc = "idle"
    BY <1>1, <1>2, <1>3, <2>3, Pcs, IdleIsFaithful, OneThreadFaithful
  <2>4. CASE worker'[w].pc # "idle"
    <3>1. CopyFaithful(w)
      BY DEF Faithful
    <3>2. CopyFaithful(w)'
      BY <1>1, <1>4, <2>2, <2>4, <3>1, Pcs DEF CopyFaithful, Pending, Present, Writing
    <3>3. QED
      BY <1>1, <1>2, <1>3, <3>2, OneThreadFaithful
  <2>5. QED
    BY <2>3, <2>4
<1>9. QED
  <2>1. CASE \E s \in Stages : HandOff(w, s)
    <3>1. CopyFaithful(w)'
      BY <1>7, <2>1
    <3>2. QED
      BY <1>1, <1>2, <1>3, <3>1, OneThreadFaithful
  <2>2. QED
    BY <1>5, <1>6, <1>8, <2>1

\* The map that thread w writes for p is its own, but for stages it settles.
OwnMap(w, p, m) == \A s \in Stages : m[s] = worker[w].seen[s] \/ Settled(p, s)

\* A thread writes the map it keeps, in full: stages that are pending stay so,
\* but for the one it ran.
LEMMA MapWritten ==
  ASSUME ClaimInv, Faithful, NEW w \in Workers, NEW p \in Photos, p = worker[w].photo,
         worker[w].pc \in Writing \cup {"handoff"}, Marred' = Marred, Present(p),
         NEW m, rows' = [rows EXCEPT ![p].stages = m],
         \A u \in Workers \ {w} : worker'[u] = worker[u],
         ~worker'[w].cached, worker'[w].pc \in {"run", "decide"},
         OwnMap(w, p, m)
  PROVE  Faithful' /\ NoneForgotten
<1>1. CrewOK /\ TableOK /\ rows[p] \in Row /\ worker[w].pc \in Holding
  BY RowFacts, Pcs DEF ClaimInv, Typed
<1>2. /\ rows'[p] = [rows[p] EXCEPT !.stages = m]
      /\ \A q \in Photos \ {p} : rows'[q] = rows[q]
  BY <1>1 DEF TableOK
<1>3. rows'[p].stages = m
  BY <1>1, <1>2 DEF Row
<1>4. ASSUME NEW u \in Workers \ {w} PROVE CopyFaithful(u)'
  <2>1. ASSUME worker[u].pc \in Holding, worker[u].photo = p, p \notin overrun PROVE FALSE
    <3>1. rows[p].token = worker[u].token
      BY <2>1 DEF ClaimInv, ClaimHeld
    <3>2. QED
      BY <1>1, <2>1, <3>1, OneHolder
  <2>2. worker[u].pc \in Holding =>
          StagesKept(worker[u].photo) \/ worker[u].photo \in Marred'
    BY <1>1, <1>2, <2>1 DEF CrewOK, StagesKept, Marred
  <2>3. QED
    BY <2>2, CopyKept DEF Faithful
<1>5. CopyFaithful(w)'
  BY DEF CopyFaithful, Writing
<1>6. ASSUME NEW q \in Photos, NEW s \in Stages, Pending(q, s), ~Pending(q, s)'
      PROVE  q \in Marred' \/ Settled(q, s)
  <2>1. q = p
    BY <1>2, <1>6 DEF Pending
  <2>2. CASE p \notin Marred
    <3>1. worker[w].seen[s] = "pending"
      BY <1>1, <1>6, <2>1, <2>2 DEF Faithful, CopyFaithful
    <3>2. m[s] # worker[w].seen[s]
      BY <1>3, <1>6, <2>1, <3>1 DEF Pending
    <3>3. QED
      BY <2>1, <3>2 DEF OwnMap
  <2>3. QED
    BY <2>1, <2>2
<1>7. QED
  BY <1>4, <1>5, <1>6 DEF Faithful, NoneForgotten

LEMMA HandOffFaithful ==
  ASSUME ClaimInv, Faithful, NEW w \in Workers, CommitHandOff(w)
  PROVE  Faithful' /\ NoneForgotten
<1>1. CrewOK /\ worker[w] \in WorkerState
  BY WorkerFacts DEF ClaimInv, Typed
<1>2. PICK p \in Photos : p = worker[w].photo
  BY <1>1, WorkerFacts, Pcs DEF CommitHandOff
<1>3. worker'[w] = [worker[w] EXCEPT !.pc = "run", !.cached = FALSE]
      /\ \A u \in Workers \ {w} : worker'[u] = worker[u]
  BY <1>1 DEF CommitHandOff, CrewOK
<1>4. worker'[w].pc = "run" /\ ~worker'[w].cached
  BY <1>1, <1>3 DEF WorkerState
<1>5. /\ Present(p) /\ Marred' = Marred /\ worker[w].pc = "handoff"
      /\ rows' = [rows EXCEPT ![p].stages = worker[w].seen]
  BY <1>2 DEF CommitHandOff, RowGone, Marred
<1>6. OwnMap(w, p, worker[w].seen)
  BY DEF OwnMap
<1>7. QED
  BY <1>2, <1>3, <1>4, <1>5, <1>6, MapWritten

LEMMA WriteFaithful ==
  ASSUME ClaimInv, Faithful, NEW w \in Workers, Write(w)
  PROVE  Faithful' /\ NoneForgotten
<1> DEFINE m == [worker[w].seen EXCEPT ![StageOf[w]] = worker[w].pc]
<1>1. CrewOK /\ worker[w] \in WorkerState /\ Marred' = Marred
  BY WorkerFacts DEF ClaimInv, Typed, Write, Marred
<1>2. PICK p \in Photos : p = worker[w].photo
  BY <1>1, WorkerFacts, Pcs DEF Write
<1>3. worker'[w] = [worker[w] EXCEPT !.pc = "decide", !.cached = FALSE, !.seen = NoStages]
      /\ \A u \in Workers \ {w} : worker'[u] = worker[u]
  BY <1>1 DEF Write, CrewOK
<1>4. worker'[w].pc = "decide" /\ ~worker'[w].cached
  BY <1>1, <1>3 DEF WorkerState
<1>5. rows' = rows \/ (Present(p) /\ rows' = [rows EXCEPT ![p].stages = m])
  BY <1>2 DEF Write, RowGone
<1>6. CASE rows' = rows
  <2>1. CopyFaithful(w)'
    BY <1>4 DEF CopyFaithful, Writing
  <2>2. \A q \in Photos : StagesKept(q)
    BY <1>6 DEF StagesKept
  <2>3. QED
    BY <1>1, <1>3, <2>1, <2>2, OneThreadFaithful
<1>7. CASE Present(p) /\ rows' = [rows EXCEPT ![p].stages = m]
  <2>1. worker[w].seen \in StageMap /\ worker[w].pc \in Writing
    BY <1>1, WorkerFacts DEF Write
  <2>2. Settled(p, StageOf[w])
    BY <1>2, <1>4, <2>1 DEF Settled
  <2>3. OwnMap(w, p, m)
    BY <2>1, <2>2 DEF StageMap, OwnMap
  <2>4. /\ Present(p) /\ p = worker[w].photo
        /\ worker[w].pc \in Writing \cup {"handoff"}
        /\ worker'[w].pc \in {"run", "decide"}
    BY <1>2, <1>4, <1>7, <2>1
  <2>5. PICK f : rows' = [rows EXCEPT ![p].stages = f] /\ OwnMap(w, p, f)
    BY <1>7, <2>3
  <2>6. QED
    BY <1>1, <1>3, <1>4, <2>4, <2>5, MapWritten
<1>8. QED
  BY <1>5, <1>6, <1>7

\* A finished row had nothing pending, or was marred.
LEMMA SettleFaithful ==
  ASSUME ClaimInv, Faithful, NEW w \in Workers, Release(w) \/ Finish(w)
  PROVE  Faithful' /\ NoneForgotten
<1>1. CrewOK /\ TableOK /\ Marred' = Marred
  BY DEF ClaimInv, Typed, Release, Finish, Marred
<1>2. worker[w].pc \in Holding
  BY Pcs DEF Release, Finish
<1>3. PICK p \in Photos : p = worker[w].photo
  BY <1>1, <1>2, WorkerFacts
<1>4. worker'[w] = IdleWorker /\ \A u \in Workers \ {w} : worker'[u] = worker[u]
  BY <1>1 DEF Release, Finish, CrewOK
<1>5. \A q \in Photos \ {p} : rows'[q] = rows[q]
  BY <1>1, <1>3 DEF Release, Finish, TableOK
<1>6. CopyFaithful(w)'
  BY <1>4, Nulls, Pcs, IdleIsFaithful
<1>7. CASE Release(w)
  <2>1. rows'[p] = Unclaimed(p)
    BY <1>1, <1>3, <1>7 DEF Release, TableOK
  <2>2. \A q \in Photos : StagesKept(q)
    BY <1>1, <1>5, <2>1, UnclaimedRow DEF StagesKept
  <2>3. QED
    BY <1>1, <1>4, <1>6, <2>2, OneThreadFaithful
<1>8. CASE Finish(w)
  <2>1. rows'[p] = NoRow
    BY <1>1, <1>3, <1>8 DEF Finish, TableOK
  <2>2. ASSUME NEW u \in Workers \ {w} PROVE CopyFaithful(u)'
    <3>1. \A q \in Photos : StagesKept(q) \/ rows'[q] = NoRow
      BY <1>5, <2>1 DEF StagesKept
    <3>2. worker[u].pc \in Holding => worker[u].photo \in Photos
      BY <1>1 DEF CrewOK
    <3>3. CopyFaithful(u) /\ worker'[u] = worker[u]
      BY <1>4 DEF Faithful
    <3>4. QED
      BY <1>1, <3>1, <3>2, <3>3, CopyKept
  <2>3. ASSUME NEW q \in Photos, NEW s \in Stages, Pending(q, s), ~Pending(q, s)'
        PROVE  q \in Marred'
    <3>1. q = p
      BY <1>5, <2>3 DEF Pending
    <3>2. Present(p)
      BY <1>1, <2>3, <3>1, RowFacts
    <3>3. p \in Marred
      BY <1>2, <1>3, <1>8, <2>3, <3>1, <3>2 DEF Faithful, CopyFaithful, Finish
    <3>4. QED
      BY <1>1, <3>1, <3>3
  <2>4. QED
    BY <1>6, <2>2, <2>3 DEF Faithful, NoneForgotten
<1>9. QED
  BY <1>7, <1>8

\* The steps of which no thread's copy hears: it stays faithful, since the row
\* keeps its stages, is marred, or is deleted.
LEMMA OutsideFaithful ==
  ASSUME ClaimInv, Faithful, worker' = worker, Marred \subseteq Marred',
         \A p \in Photos :
           \/ StagesKept(p)
           \/ p \in Marred'
           \/ rows'[p] = NoRow
           \/ \A w \in Workers : worker[w].pc \in Holding => worker[w].photo # p
  PROVE  Faithful'
<1>1. ASSUME NEW u \in Workers PROVE CopyFaithful(u)'
  <2>1. worker[u].pc \in Holding => worker[u].photo \in Photos
    BY DEF ClaimInv, Typed, CrewOK
  <2>2. CopyFaithful(u) /\ worker'[u] = worker[u]
    BY DEF Faithful
  <2>3. QED
    BY <2>1, <2>2, CopyKept
<1>2. QED
  BY <1>1 DEF Faithful

\* A commit that rewrites stages finds the row as it was read and nobody
\* holding it, or tears it.
LEMMA CommitFaithful ==
  ASSUME ClaimInv, Faithful, NEW c \in Clients, Commit(c)
  PROVE  Faithful' /\ NoneForgotten
<1>1. Typed /\ TableOK /\ BatchOK /\ worker' = worker /\ Marred' = Marred \cup Overlapping(c)
  BY DEF ClaimInv, Typed, Commit, Marred
<1>2. ASSUME NEW p \in Photos
      PROVE  /\ \/ StagesKept(p) \/ p \in Marred'
                \/ \A w \in Workers : worker[w].pc \in Holding => worker[w].photo # p
             /\ \A s \in Stages : Pending(p, s) /\ ~Pending(p, s)' => p \in Marred'
  <2>1. CASE p \notin Batched(c)
    <3>1. rows'[p] = rows[p]
      BY <1>1, <2>1, CommitWrites
    <3>2. QED
      BY <3>1 DEF StagesKept, Pending
  <2>2. CASE p \in Batched(c) /\ batch[c][p].stage = NoStage
    <3>1. rows'[p].stages = rows[p].stages
      BY <1>1, <2>2, CommitWrites, MergedRow
    <3>2. QED
      BY <3>1 DEF StagesKept, Pending
  <2>3. CASE p \in Overlapping(c)
    BY <1>1, <2>3
  <2>4. CASE /\ p \in Batched(c) /\ batch[c][p].stage # NoStage
             /\ rows[p].stages = batch[c][p].was /\ rows[p].token = NoToken
    <3>1. /\ rows'[p].stages = [rows[p].stages EXCEPT ![batch[c][p].stage] = "pending"]
          /\ p \in photos
      BY <1>1, <2>4, CommitWrites, MergedRow
    <3>2. rows[p].stages \in StageMap
      BY <1>1, RowFacts
    <3>3. \A s \in Stages : Pending(p, s) => rows'[p].stages[s] = "pending"
      BY <3>1, <3>2 DEF StageMap, Pending
    <3>4. ASSUME NEW w \in Workers, worker[w].pc \in Holding, worker[w].photo = p,
                 p \notin overrun
          PROVE  FALSE
      <4>1. worker[w].token # NoToken
        BY <3>4, Pcs DEF ClaimInv, TokensHeld
      <4>2. Present(p)
        BY <3>1, <3>4 DEF ClaimInv, GoneForGood
      <4>3. QED
        BY <2>4, <3>4, <4>1, <4>2 DEF ClaimInv, ClaimHeld
    <3>5. QED
      BY <1>1, <3>3, <3>4 DEF Pending, Marred
  <2>5. QED
    BY <2>1, <2>2, <2>3, <2>4 DEF Overlapping
<1>3. Faithful'
  BY <1>1, <1>2, OutsideFaithful
<1>4. QED
  BY <1>2, <1>3 DEF NoneForgotten

\* Requests read, batches fail, photos are deleted, stale claims cleared, and
\* time passes; threads are idle after a failure.
LEMMA QuietFaithful ==
  ASSUME ClaimInv, Faithful,
         \/ \E c \in Clients :
              \/ \E p \in Photos, s \in Stages, prio \in Prios : EnqueueStage(c, p, s, prio)
              \/ CommitFails(c)
         \/ \E p \in Photos : DeletePhoto(p)
         \/ ReclaimStale \/ Tick \/ UNCHANGED vars
  PROVE  Faithful' /\ NoneForgotten
<1>1. worker' = worker /\ Marred \subseteq Marred' /\ TableOK
  BY DEF EnqueueStage, CommitFails, DeletePhoto, ReclaimStale, Tick, vars, ClaimInv, Typed, Marred
<1>2. CASE \E p \in Photos : DeletePhoto(p)
  <2>1. PICK p \in Photos : DeletePhoto(p)
    BY <1>2
  <2>2. rows'[p] = NoRow /\ p \notin photos' /\ \A q \in Photos \ {p} : rows'[q] = rows[q]
    BY <1>1, <2>1 DEF DeletePhoto, TableOK
  <2>3. Faithful'
    BY <1>1, <2>2, OutsideFaithful DEF StagesKept
  <2>4. NoneForgotten
    BY <2>2 DEF NoneForgotten, Settled, Pending
  <2>5. QED
    BY <2>3, <2>4
<1>3. CASE ~\E p \in Photos : DeletePhoto(p)
  <2>1. \A p \in Photos : StagesKept(p)
    <3>1. CASE ReclaimStale
      BY <1>1, <3>1, UnclaimedRow DEF ReclaimStale, StagesKept
    <3>2. CASE Tick
      <4>1. ASSUME NEW p \in Photos PROVE StagesKept(p)
        <5>1. rows'[p] = rows[p] \/ rows'[p] = [rows[p] EXCEPT !.age = @ + 1]
          BY <3>2 DEF Tick
        <5>2. rows[p] \in Row
          BY <1>1, RowFacts
        <5>3. QED
          BY <5>1, <5>2 DEF Row, StagesKept
      <4>2. QED
        BY <4>1
    <3>3. CASE rows' = rows
      BY <3>3 DEF StagesKept
    <3>4. QED
      BY <1>3, <3>1, <3>2, <3>3 DEF EnqueueStage, CommitFails, vars
  <2>2. QED
    BY <1>1, <2>1, OutsideFaithful, StagesKeptForgetNone
<1>4. QED
  BY <1>2, <1>3

LEMMA StopFaithful ==
  ASSUME ClaimInv, Faithful, Crash \/ \E w \in Workers : LosesRow(w) \/ Abandon(w)
  PROVE  Faithful' /\ NoneForgotten
<1>1. CrewOK /\ rows' = rows /\ Marred' = Marred
  BY DEF ClaimInv, Typed, Crash, LosesRow, Abandon, Marred
<1>2. \A p \in Photos : StagesKept(p)
  BY <1>1 DEF StagesKept
<1>3. ASSUME NEW u \in Workers PROVE CopyFaithful(u)'
  <2>1. worker'[u] = worker[u] \/ worker'[u] = IdleWorker
    BY <1>1 DEF Crash, LosesRow, Abandon, CrewOK
  <2>2. CASE worker'[u] = IdleWorker
    BY <2>2, Nulls, Pcs, IdleIsFaithful
  <2>3. CASE worker'[u] = worker[u]
    BY <1>1, <1>2, <2>3, CopyKept DEF CrewOK, Faithful
  <2>4. QED
    BY <2>1, <2>2, <2>3
<1>4. QED
  BY <1>2, <1>3, StagesKeptForgetNone DEF Faithful

LEMMA StageStep ==
  ASSUME ClaimInv, Faithful, [Next]_vars
  PROVE  Faithful' /\ NoneForgotten
<1>1. CASE \E w \in Workers : Step(w) \/ Abandon(w) \/ \E s \in Stages : HandOff(w, s)
  BY <1>1, FetchFaithful, HandlerFaithful, HandOffFaithful, WriteFaithful,
     SettleFaithful, StopFaithful DEF Step
<1>2. CASE \E c \in Clients : Commit(c)
  BY <1>2, CommitFaithful
<1>3. CASE \/ \E c \in Clients :
                \/ \E p \in Photos, s \in Stages, prio \in Prios : EnqueueStage(c, p, s, prio)
                \/ CommitFails(c)
           \/ \E p \in Photos : DeletePhoto(p)
           \/ ReclaimStale \/ Tick \/ UNCHANGED vars
  BY <1>3, QuietFaithful
<1>4. CASE Crash
  BY <1>4, StopFaithful
<1>5. QED
  BY <1>1, <1>2, <1>3, <1>4 DEF Next

\* A stage that was asked for is forgotten only where sessions overlapped:
\* otherwise it stays pending until a thread of its pool ran it, in spite of
\* the whole maps that threads write back, of failed writes, and of crashes.
THEOREM OverlapsForget == Spec => OnlyOverlapsForget
<1>1. Init => Faithful
  BY Nulls, Pcs DEF Init, Faithful, CopyFaithful
<1>2. ClaimInv /\ Faithful /\ [Next]_vars => Faithful'
  BY StageStep
<1>3. ClaimInv /\ Faithful /\ [Next]_vars =>
        [\A p \in Photos, s \in Stages :
           Pending(p, s) /\ ~Pending(p, s)' =>
             p \in torn' \/ p \in overrun' \/ Settled(p, s)]_vars
  BY StageStep DEF NoneForgotten, Marred
<1>4. QED
  BY <1>1, <1>2, <1>3, ClaimInit, ClaimStep, PTL DEF Spec, OnlyOverlapsForget

===============================================================================
