---------------------------- MODULE ServicesProofs -----------------------------
(***************************************************************************)
(* Proofs about Services for all constants.  Classification comes first,   *)
(* then the timeline: for each an inductive invariant, one lemma per       *)
(* action, and what follows.  Those of the other parts are in PartsProofs. *)
(* At the end the services are shown to behave as each of their parts.     *)
(***************************************************************************)
EXTENDS PartsProofs

-------------------------------------------------------------------------------
(***************************************************************************)
(* Classification.  A roll-up that does not say what the columns say has a *)
(* thread before its own roll-up, a queued job, or a stage that was asked  *)
(* for and is pending (and will be come to); no job looks at a photo that  *)
(* has no SHA; and text recognition is asked of images alone.              *)
(***************************************************************************)
OwedReached ==
  \A p \in SeenPhotos : \A s \in owed[p] : col[p][s] = "pending" => Vision!Reached(p, s)

RollUpDue ==
  \A p \in SeenPhotos :
    \/ rolled[p] = Vision!RollUp(col[p]) \/ p \in drifted \/ queued[p] > 0
    \/ \E t \in Threads : Vision!Runs(t, p) /\ thread[t].pc # "end"
    \/ \E s \in owed[p] \cap Vision!Rolled : col[p][s] = "pending"

Unhashed ==
  /\ \A p \in SeenPhotos \ hashed : rolled[p] = "pending" /\ \A s \in Vision!Rolled : col[p][s] = "pending"
  /\ \A t \in Threads : thread[t] # Vision!Idle /\ thread[t].pc # "end" => thread[t].photo \in hashed

OcrOfImages ==
  \A p \in SeenPhotos \ images :
    Ocr \notin owed[p] /\ Ocr \notin ask[p] /\ \A r \in Retries : p \notin retry[r].ids

Marks == {"none", "pending", "ok", "failed"}
Rows == {Vision!NoRow} \cup [col : [Vision!Stages -> Marks], rolled : {"pending", "ok", "failed"}]
Job == [pc : {"look", "run", "write", "end"}, photo : SeenPhotos, at : 1..(Len(Walk) + 2), row : Rows]
Walking ==
  /\ thread \in [Threads -> Job \cup {Vision!Idle}]
  /\ \A t \in Threads : thread[t].pc = "run" => thread[t].at <= Len(Vision!Order)

StagesInv == Vision!TypeOK /\ Walking /\ OwedReached /\ RollUpDue /\ Unhashed

-------------------------------------------------------------------------------
LEMMA Walked ==
  ASSUME Vision!ClassifyConstants
  PROVE  /\ Len(Vision!Order) = Len(Walk) + 1 /\ Len(Walk) \in Nat \ {0} /\ Vision!Rolled # {}
         /\ \A i \in 1..Len(Walk) : Vision!Order[i] = Walk[i] /\ Vision!Order[i] \in Vision!Rolled
         /\ Vision!Order[Len(Walk) + 1] = Ocr
         /\ \A i \in 1..Len(Vision!Order) : Vision!Order[i] \in Vision!Stages
         /\ \A s \in Vision!Stages : \E i \in 1..Len(Vision!Order) : Vision!Order[i] = s
<1>1. Walk \in Seq(Vision!Rolled)
  BY DEF Vision!ClassifyConstants, Vision!Rolled
<1>2. Walk \in Seq(Vision!Stages) /\ Ocr \in Vision!Stages
  BY <1>1 DEF Vision!Stages
<1>3. Len(Walk) \in Nat /\ Len(Walk) # 0
  BY <1>1, EmptySeq DEF Vision!ClassifyConstants
<1>4. /\ Vision!Order \in Seq(Vision!Stages) /\ Len(Vision!Order) = Len(Walk) + 1
      /\ \A i \in 1..Len(Walk) : Vision!Order[i] = Walk[i]
      /\ Vision!Order[Len(Walk) + 1] = Ocr
  BY <1>2, AppendProperties DEF Vision!Order
<1>5. \A i \in 1..Len(Walk) : Walk[i] \in Vision!Rolled
  BY DEF Vision!Rolled
<1>6. 1 \in 1..Len(Walk)
  BY <1>3
<1>7. Vision!Rolled # {}
  BY <1>5, <1>6
<1>8. \A i \in 1..Len(Vision!Order) : Vision!Order[i] \in Vision!Stages
  BY <1>4
<1>9. ASSUME NEW s \in Vision!Stages PROVE \E i \in 1..Len(Vision!Order) : Vision!Order[i] = s
  <2>1. CASE s = Ocr
    <3>1. Len(Walk) + 1 \in 1..Len(Vision!Order)
      BY <1>3, <1>4
    <3>2. QED
      BY <1>4, <2>1, <3>1
  <2>2. CASE s \in Vision!Rolled
    <3>1. PICK i \in 1..Len(Walk) : s = Walk[i]
      BY <2>2 DEF Vision!Rolled
    <3>2. i \in 1..Len(Vision!Order)
      BY <1>3, <1>4
    <3>3. QED
      BY <1>4, <3>1, <3>2
  <2>3. QED
    BY <2>1, <2>2 DEF Vision!Stages
<1>10. QED
  BY <1>3, <1>4, <1>5, <1>7, <1>8, <1>9

\* A roll-up is pending while a rolled-up stage is.
LEMMA PendingRollUp ==
  ASSUME NEW c, NEW s \in Vision!Rolled, c[s] = "pending"
  PROVE  Vision!RollUp(c) = "pending"
  BY DEF Vision!RollUp

LEMMA IdleIsNone ==
  Vision!Idle \notin Job /\ Vision!Idle.pc = "idle"
  BY DEF Vision!Idle, Job

\* Only the columns that are rolled up count.
LEMMA SameRollUp ==
  ASSUME NEW c, NEW d, \A s \in Vision!Rolled : c[s] = d[s]
  PROVE  Vision!RollUp(c) = Vision!RollUp(d)
<1>1. \A s \in Vision!Rolled : (c[s] = "ok" <=> d[s] = "ok") /\ (c[s] = "failed" <=> d[s] = "failed")
                               /\ (c[s] = "pending" <=> d[s] = "pending")
  OBVIOUS
<1>2. QED
  BY <1>1, Zenon DEF Vision!RollUp

LEMMA NothingTyped ==
  Vision!Nothing \in [SeenPhotos -> SUBSET Vision!Stages] /\ \A p \in SeenPhotos : Vision!Nothing[p] = {}
  BY DEF Vision!Nothing

\* What is owed: of the stages left by somebody those are given up that nothing else comes
\* to, and then the roll-up is not answered for.
LEMMA Owed1 ==
  ASSUME Vision!TypeOK, NEW asked \in [SeenPhotos -> SUBSET Vision!Stages],
         NEW left \in [SeenPhotos -> SUBSET Vision!Stages], Vision!Owe(asked, left)
  PROVE  /\ owed' \in [SeenPhotos -> SUBSET Vision!Stages] /\ drifted' \subseteq SeenPhotos
            /\ drifted \subseteq drifted'
         /\ \A p \in SeenPhotos : owed'[p] \subseteq owed[p] \cup asked[p]
         /\ \A p \in SeenPhotos : left[p] = {} => owed'[p] = owed[p] \cup asked[p]
         /\ \A p \in SeenPhotos : \A s \in left[p] : s \in owed'[p] => Vision!Reached(p, s)'
         /\ \A p \in SeenPhotos : \A s \in owed[p] \cup asked[p] :
              s \in owed'[p] \/ (s \in Vision!Rolled => p \in drifted')
<1> DEFINE lost == [p \in SeenPhotos |-> {s \in left[p] : ~Vision!Reached(p, s)'}]
<1>1. /\ owed' = [p \in SeenPhotos |-> (owed[p] \cup asked[p]) \ lost[p]]
      /\ drifted' = drifted \cup {p \in SeenPhotos : lost[p] \cap Vision!Rolled # {}}
  BY DEF Vision!Owe
<1>2. \A p \in SeenPhotos : lost[p] = {s \in left[p] : ~Vision!Reached(p, s)'}
  OBVIOUS
<1> HIDE DEF lost
<1>3. owed' \in [SeenPhotos -> SUBSET Vision!Stages] /\ drifted' \subseteq SeenPhotos
      /\ drifted \subseteq drifted'
  BY <1>1 DEF Vision!TypeOK
<1>4. \A p \in SeenPhotos : owed'[p] = (owed[p] \cup asked[p]) \ lost[p]
  BY <1>1
<1>5. \A p \in SeenPhotos : owed'[p] \subseteq owed[p] \cup asked[p]
  BY <1>4
<1>6. \A p \in SeenPhotos : \A s \in left[p] : s \in owed'[p] => Vision!Reached(p, s)'
  BY <1>2, <1>4
<1>7. ASSUME NEW p \in SeenPhotos, NEW s \in owed[p] \cup asked[p], s \notin owed'[p], s \in Vision!Rolled
      PROVE  p \in drifted'
  BY <1>1, <1>4, <1>7
<1>8. \A p \in SeenPhotos : left[p] = {} => owed'[p] = owed[p] \cup asked[p]
  BY <1>2, <1>4
<1>9. QED
  BY <1>3, <1>5, <1>6, <1>7, <1>8

\* A step that leaves the rolled-up columns and the jobs alone, and comes in the end to
\* the stages that nobody left.
LEMMA OweStep ==
  ASSUME StagesInv, Vision!TypeOK', NEW asked \in [SeenPhotos -> SUBSET Vision!Stages],
         NEW left \in [SeenPhotos -> SUBSET Vision!Stages], Vision!Owe(asked, left),
         UNCHANGED <<rolled, thread, queued>>, hashed \subseteq hashed',
         \A p \in SeenPhotos : \A s \in Vision!Rolled : col'[p][s] = col[p][s],
         \A p \in SeenPhotos : \A s \in owed[p] \cup asked[p] :
           s \notin left[p] /\ col'[p][s] = "pending" => Vision!Reached(p, s)'
  PROVE  StagesInv'
<1>1. /\ drifted \subseteq drifted'
      /\ \A p \in SeenPhotos : owed'[p] \subseteq owed[p] \cup asked[p]
      /\ \A p \in SeenPhotos : \A s \in left[p] : s \in owed'[p] => Vision!Reached(p, s)'
      /\ \A p \in SeenPhotos : \A s \in owed[p] \cup asked[p] :
           s \in owed'[p] \/ (s \in Vision!Rolled => p \in drifted')
  BY Owed1 DEF StagesInv
<1>2. OwedReached'
  <2>1. \A p \in SeenPhotos : \A s \in owed'[p] : col'[p][s] = "pending" => Vision!Reached(p, s)'
    BY <1>1
  <2>2. QED
    BY <2>1 DEF OwedReached
<1>3. ASSUME NEW p \in SeenPhotos
      PROVE  \/ rolled'[p] = Vision!RollUp(col'[p]) \/ p \in drifted' \/ queued'[p] > 0
             \/ \E t \in Threads : Vision!Runs(t, p)' /\ thread'[t].pc # "end"
             \/ \E s \in owed'[p] \cap Vision!Rolled : col'[p][s] = "pending"
  <2>1. Vision!RollUp(col'[p]) = Vision!RollUp(col[p])
    BY SameRollUp
  <2>2. CASE rolled[p] = Vision!RollUp(col[p]) \/ p \in drifted \/ queued[p] > 0
    BY <1>1, <2>1, <2>2
  <2>3. ASSUME NEW t \in Threads, Vision!Runs(t, p), thread[t].pc # "end"
        PROVE  Vision!Runs(t, p)' /\ thread'[t].pc # "end"
    BY <2>3 DEF Vision!Runs
  <2>4. ASSUME NEW s \in owed[p] \cap Vision!Rolled, col[p][s] = "pending"
        PROVE  p \in drifted' \/ \E s1 \in owed'[p] \cap Vision!Rolled : col'[p][s1] = "pending"
    BY <1>1, <2>4
  <2>5. QED
    BY <2>2, <2>3, <2>4 DEF StagesInv, RollUpDue
<1>4. RollUpDue'
  BY <1>3 DEF RollUpDue
<1>5. Unhashed'
  BY DEF StagesInv, Unhashed
<1>6. Walking'
  BY DEF StagesInv, Walking
<1>7. QED
  BY <1>2, <1>4, <1>5, <1>6 DEF StagesInv

\* A step that changes neither the columns nor the jobs, and takes nothing out of reach.
LEMMA QuietStep ==
  ASSUME StagesInv, Vision!TypeOK', UNCHANGED <<hashed, col, rolled, queued, thread, owed, drifted>>,
         \A p \in SeenPhotos : \A s \in owed[p] : Vision!Reached(p, s) => Vision!Reached(p, s)'
  PROVE  StagesInv'
<1>1. OwedReached'
  BY DEF StagesInv, OwedReached
<1>2. RollUpDue' /\ Unhashed' /\ Walking'
  BY DEF StagesInv, RollUpDue, Unhashed, Walking, Vision!Runs
<1>3. QED
  BY <1>1, <1>2 DEF StagesInv

LEMMA SameAhead ==
  ASSUME NEW t, thread'[t] = thread[t]
  PROVE  Vision!Ahead(t)' = Vision!Ahead(t) /\ \A p : Vision!Runs(t, p)' <=> Vision!Runs(t, p)
  BY DEF Vision!Ahead, Vision!Runs

\* A step that leaves the jobs alone, and what photo_work and the retries are about to do.
LEMMA SameReach ==
  ASSUME UNCHANGED thread, NEW p, NEW s, Vision!Reached(p, s), queued[p] > 0 => queued'[p] > 0,
         work[p] \in {"asked", "insert"} => work'[p] \in {"asked", "insert"} \/ queued'[p] > 0,
         \A r \in Retries : retry[r].pc = "fanout" /\ p \in retry[r].ids =>
           retry'[r] = retry[r] \/ work'[p] \in {"asked", "insert"}
  PROVE  Vision!Reached(p, s)'
<1>1. \A t \in Threads : Vision!Ahead(t)' = Vision!Ahead(t) /\ (Vision!Runs(t, p)' <=> Vision!Runs(t, p))
  BY SameAhead
<1>2. QED
  BY <1>1 DEF Vision!Reached

-------------------------------------------------------------------------------
(***************************************************************************)
(* Requests and retries.                                                   *)
(***************************************************************************)
LEMMA MadePending ==
  ASSUME Vision!TypeOK, NEW S \in [SeenPhotos -> SUBSET Vision!Stages], Vision!MakePending(S)
  PROVE  /\ col' \in [SeenPhotos -> [Vision!Stages -> {"none", "pending", "ok", "failed"}]]
         /\ \A p \in SeenPhotos : \A s \in Vision!Stages : col'[p][s] = IF s \in S[p] THEN "pending" ELSE col[p][s]
<1>1. col' = [p \in SeenPhotos |-> [s \in Vision!Stages |-> IF s \in S[p] THEN "pending" ELSE col[p][s]]]
  BY DEF Vision!MakePending
<1>2. ASSUME NEW p \in SeenPhotos
      PROVE  /\ col'[p] \in [Vision!Stages -> {"none", "pending", "ok", "failed"}]
             /\ \A s \in Vision!Stages : col'[p][s] = IF s \in S[p] THEN "pending" ELSE col[p][s]
  <2>1. col'[p] = [s \in Vision!Stages |-> IF s \in S[p] THEN "pending" ELSE col[p][s]]
    BY <1>1
  <2>2. \A s \in Vision!Stages : col[p][s] \in {"none", "pending", "ok", "failed"}
    BY DEF Vision!TypeOK
  <2>3. QED
    BY <2>1, <2>2
<1>3. QED
  BY <1>1, <1>2

LEMMA RequestLookStep ==
  ASSUME Vision!ClassifyConstants, StagesInv, NEW how \in Asks, NEW force \in BOOLEAN,
         Vision!RequestLook(how, force)
  PROVE  StagesInv'
<1>1. /\ ask' = [p \in SeenPhotos |-> {s \in how : (s = Ocr => p \in images) /\ (force \/ col[p][s] # "ok")}]
      /\ UNCHANGED <<images, hashed, col, rolled, queued, thread, work, retry, faults, owed, drifted>>
  BY DEF Vision!RequestLook
<1>2. ask' \in [SeenPhotos -> SUBSET Vision!Stages]
  BY <1>1 DEF Vision!ClassifyConstants
<1>3. Vision!TypeOK'
  BY <1>1, <1>2 DEF StagesInv, Vision!TypeOK
<1>4. \A p \in SeenPhotos : \A s \in owed[p] : Vision!Reached(p, s) => Vision!Reached(p, s)'
  BY <1>1, SameReach
<1>5. QED
  BY <1>1, <1>3, <1>4, QuietStep

\* The running job with which a request coalesces has left the stage behind.
LEMMA BehindTyped ==
  ASSUME NEW S \in [SeenPhotos -> SUBSET Vision!Stages]
  PROVE  /\ Vision!Behind(S) \in [SeenPhotos -> SUBSET Vision!Stages]
         /\ \A p \in SeenPhotos : \A s \in S[p] :
              s \in Vision!Behind(S)[p] <=>
                queued[p] = 0 /\ \E t \in Threads : Vision!Runs(t, p) /\ s \notin Vision!Ahead(t)
  BY DEF Vision!Behind

LEMMA TooLateTyped ==
  ASSUME NEW S \in [SeenPhotos -> SUBSET Vision!Stages]
  PROVE  /\ Vision!TooLate(S) \in [SeenPhotos -> SUBSET Vision!Stages]
         /\ \A p \in SeenPhotos : work[p] = "finish" => Vision!TooLate(S)[p] = S[p]
  BY DEF Vision!TooLate

LEMMA RequestCommitStep ==
  ASSUME Vision!ClassifyConstants, StagesInv, Vision!RequestCommit
  PROVE  StagesInv'
<1>1. /\ ask' = Vision!Nothing /\ Vision!MakePending(ask)
      /\ rolled' = [p \in SeenPhotos |-> IF ask[p] \cap Vision!Rolled # {} THEN "pending" ELSE rolled[p]]
      /\ queued' = [p \in SeenPhotos |-> IF ask[p] # {} /\ ~Vision!Live(p) THEN 1 ELSE queued[p]]
      /\ UNCHANGED <<images, hashed, thread, work, retry, asks, faults>>
      /\ Vision!Owe(ask, Vision!Behind(ask))
  BY DEF Vision!RequestCommit, Vision!EnqueueUnique
<1>2. ask \in [SeenPhotos -> SUBSET Vision!Stages]
  BY DEF StagesInv, Vision!TypeOK
<1>3. /\ col' \in [SeenPhotos -> [Vision!Stages -> {"none", "pending", "ok", "failed"}]]
      /\ \A p \in SeenPhotos : \A s \in Vision!Stages : col'[p][s] = IF s \in ask[p] THEN "pending" ELSE col[p][s]
  BY <1>1, <1>2, MadePending DEF StagesInv
<1>4. /\ owed' \in [SeenPhotos -> SUBSET Vision!Stages] /\ drifted' \subseteq SeenPhotos
         /\ drifted \subseteq drifted'
      /\ \A p \in SeenPhotos : owed'[p] \subseteq owed[p] \cup ask[p]
      /\ \A p \in SeenPhotos : \A s \in Vision!Behind(ask)[p] : s \in owed'[p] => Vision!Reached(p, s)'
      /\ \A p \in SeenPhotos : \A s \in owed[p] \cup ask[p] : s \in owed'[p] \/ (s \in Vision!Rolled => p \in drifted')
  BY <1>1, <1>2, BehindTyped, Owed1 DEF StagesInv
<1>5. Vision!TypeOK'
  <2>1. ask' \in [SeenPhotos -> SUBSET Vision!Stages]
    BY <1>1 DEF Vision!Nothing
  <2>2. queued' \in [SeenPhotos -> Nat] /\ rolled' \in [SeenPhotos -> {"pending", "ok", "failed"}]
    BY <1>1 DEF StagesInv, Vision!TypeOK
  <2>3. QED
    BY <1>1, <1>3, <1>4, <2>1, <2>2 DEF StagesInv, Vision!TypeOK
<1>6. \A p \in SeenPhotos : queued[p] > 0 => queued'[p] > 0
  BY <1>1
<1>7. ASSUME NEW p \in SeenPhotos, NEW s \in owed'[p], col'[p][s] = "pending"
      PROVE  Vision!Reached(p, s)'
  <2>1. CASE s \in ask[p]
    <3>1. CASE s \in Vision!Behind(ask)[p]
      BY <1>4, <1>7, <3>1
    <3>2. CASE queued'[p] > 0
      BY <3>2 DEF Vision!Reached
    <3>3. CASE s \notin Vision!Behind(ask)[p] /\ ~(queued'[p] > 0)
      <4>1. queued[p] = 0 /\ Vision!Live(p)
        BY <1>1, <2>1, <3>3 DEF StagesInv, Vision!TypeOK
      <4>2. PICK t \in Threads : Vision!Runs(t, p)
        BY <4>1 DEF Vision!Live
      <4>3. s \in Vision!Ahead(t)
        BY <1>2, <2>1, <3>3, <4>1, <4>2, BehindTyped
      <4>4. Vision!Runs(t, p)' /\ s \in Vision!Ahead(t)'
        BY <1>1, <4>2, <4>3, SameAhead
      <4>5. QED
        BY <4>4 DEF Vision!Reached
    <3>4. QED
      BY <3>1, <3>2, <3>3
  <2>2. CASE s \notin ask[p]
    <3>1. s \in owed[p] /\ col[p][s] = "pending"
      BY <1>3, <1>4, <1>7, <2>2
    <3>2. Vision!Reached(p, s)
      BY <3>1 DEF StagesInv, OwedReached
    <3>3. QED
      BY <1>1, <1>6, <3>2, SameReach
  <2>3. QED
    BY <2>1, <2>2
<1>8. OwedReached'
  BY <1>7 DEF OwedReached
<1>9. ASSUME NEW p \in SeenPhotos
      PROVE  \/ rolled'[p] = Vision!RollUp(col'[p]) \/ p \in drifted' \/ queued'[p] > 0
             \/ \E t \in Threads : Vision!Runs(t, p)' /\ thread'[t].pc # "end"
             \/ \E s \in owed'[p] \cap Vision!Rolled : col'[p][s] = "pending"
  <2>1. CASE ask[p] \cap Vision!Rolled # {}
    <3>1. PICK s \in ask[p] \cap Vision!Rolled : TRUE
      BY <2>1
    <3>2. col'[p][s] = "pending" /\ rolled'[p] = "pending"
      BY <1>1, <1>3, <2>1, <3>1 DEF Vision!Stages
    <3>3. QED
      BY <3>1, <3>2, PendingRollUp
  <2>2. CASE ask[p] \cap Vision!Rolled = {}
    <3>1. \A s \in Vision!Rolled : col'[p][s] = col[p][s]
      BY <1>3, <2>2 DEF Vision!Stages
    <3>2. Vision!RollUp(col'[p]) = Vision!RollUp(col[p]) /\ rolled'[p] = rolled[p]
      BY <1>1, <2>2, <3>1, SameRollUp
    <3>3. \A t \in Threads : Vision!Runs(t, p) => Vision!Runs(t, p)' /\ thread'[t] = thread[t]
      BY <1>1 DEF Vision!Runs
    <3>4. QED
      BY <1>4, <1>6, <3>1, <3>2, <3>3 DEF StagesInv, RollUpDue
  <2>3. QED
    BY <2>1, <2>2
<1>10. RollUpDue'
  BY <1>9 DEF RollUpDue
<1>11. Unhashed'
  <2>1. ASSUME NEW p \in SeenPhotos \ hashed
        PROVE  rolled'[p] = "pending" /\ \A s \in Vision!Rolled : col'[p][s] = "pending"
    BY <1>1, <1>3 DEF StagesInv, Unhashed, Vision!Stages
  <2>2. QED
    BY <1>1, <2>1 DEF StagesInv, Unhashed
<1>12. Walking'
  BY <1>1 DEF StagesInv, Walking
<1>13. QED
  BY <1>5, <1>8, <1>10, <1>11, <1>12 DEF StagesInv

LEMMA AutoEnqueueStep ==
  ASSUME Vision!ClassifyConstants, StagesInv, NEW p \in SeenPhotos, Vision!AutoEnqueue(p)
  PROVE  StagesInv'
<1> DEFINE unread == IF p \in images /\ col[p][Ocr] = "none" THEN {Ocr} ELSE {}
           pending == {s \in Vision!Rolled : col[p][s] = "pending"}
           S == [Vision!Nothing EXCEPT ![p] = unread \cup pending]
           U == [Vision!Nothing EXCEPT ![p] = unread]
<1>1. /\ hashed' = hashed \cup {p} /\ Vision!MakePending(U) /\ work' = [work EXCEPT ![p] = Vision!Asked(p)]
      /\ UNCHANGED <<images, rolled, queued, thread, ask, retry, faults>>
      /\ Vision!Owe(S, Vision!TooLate(S))
  BY DEF Vision!AutoEnqueue
<1>2. unread \subseteq {Ocr} /\ pending \subseteq Vision!Rolled
  OBVIOUS
<1> HIDE DEF unread, pending
<1>3. S \in [SeenPhotos -> SUBSET Vision!Stages] /\ U \in [SeenPhotos -> SUBSET Vision!Stages]
  BY <1>2 DEF Vision!Nothing, Vision!Stages
<1>4. \A q \in SeenPhotos : U[q] \subseteq {Ocr} /\ U[q] \subseteq S[q] /\ (q # p => S[q] = {})
  BY <1>2 DEF Vision!Nothing
<1> HIDE DEF S, U
<1>5. /\ col' \in [SeenPhotos -> [Vision!Stages -> {"none", "pending", "ok", "failed"}]]
      /\ \A q \in SeenPhotos : \A s \in Vision!Stages : col'[q][s] = IF s \in U[q] THEN "pending" ELSE col[q][s]
  BY <1>1, <1>3, MadePending DEF StagesInv
<1>6. /\ work' \in [SeenPhotos -> {"none", "asked", "insert", "finish"}]
      /\ \A q \in SeenPhotos : work[q] \in {"asked", "insert"} => work'[q] \in {"asked", "insert"}
      /\ work[p] # "finish" => work'[p] \in {"asked", "insert"}
  BY <1>1 DEF StagesInv, Vision!TypeOK, Vision!Asked
<1>7. Vision!TypeOK'
  <2>1. owed' \in [SeenPhotos -> SUBSET Vision!Stages] /\ drifted' \subseteq SeenPhotos
    BY <1>1, <1>3, TooLateTyped, Owed1 DEF StagesInv
  <2>2. QED
    BY <1>1, <1>5, <1>6, <2>1 DEF StagesInv, Vision!TypeOK
<1>8. \A q \in SeenPhotos : \A s \in Vision!Rolled : col'[q][s] = col[q][s]
  BY <1>4, <1>5 DEF Vision!ClassifyConstants, Vision!Stages
<1>9. ASSUME NEW q \in SeenPhotos, NEW s \in owed[q] \cup S[q], s \notin Vision!TooLate(S)[q],
             col'[q][s] = "pending"
      PROVE  Vision!Reached(q, s)'
  <2>1. CASE s \in S[q]
    <3>1. q = p /\ work[p] # "finish"
      BY <1>3, <1>4, <1>9, <2>1, TooLateTyped
    <3>2. QED
      BY <1>6, <3>1 DEF Vision!Reached
  <2>2. CASE s \notin S[q]
    <3>1. s \in owed[q] /\ s \in Vision!Stages /\ s \notin U[q]
      BY <1>4, <1>9, <2>2 DEF StagesInv, Vision!TypeOK
    <3>2. Vision!Reached(q, s)
      BY <1>5, <1>9, <3>1 DEF StagesInv, OwedReached
    <3>3. QED
      BY <1>1, <1>6, <3>2, SameReach
  <2>3. QED
    BY <2>1, <2>2
<1>10. Vision!TooLate(S) \in [SeenPhotos -> SUBSET Vision!Stages]
  BY <1>3, TooLateTyped
<1>11. UNCHANGED <<rolled, thread, queued>> /\ hashed \subseteq hashed' /\ Vision!Owe(S, Vision!TooLate(S))
  BY <1>1
<1>12. QED
  BY <1>3, <1>7, <1>8, <1>9, <1>10, <1>11, OweStep

LEMMA RetryStageStep ==
  ASSUME StagesInv, NEW r \in Retries, Vision!RetryStage(r) \/ Vision!RetryLook(r)
  PROVE  StagesInv'
<1>1. UNCHANGED <<images, hashed, col, rolled, queued, thread, ask, work, faults, owed, drifted>>
  BY DEF Vision!RetryStage, Vision!RetryLook
<1>2. /\ retry' \in [Retries -> [pc : {"none", "queued", "reset", "fanout"}, ids : SUBSET SeenPhotos]]
      /\ \A q \in Retries : retry[q].pc = "fanout" => retry'[q] = retry[q]
  <2>1. CASE Vision!RetryStage(r)
    <3>1. retry[r].pc = "none" /\ retry' = [retry EXCEPT ![r].pc = "queued"]
      BY <2>1 DEF Vision!RetryStage, Vision!IdleRetry
    <3>2. QED
      BY <3>1 DEF StagesInv, Vision!TypeOK
  <2>2. CASE Vision!RetryLook(r)
    <3>1. PICK ids \in SUBSET images :
            retry[r].pc = "queued" /\ retry' = [retry EXCEPT ![r] = [pc |-> "reset", ids |-> ids]]
      BY <2>2 DEF Vision!RetryLook
    <3>2. ids \subseteq SeenPhotos
      BY <3>1 DEF StagesInv, Vision!TypeOK
    <3>3. QED
      BY <3>1, <3>2 DEF StagesInv, Vision!TypeOK
  <2>3. QED
    BY <2>1, <2>2
<1>3. Vision!TypeOK'
  BY <1>1, <1>2 DEF StagesInv, Vision!TypeOK
<1>4. \A p \in SeenPhotos : \A s \in owed[p] : Vision!Reached(p, s) => Vision!Reached(p, s)'
  BY <1>1, <1>2, SameReach
<1>5. QED
  BY <1>1, <1>3, <1>4, QuietStep

LEMMA RetryResetStep ==
  ASSUME Vision!ClassifyConstants, StagesInv, NEW r \in Retries, Vision!RetryReset(r)
  PROVE  StagesInv'
<1> DEFINE S == Vision!Chosen(r)
<1>1. /\ retry[r].pc = "reset" /\ retry' = [retry EXCEPT ![r].pc = "fanout"] /\ Vision!MakePending(S)
         /\ Vision!Owe(S, Vision!Nothing)
      /\ UNCHANGED <<images, hashed, rolled, queued, thread, ask, work, asks, faults>>
  BY DEF Vision!RetryReset
<1>2. S \in [SeenPhotos -> SUBSET Vision!Stages]
  BY DEF Vision!Chosen, Vision!ClassifyConstants
<1>3. /\ retry' \in [Retries -> [pc : {"none", "queued", "reset", "fanout"}, ids : SUBSET SeenPhotos]]
      /\ \A q \in Retries : retry[q].pc = "fanout" => retry'[q] = retry[q]
      /\ retry'[r].pc = "fanout" /\ \A p \in SeenPhotos : S[p] # {} => p \in retry'[r].ids
  BY <1>1 DEF StagesInv, Vision!TypeOK, Vision!Chosen
<1> HIDE DEF S
<1>4. /\ col' \in [SeenPhotos -> [Vision!Stages -> {"none", "pending", "ok", "failed"}]]
      /\ \A p \in SeenPhotos : \A s \in Vision!Stages : col'[p][s] = IF s \in S[p] THEN "pending" ELSE col[p][s]
  BY <1>1, <1>2, MadePending DEF StagesInv
<1>5. /\ owed' \in [SeenPhotos -> SUBSET Vision!Stages] /\ drifted' \subseteq SeenPhotos
         /\ drifted \subseteq drifted'
      /\ \A p \in SeenPhotos : owed'[p] = owed[p] \cup S[p]
  BY <1>1, <1>2, NothingTyped, Owed1 DEF StagesInv
<1>6. Vision!TypeOK'
  BY <1>1, <1>3, <1>4, <1>5 DEF StagesInv, Vision!TypeOK
<1>7. ASSUME NEW p \in SeenPhotos, NEW s \in owed'[p], col'[p][s] = "pending"
      PROVE  Vision!Reached(p, s)'
  <2>1. CASE s \in S[p]
    BY <1>3, <2>1 DEF Vision!Reached
  <2>2. CASE s \notin S[p]
    <3>1. s \in owed[p] /\ s \in Vision!Stages /\ col[p][s] = "pending"
      BY <1>4, <1>5, <1>7, <2>2 DEF StagesInv, Vision!TypeOK
    <3>2. Vision!Reached(p, s)
      BY <3>1 DEF StagesInv, OwedReached
    <3>3. QED
      BY <1>1, <1>3, <3>2, SameReach
  <2>3. QED
    BY <2>1, <2>2
<1>8. OwedReached'
  BY <1>7 DEF OwedReached
<1>9. ASSUME NEW p \in SeenPhotos
      PROVE  \/ rolled'[p] = Vision!RollUp(col'[p]) \/ p \in drifted' \/ queued'[p] > 0
             \/ \E t \in Threads : Vision!Runs(t, p)' /\ thread'[t].pc # "end"
             \/ \E s \in owed'[p] \cap Vision!Rolled : col'[p][s] = "pending"
  <2>1. CASE S[p] \cap Vision!Rolled # {}
    <3>1. PICK s \in S[p] \cap Vision!Rolled : TRUE
      BY <2>1
    <3>2. col'[p][s] = "pending"
      BY <1>4, <3>1 DEF Vision!Stages
    <3>3. QED
      BY <1>5, <3>1, <3>2
  <2>2. CASE S[p] \cap Vision!Rolled = {}
    <3>1. \A s \in Vision!Rolled : col'[p][s] = col[p][s]
      BY <1>4, <2>2 DEF Vision!Stages
    <3>2. Vision!RollUp(col'[p]) = Vision!RollUp(col[p])
      BY <3>1, SameRollUp
    <3>3. \A t \in Threads : Vision!Runs(t, p) => Vision!Runs(t, p)' /\ thread'[t] = thread[t]
      BY <1>1 DEF Vision!Runs
    <3>4. QED
      BY <1>1, <1>5, <3>1, <3>2, <3>3 DEF StagesInv, RollUpDue
  <2>3. QED
    BY <2>1, <2>2
<1>10. RollUpDue'
  BY <1>9 DEF RollUpDue
<1>11. Unhashed'
  <2>1. ASSUME NEW p \in SeenPhotos \ hashed
        PROVE  rolled'[p] = "pending" /\ \A s \in Vision!Rolled : col'[p][s] = "pending"
    BY <1>1, <1>4 DEF StagesInv, Unhashed, Vision!Stages
  <2>2. QED
    BY <1>1, <2>1 DEF StagesInv, Unhashed
<1>12. Walking'
  BY <1>1 DEF StagesInv, Walking
<1>13. QED
  BY <1>6, <1>8, <1>10, <1>11, <1>12 DEF StagesInv

LEMMA OwingTyped ==
  ASSUME Vision!TypeOK, NEW ids
  PROVE  /\ Vision!Owing(ids) \in [SeenPhotos -> SUBSET Vision!Stages]
         /\ \A p \in SeenPhotos : p \in ids => \A s \in owed[p] : col[p][s] = "pending" => s \in Vision!Owing(ids)[p]
  BY DEF Vision!Owing, Vision!TypeOK

\* A retry or a hand-off goes on: the stages that are owed are come to, or left.
LEMMA PassOnStep ==
  ASSUME StagesInv, NEW left \in [SeenPhotos -> SUBSET Vision!Stages], Vision!Owe(Vision!Nothing, left),
         UNCHANGED <<images, hashed, col, rolled, queued, thread, ask>>,
         retry' \in [Retries -> [pc : {"none", "queued", "reset", "fanout"}, ids : SUBSET SeenPhotos]],
         work' \in [SeenPhotos -> {"none", "asked", "insert", "finish"}],
         \A p \in SeenPhotos : \A s \in owed[p] : col[p][s] = "pending" /\ s \notin left[p] =>
           \/ Vision!Reached(p, s)'
           \/ /\ work[p] \in {"asked", "insert"} => work'[p] \in {"asked", "insert"}
              /\ \A r \in Retries :
                   retry[r].pc = "fanout" /\ p \in retry[r].ids => retry'[r] = retry[r]
  PROVE  StagesInv'
<1>1. Vision!Nothing \in [SeenPhotos -> SUBSET Vision!Stages] /\ \A p \in SeenPhotos : Vision!Nothing[p] = {}
  BY NothingTyped
<1>2. Vision!TypeOK'
  <2>1. owed' \in [SeenPhotos -> SUBSET Vision!Stages] /\ drifted' \subseteq SeenPhotos
    BY <1>1, Owed1 DEF StagesInv
  <2>2. QED
    BY <2>1 DEF StagesInv, Vision!TypeOK
<1>3. ASSUME NEW p \in SeenPhotos, NEW s \in owed[p] \cup Vision!Nothing[p], s \notin left[p],
             col'[p][s] = "pending"
      PROVE  Vision!Reached(p, s)'
  <2>1. s \in owed[p] /\ Vision!Reached(p, s)
    BY <1>1, <1>3 DEF StagesInv, OwedReached
  <2>2. QED
    BY <1>3, <2>1, SameReach
<1>4. QED
  BY <1>1, <1>2, <1>3, OweStep

LEMMA RetryFanOutStep ==
  ASSUME StagesInv, NEW r \in Retries, Vision!RetryFanOut(r)
  PROVE  StagesInv'
<1> DEFINE S == Vision!Owing(retry[r].ids)
<1>1. /\ retry[r].pc = "fanout"
      /\ work' = [p \in SeenPhotos |-> IF p \in retry[r].ids THEN Vision!Asked(p) ELSE work[p]]
      /\ retry' = [retry EXCEPT ![r] = Vision!IdleRetry]
      /\ UNCHANGED <<images, hashed, col, rolled, queued, thread, ask, asks, faults>>
      /\ Vision!Owe(Vision!Nothing, Vision!TooLate(S))
  BY DEF Vision!RetryFanOut
<1>2. /\ retry' \in [Retries -> [pc : {"none", "queued", "reset", "fanout"}, ids : SUBSET SeenPhotos]]
      /\ \A q \in Retries : q # r => retry'[q] = retry[q]
  BY <1>1 DEF StagesInv, Vision!TypeOK, Vision!IdleRetry
<1>3. /\ work' \in [SeenPhotos -> {"none", "asked", "insert", "finish"}]
      /\ \A p \in SeenPhotos : work[p] \in {"asked", "insert"} => work'[p] \in {"asked", "insert"}
      /\ \A p \in SeenPhotos : p \in retry[r].ids => work[p] = "finish" \/ work'[p] \in {"asked", "insert"}
  BY <1>1 DEF StagesInv, Vision!TypeOK, Vision!Asked
<1>4. /\ S \in [SeenPhotos -> SUBSET Vision!Stages]
      /\ \A p \in SeenPhotos : p \in retry[r].ids => \A s \in owed[p] : col[p][s] = "pending" => s \in S[p]
  BY OwingTyped DEF StagesInv
<1> HIDE DEF S
<1>5. Vision!TooLate(S) \in [SeenPhotos -> SUBSET Vision!Stages]
  BY <1>4, TooLateTyped
<1>6. ASSUME NEW p \in SeenPhotos, NEW s \in owed[p], col[p][s] = "pending", s \notin Vision!TooLate(S)[p]
      PROVE  \/ Vision!Reached(p, s)'
             \/ /\ work[p] \in {"asked", "insert"} => work'[p] \in {"asked", "insert"}
                /\ \A q \in Retries :
                     retry[q].pc = "fanout" /\ p \in retry[q].ids => retry'[q] = retry[q]
  <2>1. CASE p \in retry[r].ids
    <3>1. work[p] # "finish"
      BY <1>4, <1>6, <2>1, TooLateTyped
    <3>2. QED
      BY <1>3, <2>1, <3>1 DEF Vision!Reached
  <2>2. CASE p \notin retry[r].ids
    BY <1>2, <1>3, <2>2
  <2>3. QED
    BY <2>1, <2>2
<1>7. QED
  BY <1>1, <1>2, <1>3, <1>5, <1>6, PassOnStep

LEMMA RetryFaultStep ==
  ASSUME StagesInv, NEW r \in Retries, Vision!RetryFault(r)
  PROVE  StagesInv'
<1> DEFINE left == IF retry[r].pc = "fanout" THEN Vision!Owing(retry[r].ids) ELSE Vision!Nothing
<1>1. /\ UNCHANGED <<images, hashed, col, rolled, queued, thread, ask, work, asks>>
      /\ \E pc \in {"queued", "none"} : retry' = [retry EXCEPT ![r] = [pc |-> pc, ids |-> {}]]
      /\ Vision!Owe(Vision!Nothing, left)
  BY DEF Vision!RetryFault
<1>2. /\ retry' \in [Retries -> [pc : {"none", "queued", "reset", "fanout"}, ids : SUBSET SeenPhotos]]
      /\ \A q \in Retries : q # r => retry'[q] = retry[q]
  BY <1>1 DEF StagesInv, Vision!TypeOK
<1>3. /\ left \in [SeenPhotos -> SUBSET Vision!Stages]
      /\ retry[r].pc = "fanout" => \A p \in SeenPhotos : p \in retry[r].ids =>
           \A s \in owed[p] : col[p][s] = "pending" => s \in left[p]
  BY NothingTyped, OwingTyped DEF StagesInv
<1> HIDE DEF left
<1>4. work' \in [SeenPhotos -> {"none", "asked", "insert", "finish"}] /\ work' = work
  BY <1>1 DEF StagesInv, Vision!TypeOK
<1>5. ASSUME NEW p \in SeenPhotos, NEW s \in owed[p], col[p][s] = "pending", s \notin left[p]
      PROVE  \A q \in Retries : retry[q].pc = "fanout" /\ p \in retry[q].ids => retry'[q] = retry[q]
  BY <1>2, <1>3, <1>5
<1>6. QED
  BY <1>1, <1>2, <1>3, <1>4, <1>5, PassOnStep

-------------------------------------------------------------------------------
(***************************************************************************)
(* photo_work's stage.                                                     *)
(***************************************************************************)
LEMMA HandOffLookStep ==
  ASSUME StagesInv, NEW p \in SeenPhotos, Vision!HandOffLook(p)
  PROVE  StagesInv'
<1> DEFINE S == Vision!Owing({p})
<1>1. /\ work' = [work EXCEPT ![p] = IF Vision!Live(p) THEN "finish" ELSE "insert"]
      /\ UNCHANGED <<images, hashed, col, rolled, queued, thread, ask, retry, asks, faults>>
      /\ Vision!Owe(Vision!Nothing, Vision!Behind(S))
  BY DEF Vision!HandOffLook
<1>2. /\ work' \in [SeenPhotos -> {"none", "asked", "insert", "finish"}]
      /\ \A q \in SeenPhotos : q # p => work'[q] = work[q]
      /\ ~Vision!Live(p) => work'[p] = "insert"
  BY <1>1 DEF StagesInv, Vision!TypeOK
<1>3. retry' \in [Retries -> [pc : {"none", "queued", "reset", "fanout"}, ids : SUBSET SeenPhotos]]
  BY <1>1 DEF StagesInv, Vision!TypeOK
<1>4. /\ S \in [SeenPhotos -> SUBSET Vision!Stages]
      /\ \A s \in owed[p] : col[p][s] = "pending" => s \in S[p]
  BY OwingTyped DEF StagesInv
<1> HIDE DEF S
<1>5. Vision!Behind(S) \in [SeenPhotos -> SUBSET Vision!Stages]
  BY <1>4, BehindTyped
<1>6. ASSUME NEW s \in owed[p], col[p][s] = "pending", s \notin Vision!Behind(S)[p]
      PROVE  Vision!Reached(p, s)'
  <2>1. CASE queued[p] > 0
    BY <1>1, <2>1 DEF Vision!Reached
  <2>2. CASE ~Vision!Live(p)
    BY <1>2, <2>2 DEF Vision!Reached
  <2>3. CASE ~(queued[p] > 0) /\ Vision!Live(p)
    <3>1. queued[p] = 0
      BY <2>3 DEF StagesInv, Vision!TypeOK
    <3>2. PICK t \in Threads : Vision!Runs(t, p)
      BY <2>3 DEF Vision!Live
    <3>3. s \in Vision!Ahead(t)
      BY <1>4, <1>6, <3>1, <3>2, BehindTyped
    <3>4. Vision!Runs(t, p)' /\ s \in Vision!Ahead(t)'
      BY <1>1, <3>2, <3>3, SameAhead
    <3>5. QED
      BY <3>4 DEF Vision!Reached
  <2>4. QED
    BY <2>1, <2>2, <2>3
<1>7. ASSUME NEW q \in SeenPhotos, NEW s \in owed[q], col[q][s] = "pending", s \notin Vision!Behind(S)[q]
      PROVE  \/ Vision!Reached(q, s)'
             \/ /\ work[q] \in {"asked", "insert"} => work'[q] \in {"asked", "insert"}
                /\ \A r \in Retries :
                     retry[r].pc = "fanout" /\ q \in retry[r].ids => retry'[r] = retry[r]
  BY <1>1, <1>2, <1>6, <1>7
<1>8. QED
  BY <1>1, <1>2, <1>3, <1>5, <1>7, PassOnStep

LEMMA HandOffInsertStep ==
  ASSUME StagesInv, NEW p \in SeenPhotos, Vision!HandOffInsert(p)
  PROVE  StagesInv'
<1>1. /\ work' = [work EXCEPT ![p] = "finish"] /\ queued' = [queued EXCEPT ![p] = @ + 1]
      /\ UNCHANGED <<images, hashed, col, rolled, thread, ask, retry, asks, faults, owed, drifted>>
  BY DEF Vision!HandOffInsert
<1>2. /\ work' \in [SeenPhotos -> {"none", "asked", "insert", "finish"}] /\ queued' \in [SeenPhotos -> Nat]
      /\ queued'[p] > 0
      /\ \A q \in SeenPhotos : q # p => work'[q] = work[q] /\ queued'[q] = queued[q]
  BY <1>1 DEF StagesInv, Vision!TypeOK
<1>3. Vision!TypeOK'
  BY <1>1, <1>2 DEF StagesInv, Vision!TypeOK
<1>4. OwedReached'
  <2>1. ASSUME NEW q \in SeenPhotos, NEW s \in owed[q], Vision!Reached(q, s) PROVE Vision!Reached(q, s)'
    BY <1>1, <1>2, <2>1, SameReach
  <2>2. QED
    BY <1>1, <2>1 DEF StagesInv, OwedReached
<1>5. RollUpDue'
  <2>1. \A q \in SeenPhotos : \A t \in Threads : Vision!Runs(t, q)' <=> Vision!Runs(t, q)
    BY <1>1 DEF Vision!Runs
  <2>2. \A q \in SeenPhotos : queued[q] > 0 => queued'[q] > 0
    BY <1>2
  <2>3. QED
    BY <1>1, <2>1, <2>2 DEF StagesInv, RollUpDue
<1>6. Unhashed' /\ Walking'
  BY <1>1 DEF StagesInv, Unhashed, Walking
<1>7. QED
  BY <1>3, <1>4, <1>5, <1>6 DEF StagesInv

LEMMA HandOffEndStep ==
  ASSUME StagesInv, NEW p \in SeenPhotos, Vision!HandOffEnd(p) \/ Vision!HandOffFault(p)
  PROVE  StagesInv'
<1>1. UNCHANGED <<images, hashed, col, rolled, queued, thread, ask, retry, asks, owed, drifted>>
  BY DEF Vision!HandOffEnd, Vision!HandOffFault
<1>2. /\ work' \in [SeenPhotos -> {"none", "asked", "insert", "finish"}]
      /\ \A q \in SeenPhotos : work[q] \in {"asked", "insert"} => work'[q] \in {"asked", "insert"}
  <2>1. CASE Vision!HandOffEnd(p)
    <3>1. work[p] = "finish" /\ work' = [work EXCEPT ![p] = "none"]
      BY <2>1 DEF Vision!HandOffEnd
    <3>2. QED
      BY <3>1 DEF StagesInv, Vision!TypeOK
  <2>2. CASE Vision!HandOffFault(p)
    <3>1. work' = [work EXCEPT ![p] = "asked"]
      BY <2>2 DEF Vision!HandOffFault
    <3>2. QED
      BY <3>1 DEF StagesInv, Vision!TypeOK
  <2>3. QED
    BY <2>1, <2>2
<1>3. Vision!TypeOK'
  BY <1>1, <1>2 DEF StagesInv, Vision!TypeOK
<1>4. \A q \in SeenPhotos : \A s \in owed[q] : Vision!Reached(q, s) => Vision!Reached(q, s)'
  BY <1>1, <1>2, SameReach
<1>5. QED
  BY <1>1, <1>3, <1>4, QuietStep

-------------------------------------------------------------------------------
(***************************************************************************)
(* The jobs.                                                               *)
(***************************************************************************)
LEMMA ThreadReaches ==
  ASSUME UNCHANGED <<work, retry>>, NEW t \in Threads,
         \A u \in Threads \ {t} : thread'[u] = thread[u],
         NEW p, NEW s, Vision!Reached(p, s), queued[p] > 0 => queued'[p] > 0 \/ Vision!Reached(p, s)',
         Vision!Runs(t, p) /\ s \in Vision!Ahead(t) => Vision!Reached(p, s)'
  PROVE  Vision!Reached(p, s)'
<1>1. \A u \in Threads \ {t} : Vision!Ahead(u)' = Vision!Ahead(u)
      /\ (Vision!Runs(u, p)' <=> Vision!Runs(u, p))
  BY SameAhead
<1>2. QED
  BY <1>1 DEF Vision!Reached

\* A job's photo and the row it holds; the job is done with the stages behind it.
LEMMA JobTyped ==
  ASSUME Vision!ClassifyConstants, StagesInv, NEW t \in Threads,
         thread[t].pc \in {"look", "run", "write", "end"}
  PROVE  /\ thread[t] \in Job /\ thread[t] # Vision!Idle /\ thread[t].photo \in SeenPhotos
            /\ Vision!Loaded(t) \in Rows
         /\ Vision!Runs(t, thread[t].photo) /\ \A p : Vision!Runs(t, p) => p = thread[t].photo
<1>1. thread[t] \in Job /\ thread[t] # Vision!Idle
  BY IdleIsNone DEF StagesInv, Walking
<1>2. thread[t].photo \in SeenPhotos /\ thread[t].row \in Rows
  BY <1>1 DEF Job
<1>3. Vision!Row(thread[t].photo) \in Rows
  BY <1>2 DEF Vision!Row, Rows, Marks, StagesInv, Vision!TypeOK
<1>4. Vision!Loaded(t) \in Rows
  BY <1>2, <1>3 DEF Vision!Loaded
<1>5. QED
  BY <1>1, <1>2, <1>4 DEF Vision!Runs

LEMMA JobChange ==
  ASSUME StagesInv, NEW t \in Threads, NEW job \in Job \cup {Vision!Idle},
         thread' = [thread EXCEPT ![t] = job],
         job.pc = "run" => job.at <= Len(Vision!Order)
  PROVE  /\ thread'[t] = job /\ \A u \in Threads \ {t} : thread'[u] = thread[u]
         /\ Walking'
         /\ \A u \in Threads : thread'[u] # Vision!Idle =>
              /\ thread'[u].pc \in {"look", "run", "write", "end"}
              /\ thread'[u].photo \in SeenPhotos /\ thread'[u].at \in 1..(Len(Walk) + 2)
<1>1. thread'[t] = job /\ \A u \in Threads \ {t} : thread'[u] = thread[u]
  BY DEF StagesInv, Walking
<1>2. thread' \in [Threads -> Job \cup {Vision!Idle}]
  BY DEF StagesInv, Walking
<1>3. \A u \in Threads : thread'[u].pc = "run" => thread'[u].at <= Len(Vision!Order)
  BY <1>1 DEF StagesInv, Walking
<1>4. Walking'
  BY <1>2, <1>3 DEF Walking
<1>5. ASSUME NEW u \in Threads, thread'[u] # Vision!Idle
      PROVE  /\ thread'[u].pc \in {"look", "run", "write", "end"}
             /\ thread'[u].photo \in SeenPhotos /\ thread'[u].at \in 1..(Len(Walk) + 2)
  <2>1. thread'[u] \in Job
    BY <1>2, <1>5
  <2>2. QED
    BY <2>1 DEF Job
<1>6. QED
  BY <1>1, <1>4, <1>5

LEMMA ClaimStep ==
  ASSUME Vision!ClassifyConstants, StagesInv, NEW t \in Threads, NEW p \in SeenPhotos, Vision!Claim(t, p)
  PROVE  StagesInv'
<1> DEFINE job == [pc |-> IF p \in hashed THEN "look" ELSE "end", photo |-> p, at |-> 1, row |-> Vision!Row(p)]
           left == IF p \in hashed THEN Vision!Nothing ELSE Vision!Owing({p})
<1>1. /\ thread[t] = Vision!Idle /\ queued[p] > 0 /\ queued' = [queued EXCEPT ![p] = @ - 1]
      /\ thread' = [thread EXCEPT ![t] = job]
      /\ Vision!Owe(Vision!Nothing, left)
      /\ UNCHANGED <<images, hashed, col, rolled, ask, work, retry, asks, faults>>
  BY DEF Vision!Claim
<1>2. Vision!Row(p) \in Rows
  BY DEF Vision!Row, Rows, Marks, StagesInv, Vision!TypeOK
<1>3. 1 \in 1..(Len(Walk) + 2)
  BY Walked
<1>4. job \in Job /\ job.pc # "run" /\ job.photo = p /\ job.at = 1
      /\ job.pc = IF p \in hashed THEN "look" ELSE "end"
  BY <1>2, <1>3 DEF Job
<1> HIDE DEF job
<1>5. /\ thread'[t] = job /\ \A u \in Threads \ {t} : thread'[u] = thread[u]
      /\ Walking'
      /\ \A u \in Threads : thread'[u] # Vision!Idle =>
           /\ thread'[u].pc \in {"look", "run", "write", "end"}
           /\ thread'[u].photo \in SeenPhotos /\ thread'[u].at \in 1..(Len(Walk) + 2)
  BY <1>1, <1>4, JobChange
<1>6. job # Vision!Idle
  BY <1>4, IdleIsNone
<1>7. /\ queued' \in [SeenPhotos -> Nat] /\ owed' \in [SeenPhotos -> SUBSET Vision!Stages]
      /\ drifted' \subseteq SeenPhotos /\ drifted \subseteq drifted'
      /\ \A q \in SeenPhotos \ {p} : queued'[q] = queued[q] /\ owed'[q] = owed[q]
      /\ owed'[p] \subseteq owed[p]
      /\ p \notin hashed =>
           \A s \in owed'[p] : col[p][s] = "pending" => Vision!Reached(p, s)'
  <2>1. /\ left \in [SeenPhotos -> SUBSET Vision!Stages]
        /\ \A q \in SeenPhotos \ {p} : left[q] = {}
        /\ p \notin hashed => \A s \in owed[p] : col[p][s] = "pending" => s \in left[p]
    BY NothingTyped, OwingTyped DEF StagesInv, Vision!Owing, Vision!Nothing
  <2> HIDE DEF left
  <2>2. /\ owed' \in [SeenPhotos -> SUBSET Vision!Stages] /\ drifted' \subseteq SeenPhotos
           /\ drifted \subseteq drifted'
        /\ \A q \in SeenPhotos : owed'[q] \subseteq owed[q] \cup Vision!Nothing[q]
        /\ \A q \in SeenPhotos : left[q] = {} => owed'[q] = owed[q] \cup Vision!Nothing[q]
        /\ \A q \in SeenPhotos : \A s \in left[q] : s \in owed'[q] => Vision!Reached(q, s)'
    BY <1>1, <2>1, NothingTyped, Owed1 DEF StagesInv
  <2>3. queued' \in [SeenPhotos -> Nat] /\ \A q \in SeenPhotos \ {p} : queued'[q] = queued[q]
    BY <1>1 DEF StagesInv, Vision!TypeOK
  <2>4. QED
    BY <2>1, <2>2, <2>3, NothingTyped
<1> HIDE DEF left
<1>8. Vision!TypeOK'
  BY <1>1, <1>5, <1>7 DEF StagesInv, Vision!TypeOK
<1>9. \A q : ~Vision!Runs(t, q)
  BY <1>1 DEF Vision!Runs
<1>10. Vision!Runs(t, p)'
  BY <1>4, <1>5, <1>6 DEF Vision!Runs
<1>11. OwedReached'
  <2>1. ASSUME NEW q \in SeenPhotos, NEW s \in owed'[q], col'[q][s] = "pending" PROVE Vision!Reached(q, s)'
    <3>1. CASE q # p
      <4>1. Vision!Reached(q, s) /\ queued'[q] = queued[q]
        BY <1>1, <1>7, <2>1, <3>1 DEF StagesInv, OwedReached
      <4>2. QED
        BY <1>1, <1>5, <1>9, <4>1, ThreadReaches
    <3>2. CASE q = p /\ p \notin hashed
      BY <1>1, <1>7, <2>1, <3>2
    <3>3. CASE q = p /\ p \in hashed
      <4>1. p \in hashed /\ s \in Vision!Stages
        BY <1>7, <2>1, <3>3 DEF StagesInv, Vision!TypeOK
      <4>2. PICK i \in 1..Len(Vision!Order) : Vision!Order[i] = s
        BY <4>1, Walked
      <4>3. s \in Vision!Ahead(t)'
        BY <1>4, <1>5, <4>1, <4>2 DEF Vision!Ahead, Vision!Order
      <4>4. QED
        BY <1>10, <3>3, <4>3 DEF Vision!Reached
    <3>4. QED
      BY <3>1, <3>2, <3>3
  <2>2. QED
    BY <2>1 DEF OwedReached
<1>12. RollUpDue'
  <2>1. ASSUME NEW q \in SeenPhotos
        PROVE  \/ rolled'[q] = Vision!RollUp(col'[q]) \/ q \in drifted' \/ queued'[q] > 0
               \/ \E u \in Threads : Vision!Runs(u, q)' /\ thread'[u].pc # "end"
               \/ \E s \in owed'[q] \cap Vision!Rolled : col'[q][s] = "pending"
    <3>1. CASE q # p
      <4>1. \A u \in Threads : Vision!Runs(u, q) => Vision!Runs(u, q)' /\ thread'[u] = thread[u]
        BY <1>5, <1>9 DEF Vision!Runs
      <4>2. QED
        BY <1>1, <1>7, <3>1, <4>1 DEF StagesInv, RollUpDue
    <3>2. CASE q = p /\ p \in hashed
      BY <1>4, <1>5, <1>10, <3>2
    <3>3. CASE q = p /\ p \notin hashed
      <4>1. rolled[p] = "pending" /\ \A s \in Vision!Rolled : col[p][s] = "pending"
        BY <3>3 DEF StagesInv, Unhashed
      <4>2. PICK s \in Vision!Rolled : TRUE
        BY Walked
      <4>3. Vision!RollUp(col[p]) = "pending"
        BY <4>1, <4>2, PendingRollUp
      <4>4. QED
        BY <1>1, <3>3, <4>1, <4>3
    <3>4. QED
      BY <3>1, <3>2, <3>3
  <2>2. QED
    BY <2>1 DEF RollUpDue
<1>13. Unhashed'
  BY <1>1, <1>4, <1>5 DEF StagesInv, Unhashed
<1>14. QED
  BY <1>5, <1>8, <1>11, <1>12, <1>13 DEF StagesInv

\* A job goes on to its next stage; the one it leaves is not pending, or not asked for.
LEMMA OnwardStep ==
  ASSUME Vision!ClassifyConstants, StagesInv, NEW t \in Threads, thread[t].pc \in {"look", "run"},
         thread[t].at <= Len(Vision!Order), NEW row \in Rows, Vision!Onward(t, row),
         UNCHANGED <<images, hashed, rolled, queued, ask, work, retry>>,
         col' \in [SeenPhotos -> [Vision!Stages -> {"none", "pending", "ok", "failed"}]],
         owed' \in [SeenPhotos -> SUBSET Vision!Stages], drifted' \subseteq SeenPhotos, drifted \subseteq drifted',
         \A p \in SeenPhotos \ {thread[t].photo} : col'[p] = col[p] /\ owed'[p] = owed[p],
         \A q \in SeenPhotos : q = thread[t].photo => \A s \in owed'[q] : col'[q][s] = "pending" =>
           Vision!Reached(q, s)' \/ (s # Vision!At(t) /\ s \in owed[q] /\ col[q][s] = "pending")
  PROVE  StagesInv'
<1> DEFINE p == thread[t].photo
           job == [thread[t] EXCEPT !.pc = "look", !.at = @ + 1, !.row = row]
<1>1. /\ thread[t] \in Job /\ thread[t] # Vision!Idle /\ p \in SeenPhotos
      /\ Vision!Runs(t, p) /\ \A q : Vision!Runs(t, q) => q = p
  BY JobTyped
<1>2. thread' = [thread EXCEPT ![t] = job]
  BY <1>1 DEF Vision!Onward, Job
<1>3. thread[t].at \in Nat /\ thread[t].at + 1 \in 1..(Len(Walk) + 2)
  BY <1>1, Walked DEF Job
<1>4. job \in Job /\ job.pc = "look" /\ job.photo = p /\ job.at = thread[t].at + 1
  BY <1>1, <1>3 DEF Job
<1> HIDE DEF job
<1>5. /\ thread'[t] = job /\ \A u \in Threads \ {t} : thread'[u] = thread[u]
      /\ Walking'
      /\ \A u \in Threads : thread'[u] # Vision!Idle =>
           /\ thread'[u].pc \in {"look", "run", "write", "end"}
           /\ thread'[u].photo \in SeenPhotos /\ thread'[u].at \in 1..(Len(Walk) + 2)
  BY <1>2, <1>4, JobChange
<1>6. Vision!TypeOK'
  BY <1>5 DEF StagesInv, Vision!TypeOK
<1>7. (\A q : q = p => Vision!Runs(t, q)') /\ thread'[t].pc # "end"
  <2>1. job # Vision!Idle
    BY <1>4, IdleIsNone
  <2>2. QED
    BY <1>4, <1>5, <2>1 DEF Vision!Runs
<1>8. \A s \in Vision!Ahead(t) : s # Vision!At(t) => s \in Vision!Ahead(t)'
  <2>1. Vision!Ahead(t) = {Vision!Order[i] : i \in thread[t].at..Len(Vision!Order)}
    BY DEF Vision!Ahead
  <2>2. Vision!Ahead(t)' = {Vision!Order[i] : i \in (thread[t].at + 1)..Len(Vision!Order)}
    BY <1>4, <1>5 DEF Vision!Ahead, Vision!Order
  <2>3. ASSUME NEW i \in thread[t].at..Len(Vision!Order), i # thread[t].at
        PROVE  i \in (thread[t].at + 1)..Len(Vision!Order)
    BY <1>3, <2>3, Walked
  <2>4. QED
    BY <2>1, <2>2, <2>3 DEF Vision!At
<1>9. OwedReached'
  <2>1. ASSUME NEW q \in SeenPhotos, NEW s \in owed'[q], col'[q][s] = "pending", ~Vision!Reached(q, s)'
        PROVE  FALSE
    <3>1. Vision!Reached(q, s) /\ (q = p => s # Vision!At(t))
      <4>1. s \in owed[q] /\ col[q][s] = "pending" /\ (q = p => s # Vision!At(t))
        <5>1. CASE q = p
          BY <2>1, <5>1
        <5>2. CASE q # p
          BY <2>1, <5>2
        <5>3. QED
          BY <5>1, <5>2
      <4>2. QED
        BY <4>1 DEF StagesInv, OwedReached
    <3>2. ASSUME Vision!Runs(t, q), s \in Vision!Ahead(t) PROVE Vision!Reached(q, s)'
      <4>1. q = p
        BY <1>1, <3>2
      <4>2. Vision!Runs(t, q)' /\ s \in Vision!Ahead(t)'
        BY <1>7, <1>8, <3>1, <3>2, <4>1
      <4>3. QED
        BY <4>2 DEF Vision!Reached
    <3>3. QED
      BY <1>5, <2>1, <3>1, <3>2, ThreadReaches
  <2>2. QED
    BY <2>1 DEF OwedReached
<1>10. RollUpDue'
  <2>1. ASSUME NEW q \in SeenPhotos
        PROVE  \/ rolled'[q] = Vision!RollUp(col'[q]) \/ q \in drifted' \/ queued'[q] > 0
               \/ \E u \in Threads : Vision!Runs(u, q)' /\ thread'[u].pc # "end"
               \/ \E s \in owed'[q] \cap Vision!Rolled : col'[q][s] = "pending"
    <3>1. CASE q = p
      BY <1>7, <3>1
    <3>2. CASE q # p
      <4>1. \A u \in Threads : Vision!Runs(u, q) => Vision!Runs(u, q)' /\ thread'[u] = thread[u]
        BY <1>1, <1>5, <3>2 DEF Vision!Runs
      <4>2. col'[q] = col[q] /\ owed'[q] = owed[q] /\ rolled' = rolled /\ queued' = queued
        BY <3>2
      <4>3. QED
        BY <4>1, <4>2 DEF StagesInv, RollUpDue
    <3>3. QED
      BY <3>1, <3>2
  <2>2. QED
    BY <2>1 DEF RollUpDue
<1>11. Unhashed'
  <2>1. p \in hashed
    BY <1>1 DEF StagesInv, Unhashed
  <2>2. QED
    BY <1>4, <1>5, <2>1 DEF StagesInv, Unhashed
<1>12. QED
  BY <1>5, <1>6, <1>9, <1>10, <1>11 DEF StagesInv

LEMMA FacingTyped ==
  ASSUME Vision!TypeOK, NEW t \in Threads, thread[t].photo \in SeenPhotos
  PROVE  /\ Vision!Facing(t) \in [SeenPhotos -> SUBSET Vision!Stages]
         /\ \A q \in SeenPhotos \ {thread[t].photo} : Vision!Facing(t)[q] = {}
         /\ \A s \in owed[thread[t].photo] :
              s = Vision!At(t) /\ col[thread[t].photo][s] = "pending" => s \in Vision!Facing(t)[thread[t].photo]
  BY DEF Vision!Facing, Vision!Owing, Vision!TypeOK

LEMMA LookStep ==
  ASSUME Vision!ClassifyConstants, StagesInv, OcrOfImages, NEW t \in Threads, Vision!Look(t)
  PROVE  StagesInv'
<1> DEFINE p == thread[t].photo
<1>1. /\ thread[t].pc = "look" /\ thread[t].at <= Len(Vision!Order)
      /\ UNCHANGED <<images, hashed, col, rolled, queued, ask, work, retry, asks, faults>>
  BY DEF Vision!Look
<1>2. /\ thread[t] \in Job /\ thread[t] # Vision!Idle /\ p \in SeenPhotos /\ Vision!Loaded(t) \in Rows
      /\ Vision!Runs(t, p) /\ \A q : Vision!Runs(t, q) => q = p
  BY <1>1, JobTyped
<1>3. CASE Vision!Skips(t)
  <2> DEFINE left == IF Vision!Loaded(t).col[Vision!At(t)] = "ok" THEN Vision!Facing(t) ELSE Vision!Nothing
  <2>1. Vision!Onward(t, Vision!Loaded(t)) /\ Vision!Owe(Vision!Nothing, left)
    BY <1>3 DEF Vision!Look
  <2>2. /\ owed' \in [SeenPhotos -> SUBSET Vision!Stages] /\ drifted' \subseteq SeenPhotos
           /\ drifted \subseteq drifted'
        /\ \A q \in SeenPhotos \ {p} : owed'[q] = owed[q]
        /\ \A q \in SeenPhotos : q = p => \A s \in owed'[q] :
             s \in owed[q] /\ (col[q][s] = "pending" => Vision!Reached(q, s)' \/ s # Vision!At(t))
    <3>1. /\ left \in [SeenPhotos -> SUBSET Vision!Stages] /\ \A q \in SeenPhotos \ {p} : left[q] = {}
          /\ \A q \in SeenPhotos : q = p =>
               \A s \in owed[q] : s = Vision!At(t) /\ col[q][s] = "pending" => s \in left[q]
      <4>1. CASE Vision!Loaded(t).col[Vision!At(t)] = "ok"
        BY <1>2, <4>1, FacingTyped DEF StagesInv
      <4>2. CASE Vision!Loaded(t).col[Vision!At(t)] # "ok"
        <5>1. Vision!At(t) = Ocr /\ p \notin images
          BY <1>3, <4>2 DEF Vision!Skips
        <5>2. Vision!At(t) \notin owed[p]
          BY <1>2, <5>1 DEF OcrOfImages
        <5>3. QED
          BY <4>2, <5>2, NothingTyped
      <4>3. QED
        BY <4>1, <4>2
    <3> HIDE DEF left
    <3>2. /\ owed' \in [SeenPhotos -> SUBSET Vision!Stages] /\ drifted' \subseteq SeenPhotos
             /\ drifted \subseteq drifted'
          /\ \A q \in SeenPhotos : owed'[q] \subseteq owed[q] \cup Vision!Nothing[q]
          /\ \A q \in SeenPhotos : left[q] = {} => owed'[q] = owed[q] \cup Vision!Nothing[q]
          /\ \A q \in SeenPhotos : \A s \in left[q] : s \in owed'[q] => Vision!Reached(q, s)'
      BY <2>1, <3>1, NothingTyped, Owed1 DEF StagesInv
    <3>3. \A q \in SeenPhotos : Vision!Nothing[q] = {}
      BY NothingTyped
    <3>4. \A q \in SeenPhotos \ {p} : owed'[q] = owed[q]
      BY <3>1, <3>2, <3>3
    <3>5. ASSUME NEW q \in SeenPhotos, q = p, NEW s \in owed'[q]
          PROVE  s \in owed[q] /\ (col[q][s] = "pending" => Vision!Reached(q, s)' \/ s # Vision!At(t))
      <4>1. s \in owed[q]
        BY <3>2, <3>3, <3>5
      <4>2. col[q][s] = "pending" /\ s = Vision!At(t) => s \in left[q]
        BY <3>1, <3>5, <4>1
      <4>3. QED
        BY <3>2, <3>5, <4>1, <4>2
    <3>6. QED
      BY <3>2, <3>4, <3>5
  <2>3. col' \in [SeenPhotos -> [Vision!Stages -> {"none", "pending", "ok", "failed"}]]
    BY <1>1 DEF StagesInv, Vision!TypeOK
  <2>4. QED
    BY <1>1, <1>2, <2>1, <2>2, <2>3, OnwardStep
<1>4. CASE ~Vision!Skips(t)
  <2> DEFINE job == [thread[t] EXCEPT !.pc = "run", !.row = Vision!Loaded(t)]
  <2>1. thread' = [thread EXCEPT ![t] = job] /\ UNCHANGED <<owed, drifted>>
    <3>1. thread' = [thread EXCEPT ![t].pc = "run", ![t].row = Vision!Loaded(t)]
          /\ UNCHANGED <<owed, drifted>>
      BY <1>4 DEF Vision!Look
    <3>2. QED
      BY <1>2, <3>1 DEF Job
  <2>2. job \in Job /\ job.pc = "run" /\ job.photo = p /\ job.at = thread[t].at
    BY <1>2 DEF Job
  <2> HIDE DEF job
  <2>3. /\ thread'[t] = job /\ \A u \in Threads \ {t} : thread'[u] = thread[u]
        /\ Walking'
        /\ \A u \in Threads : thread'[u] # Vision!Idle =>
             /\ thread'[u].pc \in {"look", "run", "write", "end"}
             /\ thread'[u].photo \in SeenPhotos /\ thread'[u].at \in 1..(Len(Walk) + 2)
    BY <1>1, <2>1, <2>2, JobChange
  <2>4. Vision!TypeOK'
    BY <1>1, <2>1, <2>3 DEF StagesInv, Vision!TypeOK
  <2>5. job # Vision!Idle
    BY <2>2, IdleIsNone
  <2>6. Vision!Ahead(t)' = Vision!Ahead(t) /\ \A q : Vision!Runs(t, q)' <=> Vision!Runs(t, q)
    BY <1>1, <1>2, <2>2, <2>3, <2>5 DEF Vision!Ahead, Vision!Runs, Vision!Order
  <2>7. OwedReached'
    <3>1. ASSUME NEW q \in SeenPhotos, NEW s \in owed'[q], col'[q][s] = "pending" PROVE Vision!Reached(q, s)'
      <4>1. Vision!Reached(q, s)
        BY <1>1, <2>1, <3>1 DEF StagesInv, OwedReached
      <4>2. ASSUME Vision!Runs(t, q), s \in Vision!Ahead(t) PROVE Vision!Reached(q, s)'
        <5>1. Vision!Runs(t, q)' /\ s \in Vision!Ahead(t)'
          BY <2>6, <4>2
        <5>2. QED
          BY <5>1 DEF Vision!Reached
      <4>3. QED
        BY <1>1, <2>3, <4>1, <4>2, ThreadReaches
    <3>2. QED
      BY <3>1 DEF OwedReached
  <2>8. RollUpDue'
    <3>1. ASSUME NEW q \in SeenPhotos, NEW u \in Threads, Vision!Runs(u, q), thread[u].pc # "end"
          PROVE  Vision!Runs(u, q)' /\ thread'[u].pc # "end"
      BY <2>2, <2>3, <2>6, <3>1 DEF Vision!Runs
    <3>2. QED
      BY <1>1, <2>1, <3>1 DEF StagesInv, RollUpDue
  <2>9. Unhashed'
    <3>1. p \in hashed
      BY <1>1, <1>2 DEF StagesInv, Unhashed
    <3>2. QED
      BY <1>1, <2>2, <2>3, <3>1 DEF StagesInv, Unhashed
  <2>10. QED
    BY <2>3, <2>4, <2>7, <2>8, <2>9 DEF StagesInv
<1>5. QED
  BY <1>3, <1>4

LEMMA SettleStep ==
  ASSUME Vision!ClassifyConstants, StagesInv, NEW t \in Threads, Vision!Settle(t)
  PROVE  StagesInv'
<1> DEFINE p == thread[t].photo
<1>1. /\ thread[t].pc = "run" /\ Vision!Onward(t, Vision!NoRow) /\ Vision!NoRow \in Rows
      /\ UNCHANGED <<images, hashed, rolled, queued, ask, work, retry, asks, faults, owed, drifted>>
  BY DEF Vision!Settle, Rows
<1>2. PICK result \in {"ok", "failed"} : col' = [col EXCEPT ![p][Vision!At(t)] = result]
  BY DEF Vision!Settle
<1>3. p \in SeenPhotos /\ thread[t].at <= Len(Vision!Order)
  BY <1>1, JobTyped DEF StagesInv, Walking
<1>4. Vision!At(t) \in Vision!Stages
  <2>1. thread[t] \in Job
    BY <1>1, JobTyped
  <2>2. thread[t].at \in 1..Len(Vision!Order)
    BY <1>3, <2>1, Walked DEF Job
  <2>3. QED
    BY <2>2, Walked DEF Vision!At
<1>5. /\ col' \in [SeenPhotos -> [Vision!Stages -> {"none", "pending", "ok", "failed"}]]
      /\ \A q \in SeenPhotos \ {p} : col'[q] = col[q]
      /\ col'[p][Vision!At(t)] = result /\ \A s \in Vision!Stages : s # Vision!At(t) => col'[p][s] = col[p][s]
  <2>1. col \in [SeenPhotos -> [Vision!Stages -> {"none", "pending", "ok", "failed"}]]
    BY DEF StagesInv, Vision!TypeOK
  <2>2. QED
    BY <1>2, <1>3, <1>4, <2>1
<1>6. \A s \in owed'[p] : col'[p][s] = "pending" => s # Vision!At(t) /\ s \in owed[p] /\ col[p][s] = "pending"
  BY <1>1, <1>3, <1>5 DEF StagesInv, Vision!TypeOK
<1>7. owed' \in [SeenPhotos -> SUBSET Vision!Stages] /\ drifted' \subseteq SeenPhotos /\ owed' = owed
      /\ drifted' = drifted
  BY <1>1 DEF StagesInv, Vision!TypeOK
<1>8. QED
  BY <1>1, <1>3, <1>5, <1>6, <1>7, OnwardStep

LEMMA StageLeaveStep ==
  ASSUME Vision!ClassifyConstants, StagesInv, NEW t \in Threads, Vision!Leave(t)
  PROVE  StagesInv'
<1> DEFINE p == thread[t].photo
<1>1. /\ thread[t].pc = "run" /\ Vision!Onward(t, Vision!Loaded(t))
         /\ Vision!Owe(Vision!Nothing, Vision!Facing(t))
      /\ UNCHANGED <<images, hashed, col, rolled, queued, ask, work, retry, asks, faults>>
  BY DEF Vision!Leave
<1>2. p \in SeenPhotos /\ Vision!Loaded(t) \in Rows /\ thread[t].at <= Len(Vision!Order)
  BY <1>1, JobTyped DEF StagesInv, Walking
<1>3. /\ Vision!Facing(t) \in [SeenPhotos -> SUBSET Vision!Stages]
      /\ \A q \in SeenPhotos \ {p} : Vision!Facing(t)[q] = {}
      /\ \A s \in owed[p] : s = Vision!At(t) /\ col[p][s] = "pending" => s \in Vision!Facing(t)[p]
  BY <1>2, FacingTyped DEF StagesInv
<1>4. /\ owed' \in [SeenPhotos -> SUBSET Vision!Stages] /\ drifted' \subseteq SeenPhotos
         /\ drifted \subseteq drifted'
      /\ \A q \in SeenPhotos : owed'[q] \subseteq owed[q] \cup Vision!Nothing[q]
      /\ \A q \in SeenPhotos : Vision!Facing(t)[q] = {} => owed'[q] = owed[q] \cup Vision!Nothing[q]
      /\ \A q \in SeenPhotos : \A s \in Vision!Facing(t)[q] : s \in owed'[q] => Vision!Reached(q, s)'
  BY <1>1, <1>3, NothingTyped, Owed1 DEF StagesInv
<1>5. ASSUME NEW q \in SeenPhotos \ {p} PROVE owed'[q] = owed[q]
  <2>1. Vision!Nothing[q] = {} /\ Vision!Facing(t)[q] = {}
    BY <1>3, NothingTyped
  <2>2. owed'[q] = owed[q] \cup Vision!Nothing[q]
    BY <1>4, <2>1
  <2>3. QED
    BY <2>1, <2>2
<1>6. ASSUME NEW q \in SeenPhotos, q = p, NEW s \in owed'[q]
      PROVE  s \in owed[q] /\ (col[q][s] = "pending" => Vision!Reached(q, s)' \/ s # Vision!At(t))
  <2>1. s \in owed[q]
    BY <1>4, <1>6, NothingTyped
  <2>2. col[q][s] = "pending" /\ s = Vision!At(t) => s \in Vision!Facing(t)[q]
    BY <1>3, <1>6, <2>1
  <2>3. QED
    BY <1>4, <1>6, <2>1, <2>2
<1>7. col' \in [SeenPhotos -> [Vision!Stages -> {"none", "pending", "ok", "failed"}]]
  BY <1>1 DEF StagesInv, Vision!TypeOK
<1>8. QED
  BY <1>1, <1>2, <1>4, <1>5, <1>6, <1>7, OnwardStep

\* A job at its roll-up, or past it, has no stage ahead of it.
LEMMA RollUpStep ==
  ASSUME Vision!ClassifyConstants, StagesInv, NEW t \in Threads, thread[t].pc \in {"look", "write"},
         Vision!Ahead(t) = {}, NEW job \in Job, thread' = [thread EXCEPT ![t] = job],
         job.pc \in {"write", "end"}, job.photo = thread[t].photo, Vision!Judged(t),
         UNCHANGED <<images, hashed, col, queued, ask, work, retry, owed>>,
         rolled' \in [SeenPhotos -> {"pending", "ok", "failed"}],
         \A q \in SeenPhotos \ {thread[t].photo} : rolled'[q] = rolled[q],
         job.pc = "end" /\ Vision!Loaded(t) = Vision!Row(thread[t].photo) =>
           rolled'[thread[t].photo] = Vision!RollUp(col[thread[t].photo])
  PROVE  StagesInv'
<1> DEFINE p == thread[t].photo
<1>1. p \in SeenPhotos /\ Vision!Runs(t, p) /\ (\A q : Vision!Runs(t, q) => q = p) /\ thread[t] # Vision!Idle
  BY JobTyped
<1>2. /\ thread'[t] = job /\ \A u \in Threads \ {t} : thread'[u] = thread[u]
      /\ Walking'
      /\ \A u \in Threads : thread'[u] # Vision!Idle =>
           /\ thread'[u].pc \in {"look", "run", "write", "end"}
           /\ thread'[u].photo \in SeenPhotos /\ thread'[u].at \in 1..(Len(Walk) + 2)
  BY JobChange
<1>3. /\ drifted' = IF Vision!Loaded(t) = Vision!Row(p) THEN drifted \ {p} ELSE drifted \cup {p}
  BY DEF Vision!Judged
<1>4. drifted' \subseteq SeenPhotos
  BY <1>1, <1>3 DEF StagesInv, Vision!TypeOK
<1>5. Vision!TypeOK'
  BY <1>2, <1>4 DEF StagesInv, Vision!TypeOK
<1>6. OwedReached'
  <2>1. ASSUME NEW q \in SeenPhotos, NEW s \in owed'[q], col'[q][s] = "pending" PROVE Vision!Reached(q, s)'
    <3>1. Vision!Reached(q, s)
      BY <2>1 DEF StagesInv, OwedReached
    <3>2. QED
      BY <1>2, <3>1, ThreadReaches
  <2>2. QED
    BY <2>1 DEF OwedReached
<1>7. RollUpDue'
  <2>1. ASSUME NEW q \in SeenPhotos
        PROVE  \/ rolled'[q] = Vision!RollUp(col'[q]) \/ q \in drifted' \/ queued'[q] > 0
               \/ \E u \in Threads : Vision!Runs(u, q)' /\ thread'[u].pc # "end"
               \/ \E s \in owed'[q] \cap Vision!Rolled : col'[q][s] = "pending"
    <3>1. CASE q = p
      <4>1. CASE job.pc = "write"
        <5>1. job # Vision!Idle
          BY IdleIsNone
        <5>2. Vision!Runs(t, q)' /\ thread'[t].pc # "end"
          BY <1>2, <3>1, <4>1, <5>1 DEF Vision!Runs
        <5>3. QED
          BY <5>2
      <4>2. CASE job.pc = "end"
        <5>1. CASE Vision!Loaded(t) = Vision!Row(p)
          BY <3>1, <4>2, <5>1
        <5>2. CASE Vision!Loaded(t) # Vision!Row(p)
          BY <1>3, <3>1, <5>2
        <5>3. QED
          BY <5>1, <5>2
      <4>3. QED
        BY <4>1, <4>2
    <3>2. CASE q # p
      <4>1. \A u \in Threads : Vision!Runs(u, q) => Vision!Runs(u, q)' /\ thread'[u] = thread[u]
        BY <1>1, <1>2, <3>2 DEF Vision!Runs
      <4>2. (q \in drifted => q \in drifted') /\ rolled'[q] = rolled[q]
        BY <1>3, <3>2
      <4>3. QED
        BY <4>1, <4>2 DEF StagesInv, RollUpDue
    <3>3. QED
      BY <3>1, <3>2
  <2>2. QED
    BY <2>1 DEF RollUpDue
<1>8. Unhashed'
  <2>1. p \in hashed
    BY <1>1 DEF StagesInv, Unhashed
  <2>2. QED
    BY <1>2, <2>1 DEF StagesInv, Unhashed
<1>9. QED
  BY <1>2, <1>5, <1>6, <1>7, <1>8 DEF StagesInv

LEMMA RollUpReadStep ==
  ASSUME Vision!ClassifyConstants, StagesInv, NEW t \in Threads, Vision!RollUpRead(t)
  PROVE  StagesInv'
<1> DEFINE p == thread[t].photo
           pc == IF Vision!Loaded(t).rolled = Vision!RollUp(Vision!Loaded(t).col) THEN "end" ELSE "write"
           job == [thread[t] EXCEPT !.row = Vision!Loaded(t), !.pc = pc]
<1>1. /\ thread[t].pc = "look" /\ thread[t].at > Len(Vision!Order) /\ Vision!Judged(t)
      /\ UNCHANGED <<images, hashed, col, rolled, queued, ask, work, retry, asks, faults, owed>>
  BY DEF Vision!RollUpRead
<1>2. thread[t] \in Job /\ p \in SeenPhotos /\ Vision!Loaded(t) \in Rows
  BY <1>1, JobTyped
<1>3. thread' = [thread EXCEPT ![t] = job]
  <2>1. thread' = [thread EXCEPT ![t].row = Vision!Loaded(t), ![t].pc = pc]
    BY DEF Vision!RollUpRead
  <2> HIDE DEF pc
  <2>2. QED
    BY <1>2, <2>1 DEF Job
<1>4. pc \in {"write", "end"} /\ (pc = "end" => Vision!Loaded(t).rolled = Vision!RollUp(Vision!Loaded(t).col))
  OBVIOUS
<1> HIDE DEF pc
<1>5. job \in Job /\ job.pc = pc /\ job.photo = p
  BY <1>2, <1>4 DEF Job
<1> HIDE DEF job
<1>6. Vision!Ahead(t) = {}
  <2>1. \A i \in thread[t].at..Len(Vision!Order) : FALSE
    BY <1>1, <1>2, Walked DEF Job
  <2>2. QED
    BY <1>1, <2>1 DEF Vision!Ahead
<1>7. job.pc = "end" /\ Vision!Loaded(t) = Vision!Row(p) => rolled'[p] = Vision!RollUp(col[p])
  BY <1>1, <1>4, <1>5 DEF Vision!Row
<1>8. rolled' \in [SeenPhotos -> {"pending", "ok", "failed"}] /\ rolled' = rolled
  BY <1>1 DEF StagesInv, Vision!TypeOK
<1>9. QED
  BY <1>1, <1>3, <1>4, <1>5, <1>6, <1>7, <1>8, RollUpStep

LEMMA RollUpWriteStep ==
  ASSUME Vision!ClassifyConstants, StagesInv, NEW t \in Threads, Vision!RollUpWrite(t)
  PROVE  StagesInv'
<1> DEFINE p == thread[t].photo
           job == [thread[t] EXCEPT !.pc = "end", !.row = Vision!NoRow]
<1>1. /\ thread[t].pc = "write" /\ Vision!Judged(t)
      /\ rolled' = [rolled EXCEPT ![p] = Vision!RollUp(Vision!Loaded(t).col)]
      /\ UNCHANGED <<images, hashed, col, queued, ask, work, retry, asks, faults, owed>>
  BY DEF Vision!RollUpWrite
<1>2. thread[t] \in Job /\ p \in SeenPhotos /\ Vision!Loaded(t) \in Rows
  BY <1>1, JobTyped
<1>3. thread' = [thread EXCEPT ![t] = job]
  <2>1. thread' = [thread EXCEPT ![t].pc = "end", ![t].row = Vision!NoRow]
    BY DEF Vision!RollUpWrite
  <2>2. QED
    BY <1>2, <2>1 DEF Job
<1>4. job \in Job /\ job.pc = "end" /\ job.photo = p
  BY <1>2 DEF Job, Rows
<1> HIDE DEF job
<1>5. Vision!Ahead(t) = {}
  BY <1>1 DEF Vision!Ahead
<1>6. Vision!RollUp(Vision!Loaded(t).col) \in {"pending", "ok", "failed"}
  BY DEF Vision!RollUp
<1>7. /\ rolled' \in [SeenPhotos -> {"pending", "ok", "failed"}]
         /\ rolled'[p] = Vision!RollUp(Vision!Loaded(t).col)
      /\ \A q \in SeenPhotos \ {p} : rolled'[q] = rolled[q]
  BY <1>1, <1>2, <1>6 DEF StagesInv, Vision!TypeOK
<1>8. Vision!Loaded(t) = Vision!Row(p) => rolled'[p] = Vision!RollUp(col[p])
  BY <1>7 DEF Vision!Row
<1>9. QED
  BY <1>1, <1>3, <1>4, <1>5, <1>7, <1>8, RollUpStep

LEMMA CompleteStep ==
  ASSUME Vision!ClassifyConstants, StagesInv, NEW t \in Threads, Vision!Complete(t)
  PROVE  StagesInv'
<1>1. /\ thread[t].pc = "end" /\ thread' = [thread EXCEPT ![t] = Vision!Idle]
      /\ UNCHANGED <<images, hashed, col, rolled, queued, ask, work, retry, asks, faults, owed, drifted>>
  BY DEF Vision!Complete
<1>2. /\ thread'[t] = Vision!Idle /\ \A u \in Threads \ {t} : thread'[u] = thread[u]
      /\ Walking'
      /\ \A u \in Threads : thread'[u] # Vision!Idle =>
           /\ thread'[u].pc \in {"look", "run", "write", "end"}
           /\ thread'[u].photo \in SeenPhotos /\ thread'[u].at \in 1..(Len(Walk) + 2)
  BY <1>1, IdleIsNone, JobChange
<1>3. Vision!TypeOK'
  BY <1>1, <1>2 DEF StagesInv, Vision!TypeOK
<1>4. Vision!Ahead(t) = {}
  BY <1>1 DEF Vision!Ahead
<1>5. OwedReached'
  <2>1. ASSUME NEW q \in SeenPhotos, NEW s \in owed'[q], col'[q][s] = "pending" PROVE Vision!Reached(q, s)'
    <3>1. Vision!Reached(q, s)
      BY <1>1, <2>1 DEF StagesInv, OwedReached
    <3>2. QED
      BY <1>1, <1>2, <1>4, <3>1, ThreadReaches
  <2>2. QED
    BY <2>1 DEF OwedReached
<1>6. RollUpDue'
  <2>1. ASSUME NEW q \in SeenPhotos, NEW u \in Threads, Vision!Runs(u, q), thread[u].pc # "end"
        PROVE  Vision!Runs(u, q)' /\ thread'[u].pc # "end"
    BY <1>1, <1>2, <2>1 DEF Vision!Runs
  <2>2. QED
    BY <1>1, <2>1 DEF StagesInv, RollUpDue
<1>7. Unhashed'
  BY <1>1, <1>2 DEF StagesInv, Unhashed
<1>8. QED
  BY <1>2, <1>3, <1>5, <1>6, <1>7 DEF StagesInv

LEMMA JobFaultStep ==
  ASSUME Vision!ClassifyConstants, StagesInv, NEW t \in Threads, Vision!JobFault(t)
  PROVE  StagesInv'
<1> DEFINE p == thread[t].photo
<1>1. /\ thread[t] # Vision!Idle /\ thread' = [thread EXCEPT ![t] = Vision!Idle]
         /\ queued' = [queued EXCEPT ![p] = @ + 1]
      /\ UNCHANGED <<images, hashed, col, rolled, ask, work, retry, asks, owed, drifted>>
  BY DEF Vision!JobFault, Vision!Requeue
<1>2. /\ thread'[t] = Vision!Idle /\ \A u \in Threads \ {t} : thread'[u] = thread[u]
      /\ Walking'
      /\ \A u \in Threads : thread'[u] # Vision!Idle =>
           /\ thread'[u].pc \in {"look", "run", "write", "end"}
           /\ thread'[u].photo \in SeenPhotos /\ thread'[u].at \in 1..(Len(Walk) + 2)
  BY <1>1, IdleIsNone, JobChange
<1>3. p \in SeenPhotos /\ \A q : Vision!Runs(t, q) => q = p
  BY <1>1 DEF StagesInv, Vision!TypeOK, Vision!Runs
<1>4. queued' \in [SeenPhotos -> Nat] /\ queued'[p] > 0 /\ \A q \in SeenPhotos \ {p} : queued'[q] = queued[q]
  BY <1>1, <1>3 DEF StagesInv, Vision!TypeOK
<1>5. Vision!TypeOK'
  BY <1>1, <1>2, <1>4 DEF StagesInv, Vision!TypeOK
<1>6. OwedReached'
  <2>1. ASSUME NEW q \in SeenPhotos, NEW s \in owed'[q], col'[q][s] = "pending" PROVE Vision!Reached(q, s)'
    <3>1. CASE q = p
      BY <1>4, <3>1 DEF Vision!Reached
    <3>2. CASE q # p
      <4>1. Vision!Reached(q, s) /\ queued'[q] = queued[q]
        BY <1>1, <1>4, <2>1, <3>2 DEF StagesInv, OwedReached
      <4>2. QED
        BY <1>1, <1>2, <1>3, <3>2, <4>1, ThreadReaches
    <3>3. QED
      BY <3>1, <3>2
  <2>2. QED
    BY <2>1 DEF OwedReached
<1>7. RollUpDue'
  <2>1. ASSUME NEW q \in SeenPhotos
        PROVE  \/ rolled'[q] = Vision!RollUp(col'[q]) \/ q \in drifted' \/ queued'[q] > 0
               \/ \E u \in Threads : Vision!Runs(u, q)' /\ thread'[u].pc # "end"
               \/ \E s \in owed'[q] \cap Vision!Rolled : col'[q][s] = "pending"
    <3>1. CASE q = p
      BY <1>4, <3>1
    <3>2. CASE q # p
      <4>1. \A u \in Threads : Vision!Runs(u, q) => Vision!Runs(u, q)' /\ thread'[u] = thread[u]
        BY <1>2, <1>3, <3>2 DEF Vision!Runs
      <4>2. queued'[q] = queued[q]
        BY <1>4, <3>2
      <4>3. QED
        BY <1>1, <4>1, <4>2 DEF StagesInv, RollUpDue
    <3>3. QED
      BY <3>1, <3>2
  <2>2. QED
    BY <2>1 DEF RollUpDue
<1>8. Unhashed'
  BY <1>1, <1>2 DEF StagesInv, Unhashed
<1>9. QED
  BY <1>2, <1>5, <1>6, <1>7, <1>8 DEF StagesInv

-------------------------------------------------------------------------------
(***************************************************************************)
(* The invariant, and the property of the runs.                            *)
(***************************************************************************)
LEMMA StagesInit ==
  ASSUME Vision!ClassifyConstants, Vision!Init
  PROVE  StagesInv
<1>1. /\ images \subseteq SeenPhotos /\ hashed \subseteq SeenPhotos
      /\ col = [p \in SeenPhotos |-> [s \in Vision!Stages |-> IF s = Ocr THEN "none" ELSE "pending"]]
      /\ rolled = [p \in SeenPhotos |-> "pending"] /\ queued = [p \in SeenPhotos |-> 0]
      /\ thread = [t \in Threads |-> Vision!Idle]
      /\ ask = [p \in SeenPhotos |-> {}]
      /\ work = [p \in SeenPhotos |-> "none"]
      /\ retry = [r \in Retries |-> [pc |-> "none", ids |-> {}]]
      /\ owed = [p \in SeenPhotos |-> {}] /\ drifted = {}
  BY DEF Vision!Init, Vision!Nothing, Vision!IdleRetry
<1>2. Vision!Rolled \subseteq Vision!Stages
  BY DEF Vision!Stages
<1>3. \A p \in SeenPhotos : \A s \in Vision!Rolled : col[p][s] = "pending"
  BY <1>1, <1>2 DEF Vision!ClassifyConstants
<1>4. \A t \in Threads : thread[t] = Vision!Idle /\ thread[t].pc = "idle"
  BY <1>1, IdleIsNone
<1>5. Vision!TypeOK
  <2>1. col \in [SeenPhotos -> [Vision!Stages -> {"none", "pending", "ok", "failed"}]]
    BY <1>1
  <2>2. rolled \in [SeenPhotos -> {"pending", "ok", "failed"}] /\ queued \in [SeenPhotos -> Nat]
    BY <1>1
  <2>3. ask \in [SeenPhotos -> SUBSET Vision!Stages] /\ owed \in [SeenPhotos -> SUBSET Vision!Stages]
    BY <1>1
  <2>4. /\ work \in [SeenPhotos -> {"none", "asked", "insert", "finish"}]
        /\ retry \in [Retries -> [pc : {"none", "queued", "reset", "fanout"}, ids : SUBSET SeenPhotos]]
    BY <1>1
  <2>5. QED
    BY <1>1, <1>4, <2>1, <2>2, <2>3, <2>4 DEF Vision!TypeOK
<1>6. RollUpDue
  <2>1. ASSUME NEW p \in SeenPhotos PROVE rolled[p] = Vision!RollUp(col[p])
    <3>1. PICK s \in Vision!Rolled : TRUE
      BY Walked
    <3>2. Vision!RollUp(col[p]) = "pending"
      BY <1>3, <3>1, PendingRollUp
    <3>3. QED
      BY <1>1, <3>2
  <2>2. QED
    BY <2>1 DEF RollUpDue
<1>7. OwedReached /\ Unhashed
  BY <1>1, <1>3, <1>4 DEF OwedReached, Unhashed
<1>8. Walking
  BY <1>1, <1>4 DEF Walking
<1>9. QED
  BY <1>5, <1>6, <1>7, <1>8 DEF StagesInv

LEMMA StagesNext ==
  ASSUME Vision!ClassifyConstants, StagesInv, OcrOfImages, [Vision!Next]_(Vision!vars)
  PROVE  StagesInv'
<1>1. CASE UNCHANGED Vision!vars
  BY <1>1 DEF Vision!vars, StagesInv, Vision!TypeOK, Walking, OwedReached, RollUpDue, Unhashed,
     Vision!Reached, Vision!Runs, Vision!Ahead
<1>2. ASSUME NEW how \in Asks, NEW force \in BOOLEAN, Vision!RequestLook(how, force) PROVE StagesInv'
  BY <1>2, RequestLookStep
<1>3. CASE Vision!RequestCommit
  BY <1>3, RequestCommitStep
<1>4. ASSUME NEW r \in Retries,
             Vision!RetryStage(r) \/ Vision!RetryLook(r) \/ Vision!RetryReset(r) \/ Vision!RetryFanOut(r) \/ Vision!RetryFault(r)
      PROVE  StagesInv'
  BY <1>4, RetryStageStep, RetryResetStep, RetryFanOutStep, RetryFaultStep
<1>5. ASSUME NEW p \in SeenPhotos,
             Vision!AutoEnqueue(p) \/ Vision!HandOffLook(p) \/ Vision!HandOffInsert(p) \/ Vision!HandOffEnd(p) \/ Vision!HandOffFault(p)
      PROVE  StagesInv'
  BY <1>5, AutoEnqueueStep, HandOffLookStep, HandOffInsertStep, HandOffEndStep
<1>6. ASSUME NEW t \in Threads, NEW p \in SeenPhotos, Vision!Claim(t, p) PROVE StagesInv'
  BY <1>6, ClaimStep
<1>7. ASSUME NEW t \in Threads,
             Vision!Look(t) \/ Vision!Settle(t) \/ Vision!Leave(t) \/ Vision!RollUpRead(t) \/ Vision!RollUpWrite(t) \/ Vision!Complete(t) \/ Vision!JobFault(t)
      PROVE  StagesInv'
  BY <1>7, LookStep, SettleStep, StageLeaveStep, RollUpReadStep, RollUpWriteStep, CompleteStep, JobFaultStep
<1>8. QED
  BY <1>1, <1>2, <1>3, <1>4, <1>5, <1>6, <1>7 DEF Vision!Next

\* Text recognition is asked of images alone.
LEMMA OcrStep ==
  ASSUME Vision!ClassifyConstants, StagesInv, OcrOfImages, [Vision!Next]_(Vision!vars)
  PROVE  OcrOfImages'
<1> USE DEF StagesInv
<1>1. ASSUME NEW asked \in [SeenPhotos -> SUBSET Vision!Stages], NEW left \in [SeenPhotos -> SUBSET Vision!Stages],
             Vision!Owe(asked, left), UNCHANGED images,
             \A p \in SeenPhotos \ images :
               Ocr \notin asked[p] /\ Ocr \notin ask'[p] /\ \A r \in Retries : p \notin retry'[r].ids
      PROVE  OcrOfImages'
  BY <1>1, Owed1 DEF OcrOfImages
<1>2. CASE UNCHANGED Vision!vars
  BY <1>2 DEF Vision!vars, OcrOfImages
<1>3. ASSUME NEW how \in Asks, NEW force \in BOOLEAN, Vision!RequestLook(how, force) PROVE OcrOfImages'
  <2>1. /\ ask' = [p \in SeenPhotos |-> {s \in how : (s = Ocr => p \in images) /\ (force \/ col[p][s] # "ok")}]
        /\ UNCHANGED <<images, owed, retry>>
    BY <1>3 DEF Vision!RequestLook
  <2>2. QED
    BY <2>1 DEF OcrOfImages
<1>4. CASE Vision!RequestCommit
  <2>1. /\ ask \in [SeenPhotos -> SUBSET Vision!Stages] /\ Vision!Behind(ask) \in [SeenPhotos -> SUBSET Vision!Stages]
        /\ ask' = Vision!Nothing /\ UNCHANGED <<images, retry>> /\ Vision!Owe(ask, Vision!Behind(ask))
    BY <1>4, BehindTyped DEF Vision!RequestCommit, Vision!TypeOK
  <2>2. QED
    BY <1>1, <2>1, NothingTyped DEF OcrOfImages
<1>5. ASSUME NEW r \in Retries, Vision!RetryStage(r) \/ Vision!RetryLook(r) PROVE OcrOfImages'
  <2>1. /\ UNCHANGED <<images, owed, ask>>
        /\ \/ retry[r] = Vision!IdleRetry /\ retry' = [retry EXCEPT ![r].pc = "queued"]
           \/ \E ids \in SUBSET images : retry' = [retry EXCEPT ![r] = [pc |-> "reset", ids |-> ids]]
    BY <1>5 DEF Vision!RetryStage, Vision!RetryLook
  <2>2. retry[r].ids \subseteq SeenPhotos /\ (retry[r] = Vision!IdleRetry => retry[r].ids = {})
    BY DEF Vision!TypeOK, Vision!IdleRetry
  <2>3. /\ retry'[r].ids = retry[r].ids \/ retry'[r].ids \subseteq images
        /\ \A q \in Retries : q # r => retry'[q] = retry[q]
    BY <2>1 DEF Vision!TypeOK
  <2>4. \A q \in Retries : retry'[q].ids = retry[q].ids \/ retry'[q].ids \subseteq images
    BY <2>3
  <2>5. QED
    BY <2>1, <2>4 DEF OcrOfImages
<1>6. ASSUME NEW r \in Retries, Vision!RetryReset(r) PROVE OcrOfImages'
  <2>1. /\ Vision!Owe(Vision!Chosen(r), Vision!Nothing) /\ retry' = [retry EXCEPT ![r].pc = "fanout"]
        /\ UNCHANGED <<images, ask>>
    BY <1>6 DEF Vision!RetryReset
  <2>2. /\ Vision!Chosen(r) \in [SeenPhotos -> SUBSET Vision!Stages]
        /\ \A p \in SeenPhotos : p \notin retry[r].ids => Vision!Chosen(r)[p] = {}
    BY DEF Vision!Chosen, Vision!ClassifyConstants
  <2>3. \A q \in Retries : retry'[q].ids = retry[q].ids
    BY <2>1 DEF Vision!TypeOK
  <2>4. QED
    BY <1>1, <2>1, <2>2, <2>3, NothingTyped DEF OcrOfImages
<1>7. ASSUME NEW r \in Retries, Vision!RetryFanOut(r) \/ Vision!RetryFault(r) PROVE OcrOfImages'
  <2>1. /\ \/ Vision!Owe(Vision!Nothing, Vision!TooLate(Vision!Owing(retry[r].ids)))
           \/ Vision!Owe(Vision!Nothing, Vision!Owing(retry[r].ids))
           \/ Vision!Owe(Vision!Nothing, Vision!Nothing)
        /\ \E pc : retry' = [retry EXCEPT ![r] = [pc |-> pc, ids |-> {}]]
        /\ UNCHANGED <<images, ask>>
    BY <1>7 DEF Vision!RetryFanOut, Vision!RetryFault, Vision!IdleRetry
  <2>2. \A q \in Retries : retry'[q].ids \subseteq retry[q].ids
    BY <2>1 DEF Vision!TypeOK
  <2>3. /\ Vision!Owing(retry[r].ids) \in [SeenPhotos -> SUBSET Vision!Stages]
        /\ Vision!TooLate(Vision!Owing(retry[r].ids)) \in [SeenPhotos -> SUBSET Vision!Stages]
    BY OwingTyped, TooLateTyped
  <2>4. QED
    BY <1>1, <2>1, <2>2, <2>3, NothingTyped DEF OcrOfImages
<1>8. ASSUME NEW p \in SeenPhotos, Vision!AutoEnqueue(p) PROVE OcrOfImages'
  <2> DEFINE S == [Vision!Nothing EXCEPT ![p] =
                     (IF p \in images /\ col[p][Ocr] = "none" THEN {Ocr} ELSE {})
                       \cup {s \in Vision!Rolled : col[p][s] = "pending"}]
  <2>1. Vision!Owe(S, Vision!TooLate(S)) /\ UNCHANGED <<images, ask, retry>>
    BY <1>8 DEF Vision!AutoEnqueue
  <2>2. S \in [SeenPhotos -> SUBSET Vision!Stages] /\ \A q \in SeenPhotos \ images : Ocr \notin S[q]
    BY DEF Vision!Nothing, Vision!Stages, Vision!ClassifyConstants
  <2> HIDE DEF S
  <2>3. QED
    BY <1>1, <2>1, <2>2, TooLateTyped DEF OcrOfImages
<1>9. ASSUME NEW p \in SeenPhotos, Vision!HandOffLook(p) PROVE OcrOfImages'
  <2>1. Vision!Owe(Vision!Nothing, Vision!Behind(Vision!Owing({p}))) /\ UNCHANGED <<images, ask, retry>>
    BY <1>9 DEF Vision!HandOffLook
  <2>2. QED
    BY <1>1, <2>1, OwingTyped, BehindTyped, NothingTyped DEF OcrOfImages
<1>10. ASSUME NEW t \in Threads, NEW p \in SeenPhotos, Vision!Claim(t, p) PROVE OcrOfImages'
  <2>1. /\ Vision!Owe(Vision!Nothing, IF p \in hashed THEN Vision!Nothing ELSE Vision!Owing({p}))
        /\ UNCHANGED <<images, ask, retry>>
    BY <1>10 DEF Vision!Claim
  <2>2. QED
    BY <1>1, <2>1, OwingTyped, NothingTyped DEF OcrOfImages
<1>11. ASSUME NEW t \in Threads, Vision!Look(t) \/ Vision!Leave(t) PROVE OcrOfImages'
  <2>1. /\ UNCHANGED <<images, ask, retry>> /\ thread[t].pc \in {"look", "run"}
        /\ \/ UNCHANGED owed
           \/ \E left \in {Vision!Facing(t), Vision!Nothing} : Vision!Owe(Vision!Nothing, left)
    BY <1>11 DEF Vision!Look, Vision!Leave
  <2>2. thread[t].photo \in SeenPhotos
    BY <2>1, JobTyped
  <2>3. CASE UNCHANGED owed
    BY <2>1, <2>3 DEF OcrOfImages
  <2>4. QED
    BY <1>1, <2>1, <2>2, <2>3, FacingTyped, NothingTyped DEF OcrOfImages
<1>12. ASSUME NEW p \in SeenPhotos, Vision!HandOffInsert(p) \/ Vision!HandOffEnd(p) \/ Vision!HandOffFault(p)
       PROVE  OcrOfImages'
  BY <1>12 DEF OcrOfImages, Vision!HandOffInsert, Vision!HandOffEnd, Vision!HandOffFault
<1>13. ASSUME NEW t \in Threads,
              Vision!Settle(t) \/ Vision!RollUpRead(t) \/ Vision!RollUpWrite(t) \/ Vision!Complete(t) \/ Vision!JobFault(t)
       PROVE  OcrOfImages'
  BY <1>13 DEF OcrOfImages, Vision!Settle, Vision!RollUpRead, Vision!RollUpWrite, Vision!Complete, Vision!JobFault
<1>14. QED
  BY <1>2, <1>3, <1>4, <1>5, <1>6, <1>7, <1>8, <1>9, <1>10, <1>11, <1>12, <1>13 DEF Vision!Next

\* A roll-up that is due has something under way for its photo.
LEMMA StagesSettled ==
  ASSUME StagesInv
  PROVE  Vision!StagesSettle
<1>1. ASSUME NEW p \in SeenPhotos
      PROVE  Vision!Unrolled(p) \/ p \in drifted \/ rolled[p] = Vision!RollUp(col[p])
  <2>1. CASE queued[p] > 0 \/ \E t \in Threads : Vision!Runs(t, p) /\ thread[t].pc # "end"
    BY <2>1 DEF Vision!Unrolled, Vision!Live
  <2>2. ASSUME NEW s \in owed[p] \cap Vision!Rolled, col[p][s] = "pending" PROVE Vision!Unrolled(p)
    <3>1. Vision!Reached(p, s)
      BY <2>2 DEF StagesInv, OwedReached
    <3>2. QED
      BY <3>1 DEF Vision!Reached, Vision!Unrolled, Vision!Live
  <2>3. QED
    BY <2>1, <2>2 DEF StagesInv, RollUpDue
<1>2. QED
  BY <1>1 DEF Vision!StagesSettle, StagesInv, OwedReached

\* The stages of run_classify_ml: type correctness, who reaches what is owed, whose
\* roll-up is due, and the jobs' walk over their stages, for any stages and threads.
THEOREM StagesKeep ==
  ASSUME Vision!ClassifyConstants
  PROVE  Vision!Spec => []StagesInv
<1>1. Vision!Init => StagesInv /\ OcrOfImages
  <2>1. Vision!Init => OcrOfImages
    BY NothingTyped DEF Vision!Init, Vision!IdleRetry, OcrOfImages
  <2>2. QED
    BY <2>1, StagesInit
<1>2. StagesInv /\ OcrOfImages /\ [Vision!Next]_(Vision!vars) => StagesInv' /\ OcrOfImages'
  BY StagesNext, OcrStep
<1>3. QED
  BY <1>1, <1>2, PTL DEF Vision!Spec

\* Stages that were asked for are come to but where they were given up, and roll-ups are
\* not left behind.
THEOREM StagesRight ==
  ASSUME Vision!ClassifyConstants
  PROVE  Vision!Spec => []Vision!StagesSettle
<1>1. StagesInv => Vision!StagesSettle
  BY StagesSettled
<1>2. QED
  BY <1>1, StagesKeep, PTL

-------------------------------------------------------------------------------
(***************************************************************************)
(* The timeline.  The listing of a filter is a sequence without doubles of *)
(* the photos it lists, which is as long as the years' bars are high.      *)
(***************************************************************************)
\* An instance has operators of its own for the ones its module takes from the library.
LEMMA SameSizes ==
  /\ \A S : Browsing!Cardinality(S) = Cardinality(S)
  /\ \A S : Browsing!IsFiniteSet(S) <=> IsFiniteSet(S)
  BY DEF Browsing!Cardinality, Cardinality, Browsing!IsFiniteSet, IsFiniteSet

LEMMA Least ==
  ASSUME NEW S \in SUBSET Nat, S # {} PROVE Browsing!Min(S) \in S /\ \A y \in S : Browsing!Min(S) <= y
<1>1. PICK x \in S : \A y \in S : x <= y
  BY LeastNat
<1>2. QED
  BY <1>1 DEF Browsing!Min

\* The smaller of two numbers, and the larger.
LEMMA Smaller ==
  ASSUME NEW a \in Nat, NEW b \in Nat
  PROVE  Browsing!Min({a, b}) = IF a <= b THEN a ELSE b
<1>1. {a, b} \in SUBSET Nat /\ {a, b} # {}
  OBVIOUS
<1>2. Browsing!Min({a, b}) \in {a, b} /\ \A y \in {a, b} : Browsing!Min({a, b}) <= y
  BY <1>1, Least
<1> DEFINE m == Browsing!Min({a, b})
<1> HIDE DEF m
<1>3. m \in {a, b} /\ m <= a /\ m <= b
  BY <1>2 DEF m
<1>4. m = IF a <= b THEN a ELSE b
  BY <1>3
<1>5. QED
  BY <1>4 DEF m

LEMMA Larger ==
  ASSUME NEW a \in Int, NEW b \in Int
  PROVE  Browsing!Max({a, b}) = IF a <= b THEN b ELSE a
<1> DEFINE c == IF a <= b THEN b ELSE a
<1>1. c \in {a, b} /\ \A y \in {a, b} : c >= y
  OBVIOUS
<1> DEFINE m == CHOOSE x \in {a, b} : \A y \in {a, b} : x >= y
<1>2. m \in {a, b} /\ \A y \in {a, b} : m >= y
  BY <1>1
<1>3. Browsing!Max({a, b}) = m
  BY Zenon DEF Browsing!Max
<1> HIDE DEF m
<1>4. m \in {a, b} /\ m >= a /\ m >= b
  BY <1>2
<1>5. QED
  BY <1>3, <1>4

LEMMA FoldUnfolds ==
  ASSUME NEW fun
  PROVE  Browsing!FoldFunction(+, 0, fun) =
           (CHOOSE iter : iter = [s \in SUBSET DOMAIN fun |->
              IF s = {} THEN 0
              ELSE fun[CHOOSE x \in s : TRUE] + iter[s \ {CHOOSE x \in s : TRUE}]])[DOMAIN fun]
  BY Zenon DEF Browsing!FoldFunction, Browsing!FoldFunctionOnSet, Browsing!MapThenFoldSet

\* A function of the sets of indices that grows by the value of an index with that index
\* is the sum.
LEMMA FoldSums ==
  ASSUME NEW fun, Browsing!IsFiniteSet(DOMAIN fun),
         NEW g \in [SUBSET DOMAIN fun -> Nat], g[{}] = 0,
         \A s \in SUBSET DOMAIN fun : \A x \in s : g[s] = fun[x] + g[s \ {x}]
  PROVE  Browsing!FoldFunction(+, 0, fun) = g[DOMAIN fun]
<1> DEFINE D == DOMAIN fun
           pick(s) == CHOOSE x \in s : TRUE
           Solves(iter) == iter = [s \in SUBSET D |-> IF s = {} THEN 0 ELSE fun[pick(s)] + iter[s \ {pick(s)}]]
           it == CHOOSE iter : Solves(iter)
<1>1. Browsing!FoldFunction(+, 0, fun) = it[D]
  BY FoldUnfolds
<1>2. \A s : s # {} => pick(s) \in s
  OBVIOUS
<1> HIDE DEF pick
<1>3. Solves(g)
  <2>1. ASSUME NEW s \in SUBSET D
        PROVE  g[s] = IF s = {} THEN 0 ELSE fun[pick(s)] + g[s \ {pick(s)}]
    BY <1>2
  <2>2. g = [s \in SUBSET D |-> g[s]]
    OBVIOUS
  <2>3. QED
    BY <2>1, <2>2
<1>4. Solves(it)
  BY <1>3
<1> HIDE DEF it
<1>5. \A s \in SUBSET D : it[s] = IF s = {} THEN 0 ELSE fun[pick(s)] + it[s \ {pick(s)}]
  BY <1>4
<1> HIDE DEF Solves
<1> DEFINE Wrong == {s \in SUBSET D : it[s] # g[s]}
<1>6. Wrong = {}
  <2>1. SUFFICES ASSUME Wrong # {} PROVE FALSE
    OBVIOUS
  <2>2. \A s \in SUBSET D : Browsing!IsFiniteSet(s) /\ Browsing!Cardinality(s) \in Nat
    BY FS_Subset, FS_CardinalityType, SameSizes
  <2> DEFINE Sizes == {Browsing!Cardinality(s) : s \in Wrong}
  <2>3. Sizes \in SUBSET Nat /\ Sizes # {}
    BY <2>1, <2>2
  <2>4. PICK n \in Sizes : \A m \in Sizes : n <= m
    BY <2>3, LeastNat
  <2>5. PICK s \in Wrong : n = Browsing!Cardinality(s)
    BY <2>4
  <2>6. s \in SUBSET D /\ it[s] # g[s]
    BY <2>5
  <2>7. s # {}
    BY <1>5, <2>6
  <2> DEFINE x == pick(s)
             r == s \ {x}
  <2>8. x \in s /\ r \in SUBSET D
    BY <1>2, <2>6, <2>7
  <2>9. Browsing!Cardinality(r) = Browsing!Cardinality(s) - 1 /\ Browsing!Cardinality(s) \in Nat
    BY <2>2, <2>6, <2>8, FS_RemoveElement, SameSizes
  <2>10. it[r] = g[r]
    <3>1. SUFFICES ASSUME it[r] # g[r] PROVE FALSE
      OBVIOUS
    <3>2. r \in Wrong
      BY <2>8, <3>1
    <3>3. Browsing!Cardinality(s) <= Browsing!Cardinality(r)
      BY <2>4, <2>5, <3>2
    <3>4. QED
      BY <2>9, <3>3
  <2>11. it[s] = fun[x] + it[r] /\ g[s] = fun[x] + g[r]
    BY <1>5, <2>6, <2>7, <2>8
  <2>12. QED
    BY <2>6, <2>10, <2>11
<1>7. it[D] = g[D]
  BY <1>6
<1>8. QED
  BY <1>1, <1>7

\* The photos of each name add up to all.
Height(bars) == Browsing!FoldFunction(+, 0, bars)
LEMMA BarsSum ==
  ASSUME NEW S, Browsing!IsFiniteSet(S), NEW N, Browsing!IsFiniteSet(N), NEW name, \A p \in S : name[p] \in N,
         NEW bars, DOMAIN bars = N, \A n \in N : bars[n] = Browsing!Cardinality({p \in S : name[p] = n})
  PROVE  Height(bars) = Browsing!Cardinality(S)
<1> DEFINE In(Y) == {p \in S : name[p] \in Y}
           g == [Y \in SUBSET N |-> Browsing!Cardinality(In(Y))]
<1>1. \A Y : Browsing!IsFiniteSet(In(Y)) /\ Browsing!Cardinality(In(Y)) \in Nat
  <2>1. \A Y : In(Y) \in SUBSET S
    OBVIOUS
  <2> HIDE DEF In
  <2>2. QED
    BY <2>1, FS_Subset, FS_CardinalityType, SameSizes
<1>2. g \in [SUBSET N -> Nat]
  BY <1>1
<1>3. g[{}] = 0
  <2>1. In({}) = {}
    OBVIOUS
  <2>2. g[{}] = Browsing!Cardinality(In({}))
    OBVIOUS
  <2>3. QED
    BY <2>1, <2>2, FS_EmptySet, SameSizes
<1>4. ASSUME NEW Y \in SUBSET N, NEW x \in Y PROVE g[Y] = bars[x] + g[Y \ {x}]
  <2> DEFINE A == In({x})
             B == In(Y \ {x})
  <2>1. In(Y) = A \cup B /\ A \cap B = {}
    OBVIOUS
  <2>2. Browsing!IsFiniteSet(A) /\ Browsing!IsFiniteSet(B) /\ Browsing!Cardinality(A) \in Nat /\ Browsing!Cardinality(B) \in Nat
    BY <1>1
  <2>3. bars[x] = Browsing!Cardinality(A)
    <3>1. A = {p \in S : name[p] = x}
      OBVIOUS
    <3> HIDE DEF A
    <3>2. QED
      BY <3>1
  <2>4. g[Y] = Browsing!Cardinality(In(Y)) /\ g[Y \ {x}] = Browsing!Cardinality(B)
    OBVIOUS
  <2> HIDE DEF A, B, In, g
  <2>5. Browsing!Cardinality(A \cup B) = Browsing!Cardinality(A) + Browsing!Cardinality(B) - Browsing!Cardinality(A \cap B)
    BY <2>2, FS_Union, SameSizes
  <2>6. Browsing!Cardinality({}) = 0
    BY FS_EmptySet, SameSizes
  <2>7. Browsing!Cardinality(A \cup B) = Browsing!Cardinality(A) + Browsing!Cardinality(B) - 0
    BY <2>1, <2>5, <2>6
  <2>8. QED
    BY <2>1, <2>2, <2>3, <2>4, <2>7
<1>5. g[N] = Browsing!Cardinality(S)
  <2>1. In(N) = S
    OBVIOUS
  <2>2. g[N] = Browsing!Cardinality(In(N))
    OBVIOUS
  <2>3. QED
    BY <2>1, <2>2
<1>6. Browsing!FoldFunction(+, 0, bars) = g[N]
  <2> HIDE DEF g
  <2>1. QED
    BY <1>2, <1>3, <1>4, FoldSums
<1>7. QED
  BY <1>5, <1>6, Zenon DEF Height

LEMMA ListedFinite ==
  ASSUME Browsing!GalleryConstants, NEW f
  PROVE  /\ Browsing!Listed(f) \in SUBSET Browsing!PhotoIds /\ Browsing!IsFiniteSet(Browsing!Listed(f))
            /\ Browsing!Cardinality(Browsing!Listed(f)) \in Nat
         /\ \A T \in SUBSET Browsing!Listed(f) : Browsing!IsFiniteSet(T) /\ Browsing!Cardinality(T) \in Nat
<1>1. Browsing!IsFiniteSet(Browsing!PhotoIds)
  BY FS_Interval, SameSizes DEF Browsing!GalleryConstants, Browsing!PhotoIds
<1>2. Browsing!Listed(f) \in SUBSET Browsing!PhotoIds
  BY DEF Browsing!Listed
<1>3. Browsing!IsFiniteSet(Browsing!Listed(f)) /\ Browsing!Cardinality(Browsing!Listed(f)) \in Nat
  BY <1>1, <1>2, FS_Subset, FS_CardinalityType, SameSizes
<1>4. QED
  BY <1>2, <1>3, FS_Subset, FS_CardinalityType, SameSizes

\* The bars of the years add up to the listing.
LEMMA YearsSum ==
  ASSUME Browsing!GalleryConstants, NEW f
  PROVE  Browsing!FoldFunction(+, 0, Browsing!Histogram(f)) = Browsing!Cardinality(Browsing!Listed(f))
<1> DEFINE listed == Browsing!Listed(f)
           bars == Browsing!Histogram(f)
           year == [p \in Browsing!PhotoIds |-> Origin[p].year]
<1>1. listed \in SUBSET Browsing!PhotoIds /\ Browsing!IsFiniteSet(listed)
  BY ListedFinite
<1>2. \A p \in listed : year[p] \in Browsing!Years
  BY <1>1 DEF Browsing!Years
<1>3. Browsing!IsFiniteSet(Browsing!Years)
  <2>1. Browsing!IsFiniteSet(Browsing!PhotoIds)
    BY FS_Interval, SameSizes DEF Browsing!GalleryConstants, Browsing!PhotoIds
  <2>2. year \in Surjection(Browsing!PhotoIds, Browsing!Years)
    BY DEF Surjection, Browsing!Years
  <2>3. QED
    BY <2>1, <2>2, FS_Surjection, SameSizes
<1>4. DOMAIN bars = Browsing!Years
  BY DEF Browsing!Histogram
<1>5. ASSUME NEW y \in Browsing!Years
      PROVE  bars[y] = Browsing!Cardinality({p \in listed : year[p] = y})
  <2> DEFINE Bar == {p \in {q \in Browsing!PhotoIds : Browsing!Active(q) /\ Browsing!Search(f, q)} :
                       /\ Browsing!Active(p) /\ Browsing!Visible(p) /\ Browsing!Scalar(f, p)
                       /\ Origin[p].year = y}
  <2>1. bars[y] = Browsing!Cardinality(Bar)
    BY DEF Browsing!Histogram
  <2>2. Bar = {p \in listed : year[p] = y}
    BY DEF Browsing!Listed
  <2>3. QED
    BY <2>1, <2>2
<1> HIDE DEF listed, bars, year
<1>6. Height(bars) = Browsing!Cardinality(listed)
  BY <1>1, <1>2, <1>3, <1>4, <1>5, BarsSum
<1>7. QED
  BY <1>6, Zenon DEF Height, listed, bars

Total(S, R) ==
  /\ \A p, q \in S : p # q => <<p, q>> \in R \/ <<q, p>> \in R
  /\ \A p \in S : <<p, p>> \notin R
  /\ \A p, q, r \in S : <<p, q>> \in R /\ <<q, r>> \in R => <<p, r>> \in R

Rank(S, R) == [p \in S |-> Browsing!Cardinality({q \in S : <<q, p>> \in R})]

\* In a set with a strict total order R the ranks are different, and every number is
\* some member's.
LEMMA RanksFit ==
  ASSUME NEW S, Browsing!IsFiniteSet(S), NEW R, Total(S, R)
  PROVE  LET n == Browsing!Cardinality(S)
         IN /\ n \in Nat
            /\ Rank(S, R) \in Injection(S, 0..(n - 1)) /\ Rank(S, R) \in Surjection(S, 0..(n - 1))
            /\ \A p, q \in S : <<p, q>> \in R => Rank(S, R)[p] < Rank(S, R)[q]
<1> DEFINE Above(p) == {q \in S : <<q, p>> \in R}
           n == Browsing!Cardinality(S)
           rank == [p \in S |-> Browsing!Cardinality(Above(p))]
<1>0. Total(S, R)
  OBVIOUS
<1>1. n \in Nat /\ \A T \in SUBSET S : Browsing!IsFiniteSet(T) /\ Browsing!Cardinality(T) \in Nat
      /\ Browsing!Cardinality(T) <= n
  BY FS_Subset, FS_CardinalityType, SameSizes
<1>6. ASSUME NEW p \in S, NEW q \in S, <<p, q>> \in R
      PROVE  Browsing!Cardinality(Above(p)) < Browsing!Cardinality(Above(q))
  <2>1. Above(p) \in SUBSET Above(q) /\ p \in Above(q) /\ p \notin Above(p)
    BY <1>0, <1>6 DEF Total
  <2>2. Browsing!IsFiniteSet(Above(q)) /\ Browsing!Cardinality(Above(q)) \in Nat
        /\ Browsing!Cardinality(Above(p)) \in Nat
    BY <1>1
  <2>3. Browsing!Cardinality(Above(p)) <= Browsing!Cardinality(Above(q))
        /\ Browsing!Cardinality(Above(p)) # Browsing!Cardinality(Above(q))
    BY <2>1, <2>2, FS_Subset, SameSizes
  <2>4. QED
    BY <2>2, <2>3
<1>7. ASSUME NEW p \in S PROVE Browsing!Cardinality(Above(p)) \in 0..(n - 1)
  <2>1. Above(p) \in SUBSET S /\ p \notin Above(p)
    BY <1>0 DEF Total
  <2>2. Browsing!Cardinality(Above(p)) <= n /\ Browsing!Cardinality(Above(p)) # n
        /\ Browsing!Cardinality(Above(p)) \in Nat
    BY <1>1, <2>1, FS_Subset, SameSizes
  <2>3. QED
    BY <1>1, <2>2
<1> HIDE DEF Above
<1>8. rank \in Injection(S, 0..(n - 1))
  <2>1. rank \in [S -> 0..(n - 1)]
    BY <1>7
  <2>2. ASSUME NEW p \in S, NEW q \in S, rank[p] = rank[q] PROVE p = q
    <3>1. Browsing!Cardinality(Above(p)) = Browsing!Cardinality(Above(q))
          /\ Browsing!Cardinality(Above(p)) \in Nat
      BY <1>7, <2>2
    <3>2. ~(<<p, q>> \in R) /\ ~(<<q, p>> \in R)
      <4>1. ASSUME <<p, q>> \in R PROVE FALSE
        <5>1. Browsing!Cardinality(Above(p)) < Browsing!Cardinality(Above(q))
          BY <1>6, <4>1
        <5>2. QED
          BY <3>1, <5>1
      <4>2. ASSUME <<q, p>> \in R PROVE FALSE
        <5>1. Browsing!Cardinality(Above(q)) < Browsing!Cardinality(Above(p))
          BY <1>6, <4>2
        <5>2. QED
          BY <3>1, <5>1
      <4>3. QED
        BY <4>1, <4>2
    <3>3. QED
      BY <1>0, <3>2 DEF Total
  <2> HIDE DEF rank
  <2>3. QED
    BY <2>1, <2>2 DEF Injection, IsInjective
<1>9. Browsing!IsFiniteSet(0..(n - 1)) /\ Browsing!Cardinality(0..(n - 1)) = n
  <2>1. 0 \in Int /\ n - 1 \in Int /\ n \in Nat
    BY <1>1
  <2> HIDE DEF n
  <2>2. Browsing!IsFiniteSet(0..(n - 1))
        /\ Browsing!Cardinality(0..(n - 1)) = IF 0 > n - 1 THEN 0 ELSE (n - 1) - 0 + 1
    BY <2>1, FS_Interval, SameSizes
  <2>3. QED
    BY <2>1, <2>2
<1>10. rank \in Surjection(S, 0..(n - 1))
  BY <1>8, <1>9, FS_Injection, SameSizes
<1>11. \A p, q \in S : <<p, q>> \in R => rank[p] < rank[q]
  BY <1>6
<1>12. rank = Rank(S, R)
  BY DEF Rank, Above
<1> HIDE DEF rank, n
<1>13. n \in Nat
  BY <1>1
<1>14. QED
  BY <1>8, <1>10, <1>11, <1>12, <1>13, Zenon DEF n

LEMMA Ranked ==
  ASSUME NEW S, Browsing!IsFiniteSet(S), NEW R, Total(S, R),
         NEW i \in 1..Browsing!Cardinality(S)
  PROVE  \E p \in S : Browsing!Cardinality({q \in S : <<q, p>> \in R}) = i - 1
<1> DEFINE n == Browsing!Cardinality(S)
<1>1. n \in Nat /\ Rank(S, R) \in Surjection(S, 0..(n - 1))
  BY RanksFit
<1>2. i - 1 \in 0..(n - 1)
  BY <1>1
<1>3. PICK p \in S : Rank(S, R)[p] = i - 1
  BY <1>1, <1>2 DEF Surjection
<1>4. QED
  BY <1>3 DEF Rank

Order(S) == {w \in S \X S : Browsing!Later(w[1], w[2])}

\* The timeline's order is one of all photos.
LEMMA LaterTotal ==
  ASSUME Browsing!GalleryConstants, NEW S \in SUBSET Browsing!PhotoIds
  PROVE  /\ Total(S, Order(S))
         /\ \A p, q \in S : <<p, q>> \in Order(S) <=> Browsing!Later(p, q)
<1>1. \A p, q \in S : <<p, q>> \in Order(S) <=> Browsing!Later(p, q)
  BY DEF Order
<1>2. \A p \in S : p \in Int /\ Origin[p].year \in Int
  BY DEF Browsing!GalleryConstants, Browsing!PhotoIds
<1>3. \A p, q \in S : p # q => Browsing!Later(p, q) \/ Browsing!Later(q, p)
  BY <1>2 DEF Browsing!Later
<1>4. \A p \in S : ~Browsing!Later(p, p)
  BY <1>2 DEF Browsing!Later
<1>5. \A p, q, r \in S : Browsing!Later(p, q) /\ Browsing!Later(q, r) => Browsing!Later(p, r)
  BY <1>2 DEF Browsing!Later
<1>6. QED
  BY <1>1, <1>3, <1>4, <1>5 DEF Total

\* The first of some photos leave out only earlier ones than as many as they may be.
LEMMA FirstFits ==
  ASSUME Browsing!GalleryConstants, NEW S \in SUBSET Browsing!PhotoIds, NEW limit \in Nat
  PROVE  /\ Browsing!First(S, limit) \in SUBSET S
         /\ \A T \in SUBSET S : Browsing!FitsIn(T, Browsing!First(S, limit), limit)
<1> DEFINE n == Browsing!Cardinality(S)
           rank == Rank(S, Order(S))
           first == Browsing!First(S, limit)
<1>1. Browsing!IsFiniteSet(S) /\ \A T \in SUBSET S : Browsing!IsFiniteSet(T)
  <2>1. Browsing!IsFiniteSet(Browsing!PhotoIds)
    BY FS_Interval, SameSizes DEF Browsing!GalleryConstants, Browsing!PhotoIds
  <2>2. QED
    BY <2>1, FS_Subset, SameSizes
<1>2. /\ n \in Nat /\ rank \in Injection(S, 0..(n - 1)) /\ rank \in Surjection(S, 0..(n - 1))
      /\ \A p, q \in S : Browsing!Later(p, q) => rank[p] < rank[q]
  BY <1>1, LaterTotal, RanksFit
<1>3. first = {p \in S : rank[p] < limit}
  <2>1. \A p \in S : {q \in S : <<q, p>> \in Order(S)} = {q \in S : Browsing!Later(q, p)}
    BY LaterTotal
  <2>2. \A p \in S : rank[p] = Browsing!Cardinality({q \in S : Browsing!Later(q, p)})
    BY <2>1, Zenon DEF Rank
  <2> HIDE DEF rank
  <2>3. QED
    BY <2>2 DEF Browsing!First
<1> HIDE DEF n, rank, first
<1>4. \A p \in S : rank[p] \in 0..(n - 1)
  BY <1>2 DEF Injection
<1>5. ASSUME NEW p \in S \ first PROVE Browsing!Cardinality(first) = limit
  <2> DEFINE cut == [q \in first |-> rank[q]]
  <2>1. limit <= n - 1
    BY <1>2, <1>3, <1>4, <1>5
  <2>2. cut \in [first -> 0..(limit - 1)]
    BY <1>2, <1>3, <1>4
  <2>3. \A q, r \in first : cut[q] = cut[r] => q = r
    BY <1>2, <1>3 DEF Injection, IsInjective
  <2>4. \A i \in 0..(limit - 1) : \E q \in first : cut[q] = i
    <3>1. ASSUME NEW i \in 0..(limit - 1) PROVE \E q \in first : cut[q] = i
      <4>1. i \in 0..(n - 1)
        BY <1>2, <2>1
      <4>2. PICK q \in S : rank[q] = i
        BY <1>2, <4>1 DEF Surjection
      <4>3. QED
        BY <1>3, <4>2
    <3>2. QED
      BY <3>1
  <2> HIDE DEF cut
  <2>5. cut \in Bijection(first, 0..(limit - 1))
    BY <2>2, <2>3, <2>4 DEF Bijection, Injection, Surjection, IsInjective
  <2>6. Browsing!IsFiniteSet(0..(limit - 1)) /\ Browsing!Cardinality(0..(limit - 1)) = limit
    <3>1. /\ Browsing!IsFiniteSet(0..(limit - 1))
          /\ Browsing!Cardinality(0..(limit - 1)) = IF 0 > limit - 1 THEN 0 ELSE (limit - 1) - 0 + 1
      BY FS_Interval, SameSizes
    <3>2. QED
      BY <3>1
  <2>7. Browsing!IsFiniteSet(first)
    BY <1>1, <1>3
  <2>8. IsFiniteSet(first) /\ Cardinality(0..(limit - 1)) = Cardinality(first)
    BY <2>5, <2>7, FS_Bijection, SameSizes DEF ExistsBijection
  <2>9. QED
    BY <2>6, <2>8, SameSizes
<1>6. ASSUME NEW p \in S \ first, NEW q \in first PROVE Browsing!Later(q, p)
  <2>1. p \in S /\ q \in S /\ rank[q] < limit /\ ~(rank[p] < limit)
    BY <1>3, <1>6
  <2>2. rank[p] \in Nat /\ rank[q] \in Nat
    BY <1>2, <1>4, <2>1
  <2>3. ~Browsing!Later(p, q) /\ p # q
    BY <1>2, <2>1, <2>2
  <2>4. QED
    BY <2>1, <2>3, LaterTotal DEF Total
<1>7. \A T \in SUBSET S : Browsing!FitsIn(T, first, limit)
  BY <1>5, <1>6 DEF Browsing!FitsIn
<1>8. QED
  BY <1>3, <1>7 DEF first

LEMMA TimelineFacts ==
  ASSUME Browsing!GalleryConstants, NEW f
  PROVE  /\ Browsing!Timeline(f) \in Seq(Browsing!PhotoIds)
         /\ Len(Browsing!Timeline(f)) = Browsing!Cardinality(Browsing!Listed(f))
            /\ Len(Browsing!Timeline(f)) \in Nat
         /\ \A i \in 1..Len(Browsing!Timeline(f)) : Browsing!Timeline(f)[i] \in Browsing!Listed(f)
<1> DEFINE found == Browsing!Listed(f)
           At(i) == CHOOSE p \in found : Browsing!Cardinality({q \in found : Browsing!Later(q, p)}) = i - 1
           n == Browsing!Cardinality(found)
           t == [i \in 1..n |-> At(i)]
<1>1. found \in SUBSET Browsing!PhotoIds /\ Browsing!IsFiniteSet(found) /\ n \in Nat
  BY ListedFinite
<1>2. ASSUME NEW i \in 1..n PROVE At(i) \in found
  <2> HIDE DEF found
  <2> DEFINE R == {w \in found \X found : Browsing!Later(w[1], w[2])}
  <2>1. \A p, q \in found : <<p, q>> \in R <=> Browsing!Later(p, q)
    OBVIOUS
  <2> HIDE DEF R
  <2>2. \A p \in found : p \in Int /\ Origin[p].year \in Int
    BY <1>1 DEF Browsing!GalleryConstants, Browsing!PhotoIds
  <2>3. \A p, q \in found : p # q => Browsing!Later(p, q) \/ Browsing!Later(q, p)
    BY <2>2 DEF Browsing!Later
  <2>4. \A p \in found : ~Browsing!Later(p, p)
    BY <2>2 DEF Browsing!Later
  <2>5. \A p, q, r \in found : Browsing!Later(p, q) /\ Browsing!Later(q, r) => Browsing!Later(p, r)
    BY <2>2 DEF Browsing!Later
  <2>6. \E p \in found : Browsing!Cardinality({q \in found : <<q, p>> \in R}) = i - 1
    <3>1. Total(found, R)
      BY <2>1, <2>3, <2>4, <2>5 DEF Total
    <3>2. Browsing!IsFiniteSet(found) /\ i \in 1..Browsing!Cardinality(found)
      BY <1>1, <1>2
    <3>3. QED
      BY <3>1, <3>2, Ranked
  <2>7. PICK p \in found : Browsing!Cardinality({q \in found : <<q, p>> \in R}) = i - 1
    BY <2>6
  <2>8. {q \in found : <<q, p>> \in R} = {q \in found : Browsing!Later(q, p)}
    BY <2>1
  <2>9. QED
    BY <2>7, <2>8
<1>3. Browsing!Timeline(f) = t
  BY DEF Browsing!Timeline, Browsing!Ordered
<1> HIDE DEF At, found, n
<1>4. t \in [1..n -> Browsing!PhotoIds] /\ \A i \in 1..n : t[i] \in found
  BY <1>1, <1>2
<1>5. t \in Seq(Browsing!PhotoIds) /\ Len(t) = n
  BY <1>1, <1>4
<1>6. QED
  BY <1>1, <1>3, <1>4, <1>5 DEF found, n

\* A photo that is trashed leaves the timeline.
LEMMA TrashedLeaves ==
  ASSUME Browsing!GalleryConstants, Browsing!TypeOK, NEW f, NEW p \in Browsing!Listed(f),
         Browsing!Trash(p), veiled' = veiled
  PROVE  Browsing!Timeline(f)' # Browsing!Timeline(f)
<1>1. p \in Browsing!PhotoIds /\ table \in [Browsing!PhotoIds -> Browsing!Row]
  BY ListedFinite DEF Browsing!TypeOK
<1>2. table' = [table EXCEPT ![p].status = "trashed"]
  BY DEF Browsing!Trash
<1>3. \A q \in Browsing!PhotoIds : q # p => table'[q] = table[q]
  BY <1>1, <1>2
<1>4. table'[p].status = "trashed"
  BY <1>1, <1>2 DEF Browsing!Row
<1>5. Browsing!Listed(f)' \in SUBSET (Browsing!Listed(f) \ {p})
  <2>1. ASSUME NEW q \in Browsing!Listed(f)' PROVE q \in Browsing!Listed(f) \ {p}
    <3>1. q \in Browsing!PhotoIds /\ Browsing!Active(q)' /\ Browsing!Visible(q)' /\ Browsing!Scalar(f, q)'
          /\ Browsing!Search(f, q)'
      BY <2>1 DEF Browsing!Listed
    <3>2. q # p
      BY <1>4, <3>1 DEF Browsing!Active
    <3>3. table'[q] = table[q]
      BY <1>3, <3>1, <3>2
    <3>4. Browsing!Active(q) /\ Browsing!Visible(q) /\ Browsing!Scalar(f, q) /\ Browsing!Search(f, q)
      BY <3>1, <3>3 DEF Browsing!Active, Browsing!Visible, Browsing!Scalar, Browsing!Search,
         Browsing!Located
    <3>5. QED
      BY <3>1, <3>2, <3>4 DEF Browsing!Listed
  <2>2. QED
    BY <2>1
<1>6. Browsing!Cardinality(Browsing!Listed(f) \ {p}) = Browsing!Cardinality(Browsing!Listed(f)) - 1
      /\ Browsing!IsFiniteSet(Browsing!Listed(f) \ {p})
      /\ Browsing!Cardinality(Browsing!Listed(f)) \in Nat
  BY ListedFinite, FS_RemoveElement, SameSizes
<1>7. Browsing!Cardinality(Browsing!Listed(f)') <= Browsing!Cardinality(Browsing!Listed(f)) - 1
      /\ Browsing!Cardinality(Browsing!Listed(f)') \in Nat
  BY <1>5, <1>6, FS_Subset, FS_CardinalityType, SameSizes
<1>8. Len(Browsing!Timeline(f)) = Browsing!Cardinality(Browsing!Listed(f))
  BY TimelineFacts
<1>9. (Len(Browsing!Timeline(f)) = Browsing!Cardinality(Browsing!Listed(f)))'
  BY TimelineFacts, PTL
<1>10. Len(Browsing!Timeline(f)') = Browsing!Cardinality(Browsing!Listed(f)')
  BY <1>9
<1> HIDE DEF Browsing!Trash
<1>11. QED
  BY <1>6, <1>7, <1>8, <1>10

\* What is left of a sequence.
LEMMA WithoutTyped ==
  ASSUME NEW S, NEW s \in Seq(S), NEW gone
  PROVE  Browsing!Without(s, gone) \in Seq(S)
<1> DEFINE K == {i \in DOMAIN s : s[i] \notin gone}
           At(i) == CHOOSE p \in K : Browsing!Cardinality({q \in K : q < p}) = i - 1
           n == Browsing!Cardinality(K)
           kept == [i \in 1..n |-> At(i)]
<1>1. K \in SUBSET (1..Len(s)) /\ Len(s) \in Nat /\ \A i \in K : s[i] \in S
  OBVIOUS
<1>2. Browsing!IsFiniteSet(K) /\ n \in Nat
  <2>1. Browsing!IsFiniteSet(1..Len(s))
    BY <1>1, FS_Interval, SameSizes
  <2>2. QED
    BY <1>1, <2>1, FS_Subset, FS_CardinalityType, SameSizes
<1> HIDE DEF K
<1>3. ASSUME NEW i \in 1..n PROVE At(i) \in K
  <2> DEFINE R == {w \in K \X K : w[1] < w[2]}
  <2>1. \A p, q \in K : <<p, q>> \in R <=> p < q
    OBVIOUS
  <2> HIDE DEF R
  <2>2. \A p \in K : p \in Int
    BY <1>1
  <2>3. \E p \in K : Browsing!Cardinality({q \in K : <<q, p>> \in R}) = i - 1
    <3>1. Total(K, R)
      BY <2>1, <2>2 DEF Total
    <3>2. Browsing!IsFiniteSet(K) /\ i \in 1..Browsing!Cardinality(K)
      BY <1>2, <1>3
    <3>3. QED
      BY <3>1, <3>2, Ranked
  <2>4. PICK p \in K : Browsing!Cardinality({q \in K : <<q, p>> \in R}) = i - 1
    BY <2>3
  <2>5. {q \in K : <<q, p>> \in R} = {q \in K : q < p}
    BY <2>1
  <2>6. QED
    BY <2>4, <2>5
<1>4. Browsing!Without(s, gone) = [i \in DOMAIN kept |-> s[kept[i]]]
  BY DEF Browsing!Without, Browsing!Ordered, K
<1> HIDE DEF At, n
<1>5. Browsing!Without(s, gone) \in [1..n -> S]
  BY <1>1, <1>3, <1>4
<1>6. QED
  BY <1>2, <1>5

-------------------------------------------------------------------------------
(***************************************************************************)
(* Types, and what is true of every fetch.                                 *)
(***************************************************************************)
Formed(s, c) ==
  /\ c.age <= s.age
  /\ c.dir \in {"down", "up"} => c.page >= 1
  /\ c.dir = "years" /\ c.pc = "answered" => c.total \in Nat
Typed ==
  /\ Browsing!TypeOK /\ Browsing!IsFiniteSet(calls) /\ screen.next >= 1 /\ screen.first >= 1
  /\ \A c \in calls : Formed(screen, c)

LEMMA TypedBy ==
  ASSUME Typed, screen' \in Browsing!Screen, screen'.next >= 1, screen'.first >= 1,
         screen'.age >= screen.age,
         \A d \in calls' : d \in calls \/ (d \in Browsing!Call /\ Formed(screen', d)),
         Browsing!IsFiniteSet(calls'), Browsing!Cardinality(calls') <= MaxCalls,
         table' \in [Browsing!PhotoIds -> Browsing!Row], veiled' \subseteq Browsing!Roots, changes' \in 0..MaxChanges
  PROVE  Typed'
<1>1. Browsing!TypeOK'
  BY DEF Typed, Browsing!TypeOK
<1>2. ASSUME NEW c \in calls' PROVE Formed(screen', c)
  <2>1. CASE c \in Browsing!Call /\ Formed(screen', c)
    BY <2>1
  <2>2. CASE c \in calls
    <3>1. Formed(screen, c) /\ c.age \in Int /\ screen.age \in Int /\ screen'.age \in Int
      BY <2>2 DEF Typed, Browsing!TypeOK, Browsing!Call, Browsing!Screen
    <3>2. QED
      BY <3>1 DEF Formed
  <2>3. QED
    BY <1>2, <2>1, <2>2
<1>3. QED
  BY <1>1, <1>2 DEF Typed

LEMMA Swapped ==
  ASSUME NEW C, Browsing!IsFiniteSet(C), NEW c \in C, NEW d, NEW n \in Nat, Browsing!Cardinality(C) <= n
  PROVE  /\ Browsing!IsFiniteSet((C \ {c}) \cup {d}) /\ Browsing!Cardinality((C \ {c}) \cup {d}) <= n
         /\ Browsing!IsFiniteSet(C \ {c}) /\ Browsing!Cardinality(C \ {c}) <= n
<1> DEFINE K == C \ {c}
<1>1. Browsing!Cardinality(C) \in Nat /\ Browsing!IsFiniteSet(K)
      /\ Browsing!Cardinality(K) = Browsing!Cardinality(C) - 1
  BY FS_RemoveElement, FS_CardinalityType, SameSizes
<1> HIDE DEF K
<1>2. Browsing!IsFiniteSet(K \cup {d})
      /\ (Browsing!Cardinality(K \cup {d}) = Browsing!Cardinality(K) \/ Browsing!Cardinality(K \cup {d}) = Browsing!Cardinality(K) + 1)
  BY <1>1, FS_AddElement, SameSizes
<1>3. Browsing!Cardinality(K) <= n /\ Browsing!Cardinality(K \cup {d}) <= n
  BY <1>1, <1>2
<1>4. QED
  BY <1>1, <1>2, <1>3 DEF K

\* A fetch is settled; another takes its place; one is sent.
LEMMA SettleTyped ==
  ASSUME Browsing!GalleryConstants, Typed, NEW c \in calls
  PROVE  /\ calls' = calls \ {c} => Browsing!IsFiniteSet(calls') /\ Browsing!Cardinality(calls') <= MaxCalls
         /\ \A d : calls' = (calls \ {c}) \cup {d} => Browsing!IsFiniteSet(calls')
            /\ Browsing!Cardinality(calls') <= MaxCalls
<1>1. Browsing!IsFiniteSet(calls) /\ Browsing!Cardinality(calls) <= MaxCalls /\ MaxCalls \in Nat
  BY DEF Typed, Browsing!TypeOK, Browsing!GalleryConstants
<1>2. Browsing!IsFiniteSet(calls \ {c}) /\ Browsing!Cardinality(calls \ {c}) <= MaxCalls
  BY <1>1, Swapped
<1>3. ASSUME NEW d PROVE Browsing!IsFiniteSet((calls \ {c}) \cup {d}) /\ Browsing!Cardinality((calls \ {c}) \cup {d}) <= MaxCalls
  BY <1>1, Swapped
<1>4. QED
  BY <1>2, <1>3

LEMMA SendTyped ==
  ASSUME Typed, NEW c, Browsing!Send(c)
  PROVE  Browsing!IsFiniteSet(calls') /\ Browsing!Cardinality(calls') <= MaxCalls
<1>1. Browsing!IsFiniteSet(calls)
  BY DEF Typed
<1>2. QED
  BY <1>1, FS_AddElement, SameSizes DEF Browsing!Send

LEMMA AskTyped ==
  ASSUME NEW s \in Browsing!Screen, NEW dir \in {"down", "up", "years", "delete"}, NEW page \in Nat,
         NEW count \in BOOLEAN
  PROVE  /\ Browsing!Ask(dir, page, count, s) \in Browsing!Call
         /\ (dir \in {"down", "up"} => page >= 1)
            => Formed(s, Browsing!Ask(dir, page, count, s))
<1>1. s.filter \in Filters /\ s.age \in 0..MaxStarts
  BY DEF Browsing!Screen
<1>2. Browsing!Ask(dir, page, count, s) \in Browsing!Call
  BY <1>1 DEF Browsing!Ask, Browsing!Call
<1>3. QED
  BY <1>1, <1>2 DEF Browsing!Ask, Formed

LEMMA PageTyped ==
  ASSUME Browsing!GalleryConstants, NEW f, NEW n \in Nat \ {0}
  PROVE  Browsing!Page(f, n) \in Seq(Browsing!PhotoIds)
<1> DEFINE t == Browsing!Timeline(f)
           a == (n - 1) * PageSize + 1
           b == Browsing!Min({n * PageSize, Len(t)})
<1>1. t \in Seq(Browsing!PhotoIds) /\ Len(t) \in Nat
  BY TimelineFacts
<1>2. n * PageSize \in Nat /\ a \in Nat \ {0}
  BY DEF Browsing!GalleryConstants
<1>3. b \in Nat /\ b <= Len(t)
  <2> HIDE DEF t
  <2>1. b = IF n * PageSize <= Len(t) THEN n * PageSize ELSE Len(t)
    BY <1>1, <1>2, Smaller
  <2> HIDE DEF b
  <2>2. QED
    BY <1>1, <1>2, <2>1
<1>4. Browsing!Page(f, n) = SubSeq(t, a, b)
  BY DEF Browsing!Page
<1> HIDE DEF t, a, b
<1>5. \A i \in a..b : t[i] \in Browsing!PhotoIds
  BY <1>1, <1>2, <1>3
<1>6. SubSeq(t, a, b) \in Seq(Browsing!PhotoIds)
  BY <1>2, <1>3, <1>5, SubSeqProperties
<1>7. QED
  BY <1>4, <1>6

LEMMA TypedOpened ==
  ASSUME NEW f \in Filters, NEW age \in 0..MaxStarts
  PROVE  Browsing!Opened(f, age) \in Browsing!Screen
  BY DEF Browsing!Opened, Browsing!Screen

LEMMA TypedInit == ASSUME Browsing!GalleryConstants, Browsing!Init PROVE Typed
<1>1. PICK f \in Filters : screen = Browsing!Opened(f, 0)
  BY DEF Browsing!Init
<1>2. MaxStarts \in Nat /\ MaxChanges \in Nat /\ MaxCalls \in Nat \ {0}
  BY DEF Browsing!GalleryConstants
<1>3. screen \in Browsing!Screen
  BY <1>1, <1>2, TypedOpened
<1> DEFINE d == Browsing!Ask("years", 0, FALSE, screen)
<1>4. d \in Browsing!Call /\ Formed(screen, d)
  BY <1>3, AskTyped
<1>5. calls = {d}
  BY DEF Browsing!Init
<1> HIDE DEF d
<1>6. Browsing!IsFiniteSet(calls) /\ Browsing!Cardinality(calls) = 1
  BY <1>5, FS_Singleton, SameSizes
<1>7. table \in [Browsing!PhotoIds -> Browsing!Row] /\ veiled \subseteq Browsing!Roots
      /\ changes \in 0..MaxChanges
  BY <1>2 DEF Browsing!Init, Browsing!GalleryConstants
<1>8. Browsing!TypeOK
  BY <1>2, <1>3, <1>4, <1>5, <1>6, <1>7 DEF Browsing!TypeOK
<1>9. screen.next >= 1 /\ screen.first >= 1
  BY <1>1 DEF Browsing!Opened
<1>10. QED
  BY <1>4, <1>5, <1>6, <1>8, <1>9 DEF Typed

LEMMA TypedFetch ==
  ASSUME Browsing!GalleryConstants, Typed, Browsing!LoadNextPage \/ Browsing!LoadPrevPage
  PROVE  Typed'
<1>1. screen \in Browsing!Screen /\ screen.next \in Nat \ {0} /\ screen.first \in Nat \ {0}
      /\ screen.age \in Int
  BY DEF Typed, Browsing!TypeOK, Browsing!Screen
<1>2. table' \in [Browsing!PhotoIds -> Browsing!Row] /\ veiled' \subseteq Browsing!Roots
      /\ changes' \in 0..MaxChanges
  BY DEF Typed, Browsing!TypeOK, Browsing!LoadNextPage, Browsing!LoadPrevPage, Browsing!rows
<1>3. screen' \in Browsing!Screen /\ screen'.next = screen.next /\ screen'.first = screen.first
      /\ screen'.age = screen.age
  BY <1>1 DEF Browsing!LoadNextPage, Browsing!LoadPrevPage, Browsing!Screen
<1>4. CASE Browsing!LoadNextPage
  <2> DEFINE k == screen.next = 1 \/ screen.total <= 0
  <2>1. k \in BOOLEAN /\ Browsing!Down(screen) = Browsing!Ask("down", screen.next, k, screen)
    BY DEF Browsing!Down
  <2> HIDE DEF k
  <2>2. Browsing!Down(screen) \in Browsing!Call /\ Formed(screen, Browsing!Down(screen))
    BY <1>1, <2>1, AskTyped
  <2>3. Formed(screen', Browsing!Down(screen))
    BY <1>3, <2>2 DEF Formed
  <2>4. calls' = calls \cup {Browsing!Down(screen)} /\ Browsing!IsFiniteSet(calls')
        /\ Browsing!Cardinality(calls') <= MaxCalls
    BY <1>4, SendTyped DEF Browsing!LoadNextPage, Browsing!Send
  <2>5. QED
    BY <1>1, <1>2, <1>3, <2>2, <2>3, <2>4, TypedBy
<1>5. CASE Browsing!LoadPrevPage
  <2> DEFINE d == Browsing!Ask("up", screen.first - 1, FALSE, screen)
  <2>1. CASE screen.first <= 1
    <3>1. calls' = calls /\ Browsing!IsFiniteSet(calls') /\ Browsing!Cardinality(calls') <= MaxCalls
      BY <1>5, <2>1 DEF Browsing!LoadPrevPage, Typed, Browsing!TypeOK
    <3>2. QED
      BY <1>1, <1>2, <1>3, <3>1, TypedBy
  <2>2. CASE ~(screen.first <= 1)
    <3>1. screen.first - 1 \in Nat /\ screen.first - 1 >= 1
      BY <1>1, <2>2
    <3>2. d \in Browsing!Call /\ Formed(screen, d)
      BY <1>1, <3>1, AskTyped
    <3>3. Formed(screen', d)
      BY <1>3, <3>2 DEF Formed
    <3>4. Browsing!Send(d)
      BY <1>5, <2>2 DEF Browsing!LoadPrevPage
    <3> HIDE DEF d
    <3>5. calls' = calls \cup {d} /\ Browsing!IsFiniteSet(calls') /\ Browsing!Cardinality(calls') <= MaxCalls
      BY <3>4, SendTyped DEF Browsing!Send
    <3>6. QED
      BY <1>1, <1>2, <1>3, <3>2, <3>3, <3>5, TypedBy
  <2>3. QED
    BY <2>1, <2>2
<1>6. QED
  BY <1>4, <1>5

LEMMA LibraryKept ==
  ASSUME Typed, UNCHANGED <<Browsing!rows, changes>>
  PROVE  table' \in [Browsing!PhotoIds -> Browsing!Row] /\ veiled' \subseteq Browsing!Roots
         /\ changes' \in 0..MaxChanges
  BY DEF Typed, Browsing!TypeOK, Browsing!rows

LEMMA TypedServe ==
  ASSUME Browsing!GalleryConstants, Typed, NEW c \in calls, Browsing!Serve(c)
  PROVE  Typed'
<1> DEFINE d == IF c.dir = "years"
                  THEN [c EXCEPT !.pc = "answered", !.total = Browsing!FoldFunction(+, 0, Browsing!Histogram(c.filter))]
                ELSE IF c.pc = "sent" /\ c.count
                  THEN [c EXCEPT !.pc = "counted", !.total = Browsing!Cardinality(Browsing!Listed(c.filter))]
                ELSE [c EXCEPT !.pc = "answered", !.items = Browsing!Page(c.filter, c.page)]
<1>1. c \in Browsing!Call /\ Formed(screen, c) /\ c.dir # "delete"
  BY DEF Typed, Browsing!TypeOK, Browsing!Serve
<1>2. Browsing!Cardinality(Browsing!Listed(c.filter)) \in Nat
      /\ Browsing!FoldFunction(+, 0, Browsing!Histogram(c.filter)) \in Nat
  BY ListedFinite, YearsSum
<1>3. d \in Browsing!Call /\ Formed(screen, d)
  <2>1. CASE c.dir = "years"
    BY <1>1, <1>2, <2>1 DEF Formed, Browsing!Call
  <2>2. CASE c.dir # "years" /\ c.pc = "sent" /\ c.count
    BY <1>1, <1>2, <2>2 DEF Formed, Browsing!Call
  <2>3. CASE c.dir # "years" /\ ~(c.pc = "sent" /\ c.count)
    <3>1. c.page \in Nat \ {0}
      BY <1>1, <2>3 DEF Formed, Browsing!Call
    <3>2. Browsing!Page(c.filter, c.page) \in Seq(Browsing!PhotoIds)
      BY <3>1, PageTyped
    <3>3. QED
      BY <1>1, <2>3, <3>2 DEF Formed, Browsing!Call
  <2>4. QED
    BY <2>1, <2>2, <2>3
<1>4. calls' = (calls \ {c}) \cup {d} /\ UNCHANGED screen /\ UNCHANGED <<Browsing!rows, changes>>
  BY DEF Browsing!Serve
<1> HIDE DEF d
<1>5. Browsing!IsFiniteSet(calls') /\ Browsing!Cardinality(calls') <= MaxCalls
  BY <1>4, SettleTyped
<1>6. screen' \in Browsing!Screen /\ screen'.next >= 1 /\ screen'.first >= 1 /\ screen'.age >= screen.age
  BY <1>4 DEF Typed, Browsing!TypeOK, Browsing!Screen
<1>7. QED
  BY <1>3, <1>4, <1>5, <1>6, LibraryKept, TypedBy

LEMMA TypedArrival ==
  ASSUME Browsing!GalleryConstants, Typed, NEW c \in calls,
         Browsing!NextPageArrives(c) \/ Browsing!HistogramArrives(c) \/ Browsing!FetchFails(c) \/ Browsing!Removed(c)
  PROVE  Typed'
<1>1. screen \in Browsing!Screen /\ screen.next \in Nat \ {0} /\ screen.first \in Nat \ {0}
      /\ screen.age \in Int
      /\ c \in Browsing!Call /\ Formed(screen, c)
  BY DEF Typed, Browsing!TypeOK, Browsing!Screen
<1>2. calls' = calls \ {c} /\ UNCHANGED <<Browsing!rows, changes>>
  BY DEF Browsing!NextPageArrives, Browsing!HistogramArrives, Browsing!FetchFails,
     Browsing!Removed, Browsing!Settle
<1>3. Browsing!IsFiniteSet(calls') /\ Browsing!Cardinality(calls') <= MaxCalls
  BY <1>2, SettleTyped
<1> DEFINE torn == screen.torn \/ Browsing!Stray(c)
<1>4. torn \in BOOLEAN
  BY <1>1 DEF Browsing!Stray, Browsing!Screen
<1>5. CASE Browsing!NextPageArrives(c)
  <2> DEFINE shown == screen.shown \o c.items
             total == IF c.total >= 0 THEN c.total ELSE screen.total
             done == screen.done \/ screen.start + Len(shown) >= total \/ c.items = <<>>
  <2>1. shown \in Seq(Browsing!PhotoIds) /\ total \in Nat /\ done \in BOOLEAN
    BY <1>1 DEF Browsing!Screen, Browsing!Call
  <2>2. screen' = [screen EXCEPT !.shown = shown, !.total = total, !.next = @ + 1, !.loading = FALSE,
                                 !.done = done, !.torn = torn]
    BY <1>5, Zenon DEF Browsing!NextPageArrives
  <2> HIDE DEF shown, total, done, torn
  <2>3. screen' \in Browsing!Screen /\ screen'.next >= 1 /\ screen'.first >= 1 /\ screen'.age >= screen.age
    <3>1. screen'.next >= 1
      BY <1>1, <1>4, <2>1, <2>2 DEF Browsing!Screen
    <3>2. screen'.first >= 1
      BY <1>1, <1>4, <2>1, <2>2 DEF Browsing!Screen
    <3>3. screen'.age >= screen.age
      BY <1>1, <1>4, <2>1, <2>2 DEF Browsing!Screen
    <3>4. screen' = [filter |-> screen.filter, shown |-> shown, start |-> screen.start,
            next |-> screen.next + 1, first |-> screen.first, total |-> total, loading |-> FALSE,
            done |-> done, topDone |-> screen.topDone, age |-> screen.age, torn |-> torn]
      BY <1>1, <2>2 DEF Browsing!Screen
    <3>5. screen' \in Browsing!Screen
      BY <1>1, <1>4, <2>1, <3>4 DEF Browsing!Screen
    <3>6. QED
      BY <3>1, <3>2, <3>3, <3>5
  <2>4. QED
    BY <1>2, <1>3, <2>3, LibraryKept, TypedBy
<1>6. CASE Browsing!HistogramArrives(c)
  <2>1. c.total \in Nat
    BY <1>1, <1>6 DEF Browsing!HistogramArrives, Browsing!Arrived, Formed
  <2>2. screen' = [screen EXCEPT !.total = c.total, !.torn = torn]
    BY <1>6, Zenon DEF Browsing!HistogramArrives
  <2> HIDE DEF torn
  <2>3. screen' \in Browsing!Screen /\ screen'.next >= 1 /\ screen'.first >= 1 /\ screen'.age >= screen.age
    <3>1. screen'.next >= 1
      BY <1>1, <1>4, <2>1, <2>2 DEF Browsing!Screen
    <3>2. screen'.first >= 1
      BY <1>1, <1>4, <2>1, <2>2 DEF Browsing!Screen
    <3>3. screen'.age >= screen.age
      BY <1>1, <1>4, <2>1, <2>2 DEF Browsing!Screen
    <3>4. screen' \in Browsing!Screen
      BY <1>1, <1>4, <2>1, <2>2 DEF Browsing!Screen
    <3>5. QED
      BY <3>1, <3>2, <3>3, <3>4
  <2>4. QED
    BY <1>2, <1>3, <2>3, LibraryKept, TypedBy
<1>7. CASE Browsing!FetchFails(c)
  <2> DEFINE loading == screen.loading /\ c.dir = "years"
  <2>1. loading \in BOOLEAN
    BY <1>1 DEF Browsing!Screen
  <2>2. screen' = [screen EXCEPT !.loading = loading, !.torn = torn]
    BY <1>7, Zenon DEF Browsing!FetchFails
  <2> HIDE DEF torn, loading
  <2>3. screen' \in Browsing!Screen /\ screen'.next >= 1 /\ screen'.first >= 1 /\ screen'.age >= screen.age
    <3>1. screen'.next >= 1
      BY <1>1, <1>4, <2>1, <2>2 DEF Browsing!Screen
    <3>2. screen'.first >= 1
      BY <1>1, <1>4, <2>1, <2>2 DEF Browsing!Screen
    <3>3. screen'.age >= screen.age
      BY <1>1, <1>4, <2>1, <2>2 DEF Browsing!Screen
    <3>4. screen' \in Browsing!Screen
      BY <1>1, <1>4, <2>1, <2>2 DEF Browsing!Screen
    <3>5. QED
      BY <3>1, <3>2, <3>3, <3>4
  <2>4. QED
    BY <1>2, <1>3, <2>3, LibraryKept, TypedBy
<1>8. CASE Browsing!Removed(c)
  <2> DEFINE shown == Browsing!Without(screen.shown, Browsing!ToSet(c.items))
             left == screen.total - (Len(screen.shown) - Len(shown))
             total == Browsing!Max({0, left})
             done == screen.done \/ Len(shown) >= total
  <2>1. screen.shown \in Seq(Browsing!PhotoIds) /\ screen.total \in Nat
    BY <1>1 DEF Browsing!Screen
  <2>2. shown \in Seq(Browsing!PhotoIds)
    BY <2>1, WithoutTyped
  <2>3. left \in Int
    <3> HIDE DEF shown
    <3>1. QED
      BY <2>1, <2>2
  <2>4. total \in Nat
    <3> HIDE DEF left
    <3>1. total = IF 0 <= left THEN left ELSE 0
      BY <2>3, Larger
    <3> HIDE DEF total
    <3>2. QED
      BY <2>3, <3>1
  <2>5. screen' = [screen EXCEPT !.shown = shown, !.total = total, !.done = done, !.torn = torn]
    BY <1>8, Zenon DEF Browsing!Removed
  <2>6. done \in BOOLEAN
    BY <1>1 DEF Browsing!Screen
  <2> HIDE DEF shown, total, done, torn
  <2>7. screen' \in Browsing!Screen /\ screen'.next >= 1 /\ screen'.first >= 1 /\ screen'.age >= screen.age
    <3>1. screen' = [filter |-> screen.filter, shown |-> shown, start |-> screen.start,
                     next |-> screen.next, first |-> screen.first, total |-> total,
                     loading |-> screen.loading, done |-> done, topDone |-> screen.topDone,
                     age |-> screen.age, torn |-> torn]
      BY <1>1, <2>5 DEF Browsing!Screen
    <3>2. screen' \in Browsing!Screen
      BY <1>1, <1>4, <2>2, <2>4, <2>6, <3>1 DEF Browsing!Screen
    <3>3. QED
      BY <1>1, <1>1, <1>4, <2>2, <2>4, <2>6, <3>1, <3>2
  <2>8. QED
    BY <1>2, <1>3, <2>7, LibraryKept, TypedBy
<1>9. QED
  BY <1>5, <1>6, <1>7, <1>8

\* Where a page starts in the listing.
LEMMA PageStarts ==
  ASSUME Browsing!GalleryConstants, NEW n \in Nat \ {0}
  PROVE  (n - 1) * PageSize \in Nat
<1>1. PageSize \in Nat
  BY DEF Browsing!GalleryConstants
<1>2. n - 1 \in Nat
  OBVIOUS
<1>3. QED
  BY <1>1, <1>2

LEMMA TypedPrevPage ==
  ASSUME Browsing!GalleryConstants, Typed, NEW c \in calls, Browsing!PrevPageArrives(c)
  PROVE  Typed'
<1> DEFINE k == Len(c.items)
<1>1. screen \in Browsing!Screen /\ screen.next \in Nat \ {0} /\ screen.first \in Nat \ {0}
      /\ screen.age \in Int
      /\ screen.shown \in Seq(Browsing!PhotoIds) /\ screen.start \in Nat /\ c \in Browsing!Call
         /\ Formed(screen, c)
  BY DEF Typed, Browsing!TypeOK, Browsing!Screen
<1>2. c.dir = "up" /\ UNCHANGED <<Browsing!rows, changes>>
  BY DEF Browsing!PrevPageArrives
<1>3. c.items \in Seq(Browsing!PhotoIds) /\ k \in Nat /\ c.page \in Nat \ {0}
      /\ (c.page - 1) * PageSize \in Nat
  <2>1. c.items \in Seq(Browsing!PhotoIds) /\ k \in Nat
    BY <1>1 DEF Browsing!Call
  <2>2. c.page \in Nat \ {0}
    BY <1>1, <1>2 DEF Browsing!Call, Formed
  <2>3. QED
    BY <2>1, <2>2, PageStarts
<1> DEFINE torn == screen.torn \/ Browsing!Stray(c)
<1>4. torn \in BOOLEAN
  BY <1>1 DEF Browsing!Stray, Browsing!Screen
<1>5. CASE k > 0
  <2> DEFINE above == screen.topDone \/ screen.first <= 2
             shown == c.items \o screen.shown
             start == Browsing!Max({0, screen.start - k})
             first == Browsing!Max({1, screen.first - 1})
  <2>1. start = (IF 0 <= screen.start - k THEN screen.start - k ELSE 0)
        /\ first = (IF 1 <= screen.first - 1 THEN screen.first - 1 ELSE 1)
    <3>1. screen.start - k \in Int /\ screen.first - 1 \in Int
      BY <1>1, <1>3
    <3>2. QED
      BY <3>1, Larger
  <2> HIDE DEF start, first
  <2>2. start \in Nat /\ first \in Nat \ {0}
    BY <1>1, <1>3, <2>1
  <2>3. screen' = [screen EXCEPT !.shown = shown, !.start = start, !.first = first,
                     !.topDone = above, !.loading = FALSE, !.torn = torn]
        /\ calls' = calls \ {c}
    <3>1. k # 0
      BY <1>3, <1>5
    <3>2. QED
      BY <3>1, Zenon DEF Browsing!PrevPageArrives, Browsing!Settle, start, first
  <2>4. shown \in Seq(Browsing!PhotoIds) /\ above \in BOOLEAN
    BY <1>1, <1>3 DEF Browsing!Screen
  <2> HIDE DEF k, torn, above, shown
  <2>5. screen' \in Browsing!Screen /\ screen'.next >= 1 /\ screen'.first >= 1 /\ screen'.age >= screen.age
    <3>1. screen' = [filter |-> screen.filter, shown |-> shown, start |-> start,
                     next |-> screen.next, first |-> first, total |-> screen.total,
                     loading |-> FALSE, done |-> screen.done, topDone |-> above, age |-> screen.age,
                     torn |-> torn]
      BY <1>1, <2>3 DEF Browsing!Screen
    <3>2. screen' \in Browsing!Screen
      BY <1>1, <1>4, <2>2, <2>4, <3>1 DEF Browsing!Screen
    <3>3. QED
      BY <1>1, <1>1, <1>4, <2>2, <2>4, <3>1, <3>2
  <2>6. Browsing!IsFiniteSet(calls') /\ Browsing!Cardinality(calls') <= MaxCalls
    BY <2>3, SettleTyped
  <2>7. QED
    BY <1>2, <2>3, <2>5, <2>6, LibraryKept, TypedBy
<1>6. CASE k = 0
  <2> DEFINE slid == [screen EXCEPT
                 !.first = c.page, !.start = (c.page - 1) * PageSize, !.torn = torn]
             again == c.page > 1 /\ ~slid.topDone
             more == Browsing!Ask("up", c.page - 1, FALSE, slid)
             above == slid.topDone \/ c.page <= 1
  <2>1. /\ screen' = [slid EXCEPT !.topDone = above, !.loading = again]
        /\ calls' = (calls \ {c}) \cup IF again THEN {more} ELSE {}
    <3>1. ~(k > 0)
      BY <1>6
    <3>2. QED
      BY <3>1, Zenon DEF Browsing!PrevPageArrives
  <2>2. slid \in Browsing!Screen /\ slid.next = screen.next /\ slid.first = c.page /\ slid.age = screen.age
    <3> HIDE DEF torn
    <3>1. QED
      BY <1>1, <1>3, <1>4 DEF Browsing!Screen
  <2> HIDE DEF slid
  <2>3. again \in BOOLEAN /\ above \in BOOLEAN
    BY <2>2 DEF Browsing!Screen
  <2>4. screen' \in Browsing!Screen /\ screen'.next >= 1 /\ screen'.first >= 1 /\ screen'.age >= screen.age
    <3> HIDE DEF again, above, torn
    <3>1. screen' = [filter |-> screen.filter, shown |-> screen.shown,
                     start |-> (c.page - 1) * PageSize, next |-> screen.next, first |-> c.page,
                     total |-> screen.total, loading |-> again, done |-> screen.done,
                     topDone |-> above, age |-> screen.age, torn |-> torn]
      BY <1>1, <2>1 DEF slid, Browsing!Screen
    <3>2. screen' \in Browsing!Screen
      BY <1>1, <1>3, <1>4, <2>3, <3>1 DEF Browsing!Screen
    <3>3. QED
      BY <1>1, <1>1, <1>3, <1>4, <2>3, <3>1, <3>2
  <2>5. screen'.age = screen.age
    <3> HIDE DEF again, above
    <3>1. QED
      BY <2>1, <2>2 DEF Browsing!Screen
  <2>6. CASE again
    <3>1. c.page - 1 \in Nat /\ c.page - 1 >= 1
      BY <1>3, <2>6
    <3>2. more \in Browsing!Call /\ Formed(slid, more)
      BY <2>2, <3>1, AskTyped
    <3> HIDE DEF more
    <3>3. Formed(screen', more)
      BY <2>2, <2>5, <3>2 DEF Formed
    <3>4. calls' = (calls \ {c}) \cup {more}
      BY <2>1, <2>6
    <3>5. Browsing!IsFiniteSet(calls') /\ Browsing!Cardinality(calls') <= MaxCalls
      BY <3>4, SettleTyped
    <3>6. QED
      BY <1>2, <2>4, <3>2, <3>3, <3>4, <3>5, LibraryKept, TypedBy
  <2>7. CASE ~again
    <3>1. calls' = calls \ {c}
      BY <2>1, <2>7
    <3>2. Browsing!IsFiniteSet(calls') /\ Browsing!Cardinality(calls') <= MaxCalls
      BY <3>1, SettleTyped
    <3>3. QED
      BY <1>2, <2>4, <3>1, <3>2, LibraryKept, TypedBy
  <2>8. QED
    BY <2>6, <2>7
<1>7. QED
  BY <1>3, <1>5, <1>6

LEMMA TypedStart ==
  ASSUME Browsing!GalleryConstants, Typed,
         (\E page \in 1..MaxPhoto : Browsing!Jump(page)) \/ (\E f \in Filters : Browsing!ApplyFilters(f))
  PROVE  Typed'
<1>1. screen \in Browsing!Screen /\ screen.next \in Nat \ {0} /\ screen.first \in Nat \ {0}
      /\ screen.age \in 0..MaxStarts
      /\ MaxStarts \in Nat
  BY DEF Typed, Browsing!TypeOK, Browsing!Screen, Browsing!GalleryConstants
<1>2. ASSUME NEW page \in 1..MaxPhoto, Browsing!Jump(page) PROVE Typed'
  <2> DEFINE start == (page - 1) * PageSize
             top == page <= 1
             emptied == [screen EXCEPT !.shown = <<>>, !.done = FALSE, !.start = start, !.next = page,
                           !.first = page, !.topDone = top, !.age = @ + 1]
             k == emptied.next = 1 \/ emptied.total <= 0
             d == Browsing!Ask("down", emptied.next, k, emptied)
  <2>1. screen.age < MaxStarts /\ screen' = [emptied EXCEPT !.loading = TRUE] /\ Browsing!Send(d)
        /\ UNCHANGED <<Browsing!rows, changes>>
    BY <1>2, Zenon DEF Browsing!Jump, Browsing!Down
  <2>2. start \in Nat /\ page \in Nat \ {0} /\ top \in BOOLEAN /\ screen.age + 1 \in 0..MaxStarts
    <3>1. MaxPhoto \in Nat
      BY DEF Browsing!GalleryConstants
    <3>2. page \in Nat \ {0}
      BY <1>2, <3>1
    <3>3. start \in Nat
      BY <3>2, PageStarts
    <3>4. screen.age + 1 \in 0..MaxStarts
      BY <1>1, <2>1
    <3>5. QED
      BY <3>2, <3>3, <3>4
  <2> HIDE DEF start, top
  <2>3. emptied = [filter |-> screen.filter, shown |-> <<>>, start |-> start, next |-> page, first |-> page,
          total |-> screen.total, loading |-> screen.loading, done |-> FALSE, topDone |-> top,
          age |-> screen.age + 1, torn |-> screen.torn]
    <3> DEFINE gone == <<>>
               older == screen.age + 1
    <3>1. emptied = [screen EXCEPT !.shown = gone, !.done = FALSE, !.start = start, !.next = page,
                       !.first = page, !.topDone = top, !.age = older]
      OBVIOUS
    <3> HIDE DEF emptied, gone, older
    <3>2. emptied = [filter |-> screen.filter, shown |-> gone, start |-> start, next |-> page, first |-> page,
            total |-> screen.total, loading |-> screen.loading, done |-> FALSE, topDone |-> top,
            age |-> older, torn |-> screen.torn]
      BY <1>1, <3>1 DEF Browsing!Screen
    <3>3. QED
      BY <3>2 DEF gone, older
  <2> HIDE DEF emptied
  <2>4. emptied \in Browsing!Screen /\ emptied.next = page /\ emptied.age = screen.age + 1
    <3>1. screen.filter \in Filters /\ screen.total \in Nat /\ screen.loading \in BOOLEAN
          /\ screen.torn \in BOOLEAN /\ <<>> \in Seq(Browsing!PhotoIds)
      BY <1>1 DEF Browsing!Screen
    <3>2. QED
      BY <2>2, <2>3, <3>1 DEF Browsing!Screen
  <2>5. k \in BOOLEAN
    OBVIOUS
  <2> HIDE DEF k
  <2>6. d \in Browsing!Call /\ Formed(emptied, d)
    BY <2>2, <2>4, <2>5, AskTyped
  <2>7. screen' \in Browsing!Screen /\ screen'.next = page /\ screen'.age = screen.age + 1
        /\ screen'.first = page
    BY <1>1, <2>1, <2>3, <2>4 DEF Browsing!Screen
  <2>8. Formed(screen', d)
    BY <2>4, <2>6, <2>7 DEF Formed
  <2> HIDE DEF d
  <2>9. calls' = calls \cup {d} /\ Browsing!IsFiniteSet(calls') /\ Browsing!Cardinality(calls') <= MaxCalls
    BY <2>1, SendTyped DEF Browsing!Send
  <2>10. screen'.next >= 1 /\ screen'.first >= 1 /\ screen'.age >= screen.age
    BY <1>1, <2>2, <2>7
  <2>11. QED
    BY <2>1, <2>6, <2>7, <2>8, <2>9, <2>10, LibraryKept, TypedBy
<1>3. ASSUME NEW f \in Filters, Browsing!ApplyFilters(f) PROVE Typed'
  <2> DEFINE d == Browsing!Ask("years", 0, FALSE, screen')
  <2>1. screen.age < MaxStarts /\ screen' = Browsing!Opened(f, screen.age + 1) /\ Browsing!Send(d)
        /\ UNCHANGED <<Browsing!rows, changes>>
    BY <1>3 DEF Browsing!ApplyFilters
  <2>2. screen.age + 1 \in 0..MaxStarts
    BY <1>1, <2>1
  <2>3. screen' \in Browsing!Screen /\ screen'.next = 1 /\ screen'.first = 1 /\ screen'.age = screen.age + 1
    BY <2>1, <2>2, TypedOpened DEF Browsing!Opened
  <2>4. d \in Browsing!Call /\ Formed(screen', d)
    BY <2>3, AskTyped
  <2> HIDE DEF d
  <2>5. calls' = calls \cup {d} /\ Browsing!IsFiniteSet(calls') /\ Browsing!Cardinality(calls') <= MaxCalls
    BY <2>1, SendTyped DEF Browsing!Send
  <2>6. screen'.next >= 1 /\ screen'.first >= 1 /\ screen'.age >= screen.age
    BY <1>1, <2>3
  <2>7. QED
    BY <2>1, <2>3, <2>4, <2>5, <2>6, LibraryKept, TypedBy
<1>4. QED
  BY <1>2, <1>3

LEMMA TypedDelete ==
  ASSUME Browsing!GalleryConstants, Typed, NEW p \in Browsing!PhotoIds, Browsing!Delete(p)
  PROVE  Typed'
<1> DEFINE a == Browsing!Ask("delete", 0, FALSE, screen)
           d == [a EXCEPT !.items = <<p>>]
<1>1. screen \in Browsing!Screen /\ UNCHANGED <<Browsing!rows, screen, changes>> /\ calls' = calls \cup {d}
      /\ Browsing!Send(d)
  BY DEF Typed, Browsing!TypeOK, Browsing!Delete, Browsing!Send
<1>2. a \in Browsing!Call /\ Formed(screen, a)
  BY <1>1, AskTyped
<1>3. d \in Browsing!Call /\ Formed(screen', d)
  <2>1. <<p>> \in Seq(Browsing!PhotoIds)
    OBVIOUS
  <2> HIDE DEF a
  <2>2. QED
    BY <1>1, <1>2, <2>1 DEF Formed, Browsing!Call
<1> HIDE DEF d
<1>4. Browsing!IsFiniteSet(calls') /\ Browsing!Cardinality(calls') <= MaxCalls
  BY <1>1, SendTyped
<1>5. screen' \in Browsing!Screen /\ screen'.next >= 1 /\ screen'.first >= 1 /\ screen'.age >= screen.age
  BY <1>1 DEF Typed, Browsing!Screen
<1>6. QED
  BY <1>1, <1>3, <1>4, <1>5, LibraryKept, TypedBy

\* A change of the library touches no more of the screen than its history.
LEMMA ChangedTyped ==
  ASSUME Browsing!GalleryConstants, Typed, Browsing!Changed
  PROVE  /\ screen' \in Browsing!Screen /\ screen'.next >= 1 /\ screen'.first >= 1
            /\ screen'.age >= screen.age
         /\ changes' \in 0..MaxChanges
<1> DEFINE torn == screen.torn \/ (~Browsing!Blank /\ \E f \in {screen.filter} : Browsing!Timeline(f)' # Browsing!Timeline(f))
<1>1. screen \in Browsing!Screen /\ screen.next >= 1 /\ screen.first >= 1 /\ changes \in 0..MaxChanges
      /\ MaxChanges \in Nat
  BY DEF Typed, Browsing!TypeOK, Browsing!GalleryConstants
<1>2. screen' = [screen EXCEPT !.torn = torn]
  BY Zenon DEF Browsing!Changed
<1>3. torn \in BOOLEAN
  BY <1>1 DEF Browsing!Screen
<1> HIDE DEF torn
<1>4. screen' \in Browsing!Screen /\ screen'.next = screen.next /\ screen'.first = screen.first
      /\ screen'.age = screen.age
  BY <1>1, <1>2, <1>3 DEF Browsing!Screen
<1>5. changes' \in 0..MaxChanges
  BY <1>1 DEF Browsing!Changed
<1>6. QED
  BY <1>1, <1>4, <1>5 DEF Browsing!Screen

LEMMA TrashTyped ==
  ASSUME Typed, NEW p \in Browsing!PhotoIds, Browsing!Trash(p)
  PROVE  table' \in [Browsing!PhotoIds -> Browsing!Row]
<1>1. table \in [Browsing!PhotoIds -> Browsing!Row] /\ table[p] \in Browsing!Row
  BY DEF Typed, Browsing!TypeOK
<1>2. [table[p] EXCEPT !.status = "trashed"] \in Browsing!Row
  BY <1>1 DEF Browsing!Row
<1>3. table' = [table EXCEPT ![p] = [table[p] EXCEPT !.status = "trashed"]]
  BY DEF Browsing!Trash
<1>4. QED
  BY <1>1, <1>2, <1>3

LEMMA TypedEdit ==
  ASSUME Browsing!GalleryConstants, Typed,
         (\E p \in Browsing!PhotoIds : Browsing!Edit(p)) \/ (\E r \in Browsing!Roots : Browsing!SetRootAcl(r))
  PROVE  Typed'
<1>1. table \in [Browsing!PhotoIds -> Browsing!Row] /\ veiled \subseteq Browsing!Roots
      /\ Browsing!IsFiniteSet(calls) /\ Browsing!Cardinality(calls) <= MaxCalls
  BY DEF Typed, Browsing!TypeOK
<1>2. ASSUME NEW p \in Browsing!PhotoIds, Browsing!Edit(p) PROVE Typed'
  <2>1. table[p] \in Browsing!Row /\ UNCHANGED <<veiled, calls>> /\ Browsing!Changed
    BY <1>1, <1>2 DEF Browsing!Edit
  <2>2. table' \in [Browsing!PhotoIds -> Browsing!Row]
    <3>1. CASE Browsing!Trash(p)
      BY <3>1, TrashTyped
    <3>2. ASSUME NEW row \in Browsing!Row, table' = [table EXCEPT ![p] = row]
          PROVE  table' \in [Browsing!PhotoIds -> Browsing!Row]
      BY <1>1, <3>2
    <3>3. CASE table' = [table EXCEPT ![p].status = "active"]
      <4>1. [table[p] EXCEPT !.status = "active"] \in Browsing!Row
        BY <2>1 DEF Browsing!Row
      <4>2. QED
        BY <3>3, <3>2, <4>1
    <3>4. ASSUME NEW v \in {"inherit", "private", "public"}, table' = [table EXCEPT ![p].vis = v]
          PROVE  table' \in [Browsing!PhotoIds -> Browsing!Row]
      <4>1. [table[p] EXCEPT !.vis = v] \in Browsing!Row
        BY <2>1 DEF Browsing!Row
      <4>2. QED
        BY <3>4, <3>2, <4>1
    <3>5. CASE table' = [table EXCEPT ![p].thumb = TRUE]
      <4>1. [table[p] EXCEPT !.thumb = TRUE] \in Browsing!Row
        BY <2>1 DEF Browsing!Row
      <4>2. QED
        BY <3>5, <3>2, <4>1
    <3>6. ASSUME NEW x \in GivenPlaces, table' = [table EXCEPT ![p].place = x]
          PROVE  table' \in [Browsing!PhotoIds -> Browsing!Row]
      <4>1. x \in Nat \cup {Browsing!Nowhere}
        BY DEF Browsing!GalleryConstants
      <4>2. [table[p] EXCEPT !.place = x] \in Browsing!Row
        BY <2>1, <4>1 DEF Browsing!Row
      <4>3. QED
        BY <3>6, <3>2, <4>2
    <3>7. ASSUME NEW s \in Browsing!Sources, NEW t \in Browsing!Tags,
                 table' = [table EXCEPT ![p].tags = @ \cup {<<s, t>>}]
          PROVE  table' \in [Browsing!PhotoIds -> Browsing!Row]
      <4>1. table[p].tags \cup {<<s, t>>} \in SUBSET (Browsing!Sources \X Browsing!Tags)
        BY <2>1 DEF Browsing!Row
      <4>2. [table[p] EXCEPT !.tags = table[p].tags \cup {<<s, t>>}] \in Browsing!Row
        BY <2>1, <4>1 DEF Browsing!Row
      <4>3. QED
        BY <3>7, <3>2, <4>2
    <3>8. ASSUME NEW found \in {"some", "none"}, table' = [table EXCEPT ![p].text = found]
          PROVE  table' \in [Browsing!PhotoIds -> Browsing!Row]
      <4>1. [table[p] EXCEPT !.text = found] \in Browsing!Row
        BY <2>1 DEF Browsing!Row
      <4>2. QED
        BY <3>8, <3>2, <4>1
    <3>9. QED
      BY <1>2, <3>1, <3>3, <3>4, <3>5, <3>6, <3>7, <3>8 DEF Browsing!Edit
  <2>3. QED
    BY <1>1, <2>1, <2>2, ChangedTyped, TypedBy
<1>3. ASSUME NEW r \in Browsing!Roots, Browsing!SetRootAcl(r) PROVE Typed'
  <2>1. veiled' \subseteq Browsing!Roots /\ UNCHANGED <<table, calls>> /\ Browsing!Changed
    BY <1>1, <1>3 DEF Browsing!SetRootAcl
  <2>2. QED
    BY <1>1, <2>1, ChangedTyped, TypedBy
<1>4. QED
  BY <1>2, <1>3

LEMMA TypedServeDelete ==
  ASSUME Browsing!GalleryConstants, Typed, NEW c \in calls, Browsing!ServeDelete(c)
  PROVE  Typed'
<1> DEFINE d == [c EXCEPT !.pc = "answered"]
<1>1. c \in Browsing!Call /\ Formed(screen, c) /\ c.dir = "delete" /\ calls' = (calls \ {c}) \cup {d}
  BY DEF Typed, Browsing!TypeOK, Browsing!ServeDelete
<1>2. d \in Browsing!Call /\ d.age = c.age /\ d.dir = "delete"
  BY <1>1 DEF Browsing!Call
<1> HIDE DEF d
<1>3. Browsing!IsFiniteSet(calls') /\ Browsing!Cardinality(calls') <= MaxCalls
  BY <1>1, SettleTyped
<1>4. PICK p \in Browsing!ToSet(c.items) : (Browsing!Trash(p) /\ UNCHANGED veiled /\ Browsing!Changed) \/ UNCHANGED <<Browsing!rows, screen, changes>>
  BY DEF Browsing!ServeDelete
<1>5. p \in Browsing!PhotoIds
  BY <1>1, <1>4 DEF Browsing!Call, Browsing!ToSet
<1>6. /\ screen' \in Browsing!Screen /\ screen'.next >= 1 /\ screen'.first >= 1 /\ screen'.age >= screen.age
      /\ table' \in [Browsing!PhotoIds -> Browsing!Row] /\ veiled' \subseteq Browsing!Roots
         /\ changes' \in 0..MaxChanges
  <2>1. CASE Browsing!Trash(p) /\ UNCHANGED veiled /\ Browsing!Changed
    BY <1>5, <2>1, ChangedTyped, TrashTyped DEF Typed, Browsing!TypeOK
  <2>2. CASE UNCHANGED <<Browsing!rows, screen, changes>>
    BY <2>2, LibraryKept DEF Typed, Browsing!TypeOK, Browsing!Screen
  <2>3. QED
    BY <1>4, <2>1, <2>2
<1>7. Formed(screen', d)
  <2>1. c.age <= screen.age /\ c.age \in Int /\ screen.age \in Int /\ screen'.age \in Int
    BY <1>1, <1>6 DEF Typed, Browsing!TypeOK, Formed, Browsing!Screen, Browsing!Call
  <2>2. QED
    BY <1>2, <1>6, <2>1 DEF Formed
<1>8. QED
  BY <1>1, <1>2, <1>3, <1>6, <1>7, TypedBy

LEMMA TypedStep == ASSUME Browsing!GalleryConstants, Typed, [Browsing!Next]_(Browsing!vars) PROVE Typed'
<1>1. CASE UNCHANGED Browsing!vars
  BY <1>1 DEF Browsing!vars, Browsing!rows, Typed, Browsing!TypeOK
<1>2. CASE Browsing!Next
  <2>1. ASSUME NEW c \in calls,
               \/ Browsing!Serve(c) \/ Browsing!NextPageArrives(c) \/ Browsing!PrevPageArrives(c) \/ Browsing!HistogramArrives(c)
               \/ Browsing!FetchFails(c) \/ Browsing!ServeDelete(c) \/ Browsing!Removed(c)
        PROVE  Typed'
    BY <2>1, TypedServe, TypedArrival, TypedPrevPage, TypedServeDelete
  <2>2. ASSUME NEW p \in Browsing!PhotoIds, Browsing!Delete(p) \/ Browsing!Edit(p) PROVE Typed'
    BY <2>2, TypedDelete, TypedEdit
  <2>3. QED
    BY <1>2, <2>1, <2>2, TypedFetch, TypedStart, TypedEdit DEF Browsing!Next
<1>3. QED
  BY <1>1, <1>2

-------------------------------------------------------------------------------
(***************************************************************************)
(* What a timeline knows fits the listing, unless it is torn.              *)
(***************************************************************************)
PageOf(t, n) == SubSeq(t, (n - 1) * PageSize + 1, Browsing!Min({n * PageSize, Len(t)}))

\* The photos before a page.
Before(n) == (n - 1) * PageSize

\* A stretch of the listing, from the first page to before the next.
Stretch(first, start, next, total, shown, done, top, all) ==
  /\ start = Before(first)
  /\ total \in {0, Len(all)}
  /\ start # 0 => start < Len(all) /\ total = Len(all)
  /\ shown # <<>> => start + Len(shown) <= Len(all) /\ shown = SubSeq(all, start + 1, start + Len(shown))
  /\ done => start + Len(shown) >= Len(all)
  /\ ~done => start + Len(shown) = Before(next)
  /\ top => start = 0
Fits(s, all) == Stretch(s.first, s.start, s.next, s.total, s.shown, s.done, s.topDone, all)

\* What a fetch of the timeline as it is now waits for.
Waits(s, c, all) ==
  /\ c.filter = s.filter
  /\ c.dir = "years" => ~c.count /\ (c.pc # "sent" => c.total = Len(all))
  /\ c.dir = "down" => /\ s.loading /\ ~s.done /\ c.page = s.next /\ (c.count \/ s.total > 0)
                       /\ c.total = IF c.count /\ c.pc # "sent" THEN Len(all) ELSE -1
                       /\ c.pc = "answered" => c.items = PageOf(all, c.page)
  /\ c.dir = "up" => /\ s.loading /\ s.first > 1 /\ c.page = s.first - 1 /\ ~c.count
                     /\ c.pc = "answered" => c.items = PageOf(all, c.page)
  /\ c.dir = "delete" => c.pc = "sent" /\ \E p \in Browsing!ToSet(s.shown) : c.items = <<p>>

Pages == {"down", "up"}
Waiting(s, C, all) ==
  /\ \A c \in C : c.age = s.age => Waits(s, c, all)
  /\ \A c, d \in C : c.age = s.age /\ d.age = s.age /\ c.dir \in Pages /\ d.dir \in Pages => c = d

PagesInv ==
  /\ Typed
  /\ \A f \in Filters : f = screen.filter /\ ~screen.torn =>
       Fits(screen, Browsing!Timeline(f)) /\ Waiting(screen, calls, Browsing!Timeline(f))

LEMMA BeforePage ==
  ASSUME Browsing!GalleryConstants, NEW n \in Nat \ {0}
  PROVE  /\ PageSize \in Nat \ {0} /\ Before(n) \in Nat /\ n * PageSize = Before(n) + PageSize
         /\ Before(n + 1) = Before(n) + PageSize
         /\ (n = 1 => Before(n) = 0) /\ (n # 1 => Before(n) # 0)
<1>1. PageSize \in Nat \ {0}
  BY DEF Browsing!GalleryConstants
<1>2. n * PageSize = (n - 1) * PageSize + PageSize /\ (n - 1) * PageSize \in Nat
  BY <1>1
<1>3. n = 1 => (n - 1) * PageSize = 0
  BY <1>1
<1>4. (n + 1) - 1 = n
  OBVIOUS
<1>5. ASSUME n # 1 PROVE (n - 1) * PageSize # 0
  <2>1. n - 1 \in Nat \ {0}
    BY <1>5
  <2> DEFINE k == n - 1
  <2> HIDE DEF k
  <2>2. k * PageSize # 0
    BY <1>1, <2>1 DEF k
  <2>3. QED
    BY <2>2 DEF k
<1>6. QED
  BY <1>1, <1>2, <1>3, <1>4, <1>5 DEF Before

\* Where a page ends in a listing.
End(t, n) == IF Before(n) + PageSize <= Len(t) THEN Before(n) + PageSize ELSE Len(t)

LEMMA StretchLength ==
  ASSUME NEW t \in Seq(Browsing!PhotoIds), NEW b \in Nat, NEW e \in Nat, b < e, e <= Len(t)
  PROVE  Len(SubSeq(t, b + 1, e)) = e - b /\ SubSeq(t, b + 1, e) \in Seq(Browsing!PhotoIds)
<1>1. \A i \in (b + 1)..e : t[i] \in Browsing!PhotoIds
  OBVIOUS
<1>2. /\ Len(SubSeq(t, b + 1, e)) = IF b + 1 <= e THEN e - (b + 1) + 1 ELSE 0
      /\ SubSeq(t, b + 1, e) \in Seq(Browsing!PhotoIds)
  BY <1>1, SubSeqProperties
<1>3. b + 1 <= e /\ e - (b + 1) + 1 = e - b
  OBVIOUS
<1>4. QED
  BY <1>2, <1>3

LEMMA PageIs ==
  ASSUME Browsing!GalleryConstants, NEW t \in Seq(Browsing!PhotoIds), NEW n \in Nat \ {0}
  PROVE  /\ Before(n) \in Nat /\ End(t, n) \in Nat
         /\ Before(n) >= Len(t) => PageOf(t, n) = <<>>
         /\ Before(n) < Len(t) =>
              /\ PageOf(t, n) = SubSeq(t, Before(n) + 1, End(t, n))
              /\ Len(PageOf(t, n)) = End(t, n) - Before(n)
              /\ End(t, n) \in (Before(n) + 1)..Len(t)
<1>0. PageSize \in Nat \ {0} /\ Before(n) \in Nat /\ n * PageSize = Before(n) + PageSize
  BY BeforePage
<1> DEFINE b == Before(n)
           e == End(t, n)
           m == n * PageSize
<1>1. PageSize \in Nat \ {0} /\ Len(t) \in Nat /\ b \in Nat /\ m = b + PageSize
  BY <1>0
<1> HIDE DEF m
<1>2. e = IF m <= Len(t) THEN m ELSE Len(t)
  BY <1>1 DEF End
<1>3. PageOf(t, n) = SubSeq(t, b + 1, Browsing!Min({m, Len(t)}))
  BY DEF PageOf, Before, m
<1> HIDE DEF b, e
<1>4. m \in Nat /\ Browsing!Min({m, Len(t)}) = e /\ e \in Nat
  BY <1>1, <1>2, Smaller
<1>5. PageOf(t, n) = SubSeq(t, b + 1, e)
  BY <1>3, <1>4
<1>6. ASSUME b >= Len(t) PROVE SubSeq(t, b + 1, e) = <<>>
  <2>1. e < b + 1
    BY <1>1, <1>2, <1>6
  <2>2. QED
    BY <1>1, <1>4, <2>1, SubSeqEmpty
<1>7. ASSUME b < Len(t) PROVE Len(SubSeq(t, b + 1, e)) = e - b /\ e \in (b + 1)..Len(t)
  <2>1. b < e /\ e <= Len(t)
    BY <1>1, <1>2, <1>7
  <2>2. QED
    BY <1>1, <1>4, <2>1, StretchLength
<1>8. QED
  BY <1>1, <1>4, <1>5, <1>6, <1>7 DEF b, e

LEMMA Appended ==
  ASSUME NEW all \in Seq(Browsing!PhotoIds), NEW shown \in Seq(Browsing!PhotoIds), NEW start \in Nat,
         NEW e \in Nat, start + Len(shown) < e, e <= Len(all),
         shown # <<>> => shown = SubSeq(all, start + 1, start + Len(shown))
  PROVE  /\ shown \o SubSeq(all, start + Len(shown) + 1, e) = SubSeq(all, start + 1, e)
         /\ Len(shown \o SubSeq(all, start + Len(shown) + 1, e)) = e - start
<1> DEFINE b == start + Len(shown)
<1>0. b \in Nat /\ b < e /\ start <= b /\ (shown # <<>> => shown = SubSeq(all, start + 1, b))
      /\ (shown = <<>> => start = b)
  OBVIOUS
<1> HIDE DEF b
<1>2. SubSeq(all, b + 1, e) \in Seq(Browsing!PhotoIds)
  BY <1>0, StretchLength
<1>3. shown \o SubSeq(all, b + 1, e) = SubSeq(all, start + 1, e)
  <2>1. CASE shown = <<>>
    <3>1. start = b
      BY <1>0, <2>1
    <3>2. QED
      BY <1>2, <2>1, <3>1
  <2>2. CASE shown # <<>>
    <3>1. start + 1 \in 1..(Len(all) + 1) /\ b \in (start + 1 - 1)..Len(all) /\ e \in b..Len(all)
      BY <1>0
    <3>2. SubSeq(all, start + 1, b) \o SubSeq(all, b + 1, e) = SubSeq(all, start + 1, e)
      BY <3>1, ConcatAdjacentSubSeq
    <3>3. QED
      BY <1>0, <2>2, <3>2
  <2>3. QED
    BY <2>1, <2>2
<1>4. start < e
  BY <1>0
<1>5. Len(SubSeq(all, start + 1, e)) = e - start
  BY <1>4, StretchLength
<1>6. QED
  BY <1>3, <1>5 DEF b

LEMMA Prepended ==
  ASSUME NEW all \in Seq(Browsing!PhotoIds), NEW shown \in Seq(Browsing!PhotoIds), NEW start \in Nat,
         NEW b \in Nat,
         b < start, start <= Len(all),
         shown # <<>> => start + Len(shown) <= Len(all) /\ shown = SubSeq(all, start + 1, start + Len(shown))
  PROVE  /\ SubSeq(all, b + 1, start) \in Seq(Browsing!PhotoIds)
         /\ start + Len(shown) <= Len(all)
         /\ SubSeq(all, b + 1, start) \o shown = SubSeq(all, b + 1, start + Len(shown))
         /\ Len(SubSeq(all, b + 1, start) \o shown) = start - b + Len(shown)
<1>1. \A i \in (b + 1)..start : all[i] \in Browsing!PhotoIds
  OBVIOUS
<1>2. SubSeq(all, b + 1, start) \in Seq(Browsing!PhotoIds) /\ Len(SubSeq(all, b + 1, start)) = start - b
  <2>1. /\ SubSeq(all, b + 1, start) \in Seq(Browsing!PhotoIds)
        /\ Len(SubSeq(all, b + 1, start)) = IF b + 1 <= start THEN start - (b + 1) + 1 ELSE 0
    BY <1>1, SubSeqProperties
  <2>2. b + 1 <= start
    OBVIOUS
  <2>3. QED
    BY <2>1, <2>2
<1> DEFINE above == SubSeq(all, b + 1, start)
<1>3. Len(above \o shown) = start - b + Len(shown)
  BY <1>2
<1>4. start + Len(shown) <= Len(all) /\ above \o shown = SubSeq(all, b + 1, start + Len(shown))
  <2>1. CASE shown = <<>>
    <3>1. Len(shown) = 0 /\ start + Len(shown) = start
      BY <2>1
    <3>2. above \o shown = above
      BY <1>2, <2>1
    <3>3. QED
      BY <3>1, <3>2
  <2>2. CASE shown # <<>>
    <3> DEFINE t == start + Len(shown)
    <3>1. t \in Nat /\ t <= Len(all) /\ shown = SubSeq(all, start + 1, t)
      BY <2>2
    <3> HIDE DEF t
    <3>2. b + 1 \in 1..(Len(all) + 1) /\ start \in (b + 1 - 1)..Len(all) /\ t \in start..Len(all)
      BY <3>1 DEF t
    <3>3. SubSeq(all, b + 1, start) \o SubSeq(all, start + 1, t) = SubSeq(all, b + 1, t)
      BY <3>2, ConcatAdjacentSubSeq
    <3>4. above \o shown = SubSeq(all, b + 1, t)
      BY <3>1, <3>3
    <3>5. QED
      BY <3>1, <3>4 DEF t
  <2>3. QED
    BY <2>1, <2>2
<1>5. QED
  BY <1>2, <1>3, <1>4

LEMMA WaitingSwap ==
  ASSUME NEW s, NEW C, NEW all, Waiting(s, C, all), NEW c \in C, NEW d,
         d.age = c.age, d.dir = c.dir, c.age = s.age => Waits(s, d, all)
  PROVE  Waiting(s, (C \ {c}) \cup {d}, all)
<1>1. ASSUME NEW x \in (C \ {c}) \cup {d}, x.age = s.age PROVE Waits(s, x, all)
  BY <1>1 DEF Waiting
<1>2. ASSUME NEW x \in (C \ {c}) \cup {d}, NEW y \in (C \ {c}) \cup {d},
             x.age = s.age, y.age = s.age, x.dir \in Pages, y.dir \in Pages
      PROVE  x = y
  BY <1>2 DEF Waiting
<1>3. QED
  BY <1>1, <1>2 DEF Waiting

IsPage(items, t, n) == items = PageOf(t, n)

\* A page joins the stretch below, or above.
LEMMA NextPageFits ==
  ASSUME Browsing!GalleryConstants, NEW all \in Seq(Browsing!PhotoIds),
         NEW first, NEW start \in Nat, NEW next \in Nat \ {0}, NEW total, NEW shown \in Seq(Browsing!PhotoIds),
         NEW top, Stretch(first, start, next, total, shown, FALSE, top, all),
         NEW items, IsPage(items, all, next), NEW done \in BOOLEAN,
         done <=> start + Len(shown \o items) >= Len(all) \/ items = <<>>
  PROVE  Stretch(first, start, next + 1, Len(all), shown \o items, done, top, all)
<1> DEFINE b == Before(next)
           L == Len(all)
           e == End(all, next)
           joined == shown \o items
<1>1. b \in Nat /\ Before(next + 1) = b + PageSize /\ PageSize \in Nat \ {0} /\ L \in Nat
  BY BeforePage
<1>2. /\ e \in Nat
      /\ b >= L => items = <<>>
      /\ b < L => items = SubSeq(all, b + 1, e) /\ Len(items) = e - b /\ e \in (b + 1)..L
  BY PageIs DEF IsPage
<1>3. /\ start = Before(first)
      /\ start # 0 => start < L
      /\ start + Len(shown) = b
      /\ shown # <<>> => b <= L /\ shown = SubSeq(all, start + 1, b)
      /\ top => start = 0
  BY DEF Stretch
<1>4. b < L => (b + PageSize <= L => e = b + PageSize) /\ (~(b + PageSize <= L) => e = L)
  BY DEF End
<1> HIDE DEF b, e, L
<1>5. CASE b >= L
  <2>1. items = <<>> /\ joined = shown /\ done
    BY <1>2, <1>5
  <2> HIDE DEF joined
  <2>2. QED
    BY <1>1, <1>3, <1>5, <2>1 DEF Stretch, L, joined
<1>6. CASE b < L
  <2>1. e \in (b + 1)..L /\ items = SubSeq(all, b + 1, e) /\ Len(items) = e - b
    BY <1>2, <1>6
  <2>2. joined = SubSeq(all, start + 1, e) /\ Len(joined) = e - start
    <3>1. shown # <<>> => shown = SubSeq(all, start + 1, start + Len(shown))
      BY <1>3
    <3>2. e \in Nat /\ start + Len(shown) < e /\ e <= Len(all)
      BY <1>1, <1>2, <1>3, <2>1 DEF L
    <3>3. /\ shown \o SubSeq(all, start + Len(shown) + 1, e) = SubSeq(all, start + 1, e)
          /\ Len(shown \o SubSeq(all, start + Len(shown) + 1, e)) = e - start
      BY <3>1, <3>2, Appended
    <3>4. QED
      BY <1>3, <2>1, <3>3
  <2>3. start + Len(joined) = e /\ e <= L /\ e > b
    BY <1>1, <1>2, <2>1, <2>2
  <2>4. items # <<>>
    <3>1. Len(items) > 0
      BY <1>1, <2>1
    <3>2. QED
      BY <3>1
  <2>5. done <=> e >= L
    <3>1. done <=> start + Len(joined) >= L \/ items = <<>>
      BY DEF L
    <3>2. QED
      BY <2>3, <2>4, <3>1
  <2>6. joined = SubSeq(all, start + 1, start + Len(joined))
    BY <2>2, <2>3
  <2> HIDE DEF joined
  <2>7. ~done => start + Len(joined) = Before(next + 1)
    BY <1>1, <1>2, <1>4, <1>6, <2>3, <2>5
  <2>8. done => start + Len(joined) >= L
    BY <2>3, <2>5
  <2>9. start # 0 => start < L
    BY <1>3
  <2>10. Stretch(first, start, next + 1, L, joined, done, top, all)
    BY <1>3, <2>3, <2>6, <2>7, <2>8, <2>9, Zenon DEF Stretch, L
  <2>11. QED
    BY <2>10 DEF L, joined
<1>7. QED
  BY <1>1, <1>5, <1>6

LEMMA PrevPageFits ==
  ASSUME Browsing!GalleryConstants, NEW all \in Seq(Browsing!PhotoIds),
         NEW n \in Nat \ {0}, NEW start \in Nat, NEW next, NEW total, NEW shown \in Seq(Browsing!PhotoIds),
         NEW done, NEW top, NEW higher \in BOOLEAN, higher => top \/ n = 1,
         Stretch(n + 1, start, next, total, shown, done, top, all),
         NEW items, IsPage(items, all, n)
  PROVE  /\ Len(items) = PageSize /\ start - PageSize \in Nat
         /\ Stretch(n, start - PageSize, next, total, items \o shown, done, higher, all)
<1> DEFINE b == Before(n)
           L == Len(all)
           e == End(all, n)
           len == Len(shown)
           joined == items \o shown
<1>1. b \in Nat /\ Before(n + 1) = b + PageSize /\ PageSize \in Nat \ {0} /\ L \in Nat /\ (n = 1 => b = 0)
      /\ len \in Nat
  <2>1. len \in Nat
    OBVIOUS
  <2> HIDE DEF len
  <2>2. QED
    BY <2>1, BeforePage
<1>2. b < L => items = SubSeq(all, b + 1, e) /\ Len(items) = e - b
  BY PageIs DEF IsPage
<1>3. /\ start = Before(n + 1)
      /\ start # 0 => start < L /\ total = L
      /\ shown # <<>> => start + len <= L /\ shown = SubSeq(all, start + 1, start + len)
      /\ done => start + len >= L
      /\ ~done => start + len = Before(next)
      /\ top => start = 0
  BY DEF Stretch
<1>4. b + PageSize <= L => e = b + PageSize
  BY DEF End
<1> HIDE DEF b, e, L, len
<1>5. start = b + PageSize /\ start < L /\ total = L /\ b < start /\ ~top
  BY <1>1, <1>3
<1>6. items = SubSeq(all, b + 1, start) /\ Len(items) = PageSize
  <2>1. b < L /\ e = start
    BY <1>1, <1>4, <1>5
  <2>2. items = SubSeq(all, b + 1, e) /\ Len(items) = e - b
    BY <1>2, <2>1
  <2>3. e - b = PageSize
    BY <1>1, <1>5, <2>1
  <2>4. QED
    BY <2>1, <2>2, <2>3
<1>7. start - PageSize = b
  BY <1>1, <1>5
<1>8. /\ start + len <= L
      /\ joined = SubSeq(all, b + 1, start + len)
      /\ Len(joined) = start - b + len
  <2>1. b \in Nat /\ b < start /\ start <= Len(all)
    BY <1>1, <1>5 DEF L
  <2>2. shown # <<>> => start + Len(shown) <= Len(all) /\ shown = SubSeq(all, start + 1, start + Len(shown))
    BY <1>3 DEF L, len
  <2>3. /\ start + Len(shown) <= Len(all)
        /\ SubSeq(all, b + 1, start) \o shown = SubSeq(all, b + 1, start + Len(shown))
        /\ Len(SubSeq(all, b + 1, start) \o shown) = start - b + Len(shown)
    BY <2>1, <2>2, Prepended
  <2>4. QED
    BY <1>6, <2>3 DEF L, len
<1>9. b + Len(joined) = start + len /\ b < L
  BY <1>1, <1>5, <1>8
<1>10. higher => b = 0
  BY <1>1, <1>5
<1> HIDE DEF joined
<1>11. b + Len(joined) <= L /\ joined = SubSeq(all, b + 1, b + Len(joined))
  BY <1>8, <1>9
<1>12. done => b + Len(joined) >= L
  BY <1>3, <1>9
<1>13. ~done => b + Len(joined) = Before(next)
  BY <1>3, <1>9
<1>14. Stretch(n, b, next, L, joined, done, higher, all)
  BY <1>9, <1>10, <1>11, <1>12, <1>13, Zenon DEF Stretch, L, b
<1>15. QED
  BY <1>1, <1>5, <1>6, <1>7, <1>14 DEF joined

LEMMA OpenedFits ==
  ASSUME Browsing!GalleryConstants, NEW f, NEW age, NEW all \in Seq(Browsing!PhotoIds)
  PROVE  Fits(Browsing!Opened(f, age), all)
<1>1. Before(1) = 0
  BY BeforePage
<1> DEFINE none == <<>>
<1>2. Stretch(1, 0, 1, 0, none, FALSE, TRUE, all)
  <2>1. Len(none) = 0
    OBVIOUS
  <2>2. none = <<>>
    OBVIOUS
  <2> HIDE DEF none
  <2>3. QED
    BY <1>1, <2>1, <2>2 DEF Stretch
<1> HIDE DEF none
<1>3. /\ Browsing!Opened(f, age).first = 1 /\ Browsing!Opened(f, age).start = 0
         /\ Browsing!Opened(f, age).next = 1
      /\ Browsing!Opened(f, age).total = 0 /\ Browsing!Opened(f, age).shown = none
         /\ Browsing!Opened(f, age).done = FALSE
      /\ Browsing!Opened(f, age).topDone = TRUE
  BY DEF Browsing!Opened, none
<1>4. QED
  BY <1>2, <1>3 DEF Fits

LEMMA YearsWait ==
  ASSUME NEW s, NEW all PROVE Waits(s, Browsing!Ask("years", 0, FALSE, s), all)
  BY DEF Waits, Browsing!Ask

LEMMA SameTimeline ==
  ASSUME NEW f, UNCHANGED Browsing!rows PROVE Browsing!Timeline(f)' = Browsing!Timeline(f)
  BY DEF Browsing!rows, Browsing!Timeline, Browsing!Listed, Browsing!Active, Browsing!Visible,
     Browsing!Scalar, Browsing!Search, Browsing!Located

\* A call that is for no page waits for the same when a page has joined.
LEMMA WaitsKept ==
  ASSUME NEW s, NEW r, NEW c, NEW all, Waits(s, c, all), r.filter = s.filter, c.dir \notin Pages,
         \A p \in Browsing!ToSet(s.shown) : p \in Browsing!ToSet(r.shown)
  PROVE  Waits(r, c, all)
  BY DEF Waits, Pages

LEMMA WaitingKept ==
  ASSUME NEW s, NEW r, NEW C, NEW D, NEW all, Waiting(s, C, all), D \subseteq C,
         r.filter = s.filter, r.age = s.age, \A p \in Browsing!ToSet(s.shown) : p \in Browsing!ToSet(r.shown),
         \A c \in D : c.age = s.age => c.dir \notin Pages
  PROVE  Waiting(r, D, all)
<1>1. ASSUME NEW c \in D, c.age = r.age PROVE Waits(r, c, all)
  <2>1. c \in C /\ c.age = s.age /\ c.dir \notin Pages
    BY <1>1
  <2>2. Waits(s, c, all)
    BY <2>1 DEF Waiting
  <2>3. QED
    BY <2>1, <2>2, WaitsKept
<1>2. QED
  BY <1>1 DEF Waiting

\* The one that waits for a page is settled.
LEMMA Lone ==
  ASSUME NEW s, NEW C, NEW all, Waiting(s, C, all), NEW c \in C, c.age = s.age, c.dir \in Pages
  PROVE  \A d \in C \ {c} : d.age = s.age => d.dir \notin Pages
  BY DEF Waiting

\* And no other waits for one while the flag is clear.
LEMMA Clear ==
  ASSUME NEW s, NEW C, NEW all, Waiting(s, C, all), ~s.loading
  PROVE  \A d \in C : d.age = s.age => d.dir \notin Pages
  BY DEF Waiting, Waits, Pages

\* A call joins those that wait.
LEMMA WaitingJoined ==
  ASSUME NEW s, NEW C, NEW all, Waiting(s, C, all), NEW d, Waits(s, d, all),
         d.dir \in Pages => \A c \in C : c.age = s.age => c.dir \notin Pages
  PROVE  Waiting(s, C \cup {d}, all)
  BY DEF Waiting

LEMMA SoundFetch ==
  ASSUME Browsing!GalleryConstants, PagesInv, NEW f \in Filters, f = screen'.filter, ~screen'.torn,
         Browsing!LoadNextPage \/ Browsing!LoadPrevPage
  PROVE  Fits(screen', Browsing!Timeline(f)') /\ Waiting(screen', calls', Browsing!Timeline(f)')
<1> DEFINE all == Browsing!Timeline(f)
<1>1. screen \in Browsing!Screen /\ UNCHANGED Browsing!rows
  BY DEF PagesInv, Typed, Browsing!TypeOK, Browsing!LoadNextPage, Browsing!LoadPrevPage
<1>2. all' = all
  BY <1>1, SameTimeline
<1>3. /\ screen'.filter = screen.filter /\ screen'.torn = screen.torn /\ screen'.age = screen.age
      /\ screen'.shown = screen.shown /\ screen'.first = screen.first /\ screen'.start = screen.start
      /\ screen'.next = screen.next /\ screen'.total = screen.total /\ screen'.done = screen.done
  BY <1>1 DEF Browsing!LoadNextPage, Browsing!LoadPrevPage, Browsing!Screen
<1>4. Fits(screen, all) /\ Waiting(screen, calls, all) /\ ~screen.loading
  BY <1>3 DEF PagesInv, Browsing!LoadNextPage, Browsing!LoadPrevPage
<1> HIDE DEF all
<1>5. \A c \in calls : c.age = screen.age => c.dir \notin Pages
  BY <1>4, Clear
<1>6. Waiting(screen', calls, all)
  BY <1>3, <1>4, <1>5, WaitingKept
<1>7. screen.total \in Nat /\ screen.first \in Nat \ {0}
  BY <1>1 DEF Browsing!Screen, PagesInv, Typed
<1>8. CASE Browsing!LoadNextPage
  <2> DEFINE d == Browsing!Down(screen)
  <2>1. calls' = calls \cup {d} /\ ~screen.done
    BY <1>8 DEF Browsing!LoadNextPage, Browsing!Send
  <2>2. screen'.topDone = screen.topDone /\ screen'.loading
    BY <1>1, <1>8 DEF Browsing!LoadNextPage, Browsing!Screen
  <2>3. Fits(screen', all)
    BY <1>3, <1>4, <2>2 DEF Fits
  <2>4. Waits(screen', d, all)
    <3>1. d.dir = "down" /\ d.page = screen.next /\ d.pc = "sent" /\ d.total = -1 /\ d.filter = screen.filter
      BY DEF Browsing!Down, Browsing!Ask
    <3>2. d.count \/ screen.total > 0
      <4>1. d.count <=> (screen.next = 1 \/ screen.total <= 0)
        BY DEF Browsing!Down, Browsing!Ask
      <4>2. QED
        BY <1>7, <4>1
    <3> HIDE DEF d
    <3>3. QED
      BY <1>3, <2>1, <2>2, <3>1, <3>2 DEF Waits
  <2> HIDE DEF d
  <2>5. Waiting(screen', calls', all)
    BY <1>3, <1>5, <1>6, <2>1, <2>4, WaitingJoined
  <2>6. QED
    BY <1>2, <2>3, <2>5 DEF all
<1>9. CASE Browsing!LoadPrevPage /\ screen.first <= 1
  <2>1. calls' = calls /\ screen'.topDone /\ screen.first = 1
    BY <1>1, <1>7, <1>9 DEF Browsing!LoadPrevPage, Browsing!Screen
  <2>2. screen.start = 0
    <3>1. screen.start = Before(1)
      BY <1>4, <2>1 DEF Fits, Stretch
    <3>2. QED
      BY <3>1, BeforePage
  <2>3. Fits(screen', all)
    BY <1>3, <1>4, <2>1, <2>2, Zenon DEF Fits, Stretch
  <2>4. QED
    BY <1>2, <1>6, <2>1, <2>3 DEF all
<1>10. CASE Browsing!LoadPrevPage /\ ~(screen.first <= 1)
  <2> DEFINE d == Browsing!Ask("up", screen.first - 1, FALSE, screen)
  <2>1. calls' = calls \cup {d}
    BY <1>10 DEF Browsing!LoadPrevPage, Browsing!Send
  <2>2. screen'.topDone = screen.topDone /\ screen'.loading /\ screen.first > 1
    BY <1>1, <1>7, <1>10 DEF Browsing!LoadPrevPage, Browsing!Screen
  <2>3. Fits(screen', all)
    BY <1>3, <1>4, <2>2 DEF Fits
  <2>4. Waits(screen', d, all)
    BY <1>3, <1>7, <2>2 DEF Waits, Browsing!Ask
  <2> HIDE DEF d
  <2>5. Waiting(screen', calls', all)
    BY <1>3, <1>5, <1>6, <2>1, <2>4, WaitingJoined
  <2>6. QED
    BY <1>2, <2>3, <2>5 DEF all
<1>11. QED
  BY <1>8, <1>9, <1>10

LEMMA PageIsOf ==
  ASSUME NEW f, NEW n PROVE Browsing!Page(f, n) = PageOf(Browsing!Timeline(f), n)
  BY DEF Browsing!Page, PageOf

LEMMA SoundServe ==
  ASSUME Browsing!GalleryConstants, PagesInv, NEW f \in Filters, f = screen'.filter, ~screen'.torn,
         NEW c \in calls, Browsing!Serve(c)
  PROVE  Fits(screen', Browsing!Timeline(f)') /\ Waiting(screen', calls', Browsing!Timeline(f)')
<1> DEFINE all == Browsing!Timeline(f)
           d == IF c.dir = "years"
                  THEN [c EXCEPT !.pc = "answered", !.total = Browsing!FoldFunction(+, 0, Browsing!Histogram(c.filter))]
                ELSE IF c.pc = "sent" /\ c.count
                  THEN [c EXCEPT !.pc = "counted", !.total = Browsing!Cardinality(Browsing!Listed(c.filter))]
                ELSE [c EXCEPT !.pc = "answered", !.items = Browsing!Page(c.filter, c.page)]
<1>1. UNCHANGED Browsing!rows /\ UNCHANGED screen /\ calls' = (calls \ {c}) \cup {d}
      /\ c.dir # "delete" /\ c.pc # "answered"
  BY DEF Browsing!Serve
<1>2. all' = all
  BY <1>1, SameTimeline
<1>3. Fits(screen, all) /\ Waiting(screen, calls, all) /\ c \in Browsing!Call
  BY <1>1 DEF PagesInv, Typed, Browsing!TypeOK
<1>4. Browsing!Cardinality(Browsing!Listed(f)) = Len(all)
  BY TimelineFacts
<1>5. Browsing!FoldFunction(+, 0, Browsing!Histogram(f)) = Len(all)
  BY <1>4, YearsSum
<1>6. \A n : Browsing!Page(f, n) = PageOf(all, n)
  BY PageIsOf
<1> HIDE DEF all
<1>7. d.age = c.age /\ d.dir = c.dir /\ d.filter = c.filter /\ d.page = c.page /\ d.count = c.count
  BY <1>3 DEF Browsing!Call
<1>8. ASSUME c.age = screen.age PROVE Waits(screen, d, all)
  <2>1. Waits(screen, c, all)
    BY <1>3, <1>8 DEF Waiting
  <2>2. c.filter = f
    BY <1>1, <2>1 DEF Waits
  <2>3. CASE c.dir = "years"
    <3>1. d = [c EXCEPT !.pc = "answered", !.total = Len(all)]
      BY <1>5, <2>2, <2>3
    <3> HIDE DEF d
    <3>2. d.pc = "answered" /\ d.total = Len(all)
      BY <1>3, <3>1 DEF Browsing!Call
    <3>3. QED
      BY <1>7, <2>1, <2>3, <3>2 DEF Waits
  <2>4. CASE c.dir # "years" /\ c.pc = "sent" /\ c.count
    <3>1. d = [c EXCEPT !.pc = "counted", !.total = Len(all)]
      BY <1>4, <2>2, <2>4
    <3> HIDE DEF d
    <3>2. d.pc = "counted" /\ d.total = Len(all)
      BY <1>3, <3>1 DEF Browsing!Call
    <3>3. c.dir = "down"
      BY <1>1, <1>3, <2>1, <2>4 DEF Browsing!Call, Waits
    <3>4. QED
      BY <1>7, <2>1, <2>4, <3>2, <3>3 DEF Waits
  <2>5. CASE c.dir # "years" /\ ~(c.pc = "sent" /\ c.count)
    <3>1. d = [c EXCEPT !.pc = "answered", !.items = PageOf(all, c.page)]
      BY <1>6, <2>2, <2>5
    <3> HIDE DEF d
    <3>2. d.pc = "answered" /\ d.items = PageOf(all, c.page) /\ d.total = c.total
      BY <1>3, <3>1 DEF Browsing!Call
    <3>3. c.dir \in {"down", "up"}
      BY <1>1, <1>3, <2>5 DEF Browsing!Call
    <3>4. CASE c.dir = "down"
      <4>1. /\ screen.loading /\ ~screen.done /\ d.page = screen.next /\ (d.count \/ screen.total > 0)
            /\ c.total = IF c.count /\ c.pc # "sent" THEN Len(all) ELSE -1
        BY <1>7, <2>1, <3>4 DEF Waits
      <4>2. d.total = IF d.count /\ d.pc # "sent" THEN Len(all) ELSE -1
        BY <1>7, <2>5, <3>2, <4>1
      <4>3. d.filter = screen.filter /\ d.dir = "down"
        BY <1>7, <2>1, <3>4 DEF Waits
      <4>4. QED
        BY <1>7, <3>2, <4>1, <4>2, <4>3 DEF Waits
    <3>5. CASE c.dir = "up"
      BY <1>7, <2>1, <3>2, <3>5 DEF Waits
    <3>6. QED
      BY <3>3, <3>4, <3>5
  <2>6. QED
    BY <2>3, <2>4, <2>5
<1> HIDE DEF d
<1>9. Waiting(screen, calls', all)
  BY <1>1, <1>3, <1>7, <1>8, WaitingSwap
<1>10. QED
  BY <1>1, <1>2, <1>3, <1>9 DEF all

LEMMA JoinKeeps ==
  ASSUME NEW s \in Seq(Browsing!PhotoIds), NEW t \in Seq(Browsing!PhotoIds)
  PROVE  \A p \in Browsing!ToSet(s) : p \in Browsing!ToSet(s \o t) /\ p \in Browsing!ToSet(t \o s)
<1>1. ASSUME NEW i \in DOMAIN s PROVE (s \o t)[i] = s[i] /\ i \in DOMAIN (s \o t)
  OBVIOUS
<1>2. ASSUME NEW i \in DOMAIN s PROVE (t \o s)[Len(t) + i] = s[i] /\ Len(t) + i \in DOMAIN (t \o s)
  OBVIOUS
<1>3. QED
  BY <1>1, <1>2 DEF Browsing!ToSet

\* An answer a torn timeline would take is not taken by another.
LEMMA SoundNextPage ==
  ASSUME Browsing!GalleryConstants, PagesInv, NEW f \in Filters, f = screen'.filter, ~screen'.torn,
         NEW c \in calls, Browsing!NextPageArrives(c)
  PROVE  Fits(screen', Browsing!Timeline(f)') /\ Waiting(screen', calls', Browsing!Timeline(f)')
<1> DEFINE all == Browsing!Timeline(f)
           items == c.items
           shown == screen.shown \o items
           total == IF c.total >= 0 THEN c.total ELSE screen.total
           done == screen.done \/ screen.start + Len(shown) >= total \/ items = <<>>
           torn == screen.torn \/ Browsing!Stray(c)
<1>1. screen \in Browsing!Screen /\ c \in Browsing!Call /\ UNCHANGED Browsing!rows /\ calls' = calls \ {c}
      /\ c.pc = "answered" /\ c.dir = "down" /\ screen.next \in Nat \ {0}
  BY DEF PagesInv, Typed, Browsing!TypeOK, Browsing!NextPageArrives, Browsing!Arrived,
     Browsing!Settle, Browsing!Screen
<1>2. screen' = [screen EXCEPT !.shown = shown, !.total = total, !.next = @ + 1, !.loading = FALSE,
                    !.done = done, !.torn = torn]
  BY Zenon DEF Browsing!NextPageArrives
<1>3. all' = all /\ all \in Seq(Browsing!PhotoIds) /\ Len(all) \in Nat
  BY <1>1, SameTimeline, TimelineFacts
<1>d. done \in BOOLEAN /\ (done <=> screen.done \/ screen.start + Len(shown) >= total \/ items = <<>>)
  BY <1>1 DEF Browsing!Screen
<1>s. shown = screen.shown \o items
  OBVIOUS
<1>t. total = IF c.total >= 0 THEN c.total ELSE screen.total
  OBVIOUS
<1> HIDE DEF all, shown, total, done, items
<1>4. /\ screen'.filter = screen.filter /\ screen'.torn = torn /\ screen'.age = screen.age
      /\ screen'.shown = shown /\ screen'.first = screen.first /\ screen'.start = screen.start
      /\ screen'.next = screen.next + 1 /\ screen'.total = total /\ screen'.done = done
      /\ screen'.topDone = screen.topDone
  BY <1>1, <1>2 DEF Browsing!Screen
<1>5. ~screen.torn /\ c.age = screen.age
  BY <1>4 DEF Browsing!Stray
<1>6. Fits(screen, all) /\ Waiting(screen, calls, all)
  BY <1>4, <1>5 DEF PagesInv, all
<1>7. Waits(screen, c, all)
  BY <1>5, <1>6 DEF Waiting
<1>8. /\ ~screen.done /\ c.page = screen.next /\ (c.count \/ screen.total > 0)
      /\ c.total = (IF c.count THEN Len(all) ELSE -1)
      /\ IsPage(items, all, screen.next)
  BY <1>1, <1>7 DEF Waits, IsPage, items
<1>9. total = Len(all)
  <2>1. screen.total \in {0, Len(all)}
    BY <1>6 DEF Fits, Stretch
  <2>2. QED
    BY <1>3, <1>8, <1>t, <2>1
<1>10. screen.start \in Nat /\ screen.shown \in Seq(Browsing!PhotoIds) /\ items \in Seq(Browsing!PhotoIds)
  BY <1>1 DEF Browsing!Screen, Browsing!Call, items
<1>11. Stretch(screen.first, screen.start, screen.next, screen.total, screen.shown, FALSE, screen.topDone, all)
  BY <1>6, <1>8 DEF Fits, Stretch
<1>12. Stretch(screen.first, screen.start, screen.next + 1, Len(all), shown, done, screen.topDone, all)
  <2>1. done <=> screen.start + Len(screen.shown \o items) >= Len(all) \/ items = <<>>
    BY <1>d, <1>8, <1>9, <1>s
  <2>2. Stretch(screen.first, screen.start, screen.next + 1, Len(all), screen.shown \o items, done, screen.topDone, all)
    BY <1>1, <1>3, <1>8, <1>10, <1>11, <1>d, <2>1, NextPageFits
  <2>3. QED
    BY <1>s, <2>2
<1>13. Fits(screen', all)
  BY <1>4, <1>9, <1>12 DEF Fits
<1>14. \A d \in calls' : d.age = screen.age => d.dir \notin Pages
  BY <1>1, <1>5, <1>6, Lone DEF Pages
<1>15. \A p \in Browsing!ToSet(screen.shown) : p \in Browsing!ToSet(screen'.shown)
  BY <1>4, <1>10, <1>s, JoinKeeps
<1>16. Waiting(screen', calls', all)
  BY <1>1, <1>4, <1>6, <1>14, <1>15, WaitingKept
<1>17. QED
  BY <1>3, <1>13, <1>16 DEF all

LEMMA SoundPrevPage ==
  ASSUME Browsing!GalleryConstants, PagesInv, NEW f \in Filters, f = screen'.filter, ~screen'.torn,
         NEW c \in calls, Browsing!PrevPageArrives(c)
  PROVE  Fits(screen', Browsing!Timeline(f)') /\ Waiting(screen', calls', Browsing!Timeline(f)')
<1> DEFINE all == Browsing!Timeline(f)
           items == c.items
           k == Len(items)
           n == screen.first - 1
           shown == items \o screen.shown
           start == Browsing!Max({0, screen.start - k})
           first == Browsing!Max({1, n})
           top == screen.topDone \/ screen.first <= 2
           torn == screen.torn \/ Browsing!Stray(c)
           slid == [screen EXCEPT !.first = c.page, !.start = (c.page - 1) * PageSize, !.torn = torn]
           again == c.page > 1 /\ ~slid.topDone
           above == slid.topDone \/ c.page <= 1
<1>1. screen \in Browsing!Screen /\ c \in Browsing!Call /\ UNCHANGED Browsing!rows /\ c.pc = "answered"
      /\ c.dir = "up"
      /\ screen.first \in Nat \ {0} /\ screen.shown \in Seq(Browsing!PhotoIds) /\ screen.start \in Nat
      /\ items \in Seq(Browsing!PhotoIds) /\ k \in Nat
  BY DEF PagesInv, Typed, Browsing!TypeOK, Browsing!PrevPageArrives, Browsing!Arrived,
     Browsing!Screen, Browsing!Call
<1>2. \/ /\ k > 0 /\ calls' = calls \ {c}
         /\ screen' = [screen EXCEPT !.shown = shown, !.start = start, !.first = first,
                         !.topDone = top, !.loading = FALSE, !.torn = torn]
      \/ k = 0 /\ screen' = [slid EXCEPT !.topDone = above, !.loading = again]
  BY Zenon DEF Browsing!PrevPageArrives, Browsing!Settle
<1>3. all' = all /\ all \in Seq(Browsing!PhotoIds) /\ Len(all) \in Nat
  BY <1>1, SameTimeline, TimelineFacts
<1>4. screen'.torn = torn /\ screen'.age = screen.age /\ screen'.filter = screen.filter
  <2> HIDE DEF torn, above, again, k, shown, start, first, top
  <2>1. CASE k > 0
    BY <1>1, <1>2, <2>1 DEF Browsing!Screen
  <2>2. CASE k = 0
    <3>1. screen' = [slid EXCEPT !.topDone = above, !.loading = again]
      BY <1>2, <2>2
    <3>2. slid.torn = torn /\ slid.age = screen.age /\ slid.filter = screen.filter
          /\ DOMAIN slid = DOMAIN screen
      BY <1>1 DEF Browsing!Screen
    <3> HIDE DEF slid
    <3>3. QED
      BY <1>1, <3>1, <3>2 DEF Browsing!Screen
  <2>3. QED
    BY <1>1, <2>1, <2>2
<1>5. ~screen.torn /\ c.age = screen.age
  BY <1>4 DEF Browsing!Stray
<1>6. Fits(screen, all) /\ Waiting(screen, calls, all)
  BY <1>4, <1>5 DEF PagesInv
<1>s. shown = items \o screen.shown
  OBVIOUS
<1>t. top \in BOOLEAN /\ (top => screen.topDone \/ screen.first <= 2)
  BY <1>1 DEF Browsing!Screen
<1>u. start = Browsing!Max({0, screen.start - k}) /\ first = Browsing!Max({1, n})
  OBVIOUS
<1> HIDE DEF all, slid, again, above, shown, start, first, top
<1>7. Waits(screen, c, all)
  BY <1>5, <1>6 DEF Waiting
<1>8. screen.first > 1 /\ c.page = n /\ n \in Nat \ {0}
  BY <1>1, <1>7 DEF Waits
<1>p. IsPage(items, all, n)
  BY <1>1, <1>7, <1>8 DEF Waits, IsPage
<1>9. Stretch(n + 1, screen.start, screen.next, screen.total, screen.shown, screen.done, screen.topDone, all)
  <2>1. n + 1 = screen.first
    BY <1>1
  <2>2. QED
    BY <1>6, <2>1 DEF Fits
<1> HIDE DEF items
<1>10. /\ k = PageSize /\ screen.start - PageSize \in Nat
       /\ Stretch(n, screen.start - PageSize, screen.next, screen.total, shown, screen.done, top, all)
  <2>1. top => screen.topDone \/ n = 1
    BY <1>1, <1>8, <1>t
  <2> HIDE DEF n
  <2>2. /\ Len(items) = PageSize /\ screen.start - PageSize \in Nat
        /\ Stretch(n, screen.start - PageSize, screen.next, screen.total, items \o screen.shown, screen.done, top, all)
    BY <1>1, <1>3, <1>8, <1>9, <1>p, <1>t, <2>1, PrevPageFits
  <2>3. QED
    BY <1>s, <2>2
<1>11. k > 0
  BY <1>10 DEF Browsing!GalleryConstants
<1>12. start = screen.start - PageSize /\ first = n
  <2>1. Browsing!Max({0, screen.start - k}) = IF 0 <= screen.start - k THEN screen.start - k ELSE 0
    BY <1>1, Larger
  <2>2. Browsing!Max({1, n}) = IF 1 <= n THEN n ELSE 1
    BY <1>8, Larger
  <2> HIDE DEF k, n
  <2>3. start = (IF 0 <= screen.start - k THEN screen.start - k ELSE 0) /\ first = IF 1 <= n THEN n ELSE 1
    BY <1>u, <2>1, <2>2
  <2>4. screen.start - k = screen.start - PageSize
    BY <1>10
  <2>5. QED
    BY <1>8, <1>10, <2>3, <2>4
<1>13. /\ calls' = calls \ {c}
       /\ screen' = [screen EXCEPT !.shown = shown, !.start = start, !.first = first,
                       !.topDone = top, !.loading = FALSE, !.torn = torn]
  BY <1>2, <1>11
<1> HIDE DEF torn, k, n
<1>14. /\ screen'.shown = shown /\ screen'.first = first /\ screen'.start = start
       /\ screen'.next = screen.next /\ screen'.total = screen.total /\ screen'.done = screen.done
       /\ screen'.topDone = top
  BY <1>1, <1>13 DEF Browsing!Screen
<1>15. Fits(screen', all)
  BY <1>10, <1>12, <1>14 DEF Fits
<1>16. \A d \in calls' : d.age = screen.age => d.dir \notin Pages
  BY <1>1, <1>5, <1>6, <1>13, Lone DEF Pages
<1>17. \A p \in Browsing!ToSet(screen.shown) : p \in Browsing!ToSet(screen'.shown)
  BY <1>1, <1>14, <1>s, JoinKeeps
<1>18. Waiting(screen', calls', all)
  BY <1>4, <1>6, <1>13, <1>16, <1>17, WaitingKept
<1>19. QED
  BY <1>3, <1>15, <1>18 DEF all

LEMMA SoundYears ==
  ASSUME Browsing!GalleryConstants, PagesInv, NEW f \in Filters, f = screen'.filter, ~screen'.torn,
         NEW c \in calls, Browsing!HistogramArrives(c)
  PROVE  Fits(screen', Browsing!Timeline(f)') /\ Waiting(screen', calls', Browsing!Timeline(f)')
<1> DEFINE all == Browsing!Timeline(f)
           torn == screen.torn \/ Browsing!Stray(c)
<1>1. screen \in Browsing!Screen /\ UNCHANGED Browsing!rows /\ c.pc = "answered" /\ c.dir = "years"
      /\ calls' = calls \ {c}
  BY DEF PagesInv, Typed, Browsing!TypeOK, Browsing!HistogramArrives, Browsing!Arrived, Browsing!Settle
<1>2. screen' = [screen EXCEPT !.total = c.total, !.torn = torn]
  BY Zenon DEF Browsing!HistogramArrives
<1>3. all' = all /\ Len(all) \in Nat
  BY <1>1, SameTimeline, TimelineFacts
<1> HIDE DEF all
<1>4. /\ screen'.torn = torn /\ screen'.age = screen.age /\ screen'.filter = screen.filter
      /\ screen'.shown = screen.shown /\ screen'.first = screen.first /\ screen'.start = screen.start
      /\ screen'.next = screen.next /\ screen'.total = c.total /\ screen'.done = screen.done
      /\ screen'.topDone = screen.topDone /\ screen'.loading = screen.loading
  <2> HIDE DEF torn
  <2>1. QED
    BY <1>1, <1>2 DEF Browsing!Screen
<1>5. ~screen.torn /\ c.age = screen.age
  BY <1>4 DEF Browsing!Stray
<1>6. Fits(screen, all) /\ Waiting(screen, calls, all)
  BY <1>4, <1>5 DEF PagesInv, all
<1>7. c.total = Len(all)
  BY <1>1, <1>5, <1>6 DEF Waiting, Waits
<1>8. Fits(screen', all)
  BY <1>4, <1>6, <1>7, Zenon DEF Fits, Stretch
<1>9. ASSUME NEW d \in calls', d.age = screen'.age PROVE Waits(screen', d, all)
  <2>1. Waits(screen, d, all)
    BY <1>1, <1>4, <1>6, <1>9 DEF Waiting
  <2>2. d.dir = "down" => (screen.total > 0 => screen'.total > 0)
    <3>1. screen.total \in {0, Len(all)}
      BY <1>6 DEF Fits, Stretch
    <3>2. QED
      BY <1>3, <1>4, <1>7, <3>1
  <2>3. QED
    BY <1>4, <2>1, <2>2 DEF Waits
<1>10. Waiting(screen', calls', all)
  BY <1>1, <1>4, <1>6, <1>9 DEF Waiting
<1>11. QED
  BY <1>3, <1>8, <1>10 DEF all

LEMMA SoundFailure ==
  ASSUME Browsing!GalleryConstants, PagesInv, NEW f \in Filters, f = screen'.filter, ~screen'.torn,
         NEW c \in calls, Browsing!FetchFails(c)
  PROVE  Fits(screen', Browsing!Timeline(f)') /\ Waiting(screen', calls', Browsing!Timeline(f)')
<1> DEFINE all == Browsing!Timeline(f)
           torn == screen.torn \/ Browsing!Stray(c)
           loading == screen.loading /\ c.dir = "years"
<1>1. screen \in Browsing!Screen /\ UNCHANGED Browsing!rows /\ c.dir \in {"down", "up", "years"}
      /\ calls' = calls \ {c}
  BY DEF PagesInv, Typed, Browsing!TypeOK, Browsing!FetchFails, Browsing!Settle
<1>2. screen' = [screen EXCEPT !.loading = loading, !.torn = torn]
  BY Zenon DEF Browsing!FetchFails
<1>3. all' = all
  BY <1>1, SameTimeline
<1>l. c.dir = "years" => loading = screen.loading
  BY <1>1 DEF Browsing!Screen
<1> HIDE DEF all, loading
<1>4. /\ screen'.torn = torn /\ screen'.age = screen.age /\ screen'.filter = screen.filter
      /\ screen'.shown = screen.shown /\ screen'.first = screen.first /\ screen'.start = screen.start
      /\ screen'.next = screen.next /\ screen'.total = screen.total /\ screen'.done = screen.done
      /\ screen'.topDone = screen.topDone /\ screen'.loading = loading
  <2> HIDE DEF torn
  <2>1. QED
    BY <1>1, <1>2 DEF Browsing!Screen
<1>5. ~screen.torn /\ c.age = screen.age
  BY <1>4 DEF Browsing!Stray
<1>6. Fits(screen, all) /\ Waiting(screen, calls, all)
  BY <1>4, <1>5 DEF PagesInv, all
<1>7. Fits(screen', all)
  BY <1>4, <1>6 DEF Fits
<1>8. CASE c.dir = "years"
  <2>1. ASSUME NEW d \in calls', d.age = screen'.age PROVE Waits(screen', d, all)
    <3>1. Waits(screen, d, all)
      BY <1>1, <1>4, <1>6, <2>1 DEF Waiting
    <3>2. QED
      BY <1>4, <1>8, <1>l, <3>1 DEF Waits
  <2>2. Waiting(screen', calls', all)
    BY <1>1, <1>4, <1>6, <2>1 DEF Waiting
  <2>3. QED
    BY <1>3, <1>7, <2>2 DEF all
<1>9. CASE c.dir # "years"
  <2>1. \A d \in calls' : d.age = screen.age => d.dir \notin Pages
    BY <1>1, <1>5, <1>6, <1>9, Lone DEF Pages
  <2>2. \A p \in Browsing!ToSet(screen.shown) : p \in Browsing!ToSet(screen'.shown)
    BY <1>4
  <2>3. Waiting(screen', calls', all)
    BY <1>1, <1>4, <1>6, <2>1, <2>2, WaitingKept
  <2>4. QED
    BY <1>3, <1>7, <2>3 DEF all
<1>10. QED
  BY <1>8, <1>9

\* A deletion in place that is answered tears the timeline.
LEMMA SoundRemoved ==
  ASSUME Browsing!GalleryConstants, PagesInv, NEW f \in Filters, f = screen'.filter, ~screen'.torn,
         NEW c \in calls, Browsing!Removed(c)
  PROVE  FALSE
<1> DEFINE torn == screen.torn \/ Browsing!Stray(c)
           shown == Browsing!Without(screen.shown, Browsing!ToSet(c.items))
           total == Browsing!Max({0, screen.total - (Len(screen.shown) - Len(shown))})
           done == screen.done \/ Len(shown) >= total
<1>1. screen \in Browsing!Screen /\ c.pc = "answered" /\ c.dir = "delete"
  BY DEF PagesInv, Typed, Browsing!TypeOK, Browsing!Removed, Browsing!Arrived
<1>2. screen' = [screen EXCEPT !.shown = shown, !.total = total, !.done = done, !.torn = torn]
  BY Zenon DEF Browsing!Removed
<1>3. screen'.torn = torn /\ screen'.filter = screen.filter
  <2> HIDE DEF torn, shown, total, done
  <2>1. QED
    BY <1>1, <1>2 DEF Browsing!Screen
<1> HIDE DEF shown, total, done
<1>4. ~screen.torn /\ c.age = screen.age
  BY <1>3 DEF Browsing!Stray
<1>5. Waiting(screen, calls, Browsing!Timeline(f))
  BY <1>3, <1>4 DEF PagesInv
<1>6. c.pc = "sent"
  BY <1>1, <1>4, <1>5 DEF Waiting, Waits
<1>7. QED
  BY <1>1, <1>6

\* A jump starts in the middle; another filter starts at the top.
LEMMA SoundJump ==
  ASSUME Browsing!GalleryConstants, PagesInv, NEW f \in Filters, f = screen'.filter, ~screen'.torn,
         NEW page \in 1..MaxPhoto, Browsing!Jump(page)
  PROVE  Fits(screen', Browsing!Timeline(f)') /\ Waiting(screen', calls', Browsing!Timeline(f)')
<1> DEFINE all == Browsing!Timeline(f)
           none == <<>>
           start == (page - 1) * PageSize
           top == page <= 1
           older == screen.age + 1
           emptied == [screen EXCEPT !.shown = none, !.done = FALSE, !.start = start, !.next = page,
                         !.first = page, !.topDone = top, !.age = older]
           d == Browsing!Down(emptied)
<1>1. /\ start < screen.total /\ screen' = [emptied EXCEPT !.loading = TRUE]
      /\ calls' = calls \cup {d} /\ UNCHANGED Browsing!rows
  BY Zenon DEF Browsing!Jump, Browsing!Send
<1>2. screen \in Browsing!Screen /\ page \in Nat \ {0} /\ screen.age \in Nat
  BY DEF PagesInv, Typed, Browsing!TypeOK, Browsing!GalleryConstants, Browsing!Screen
<1>3. all' = all /\ all \in Seq(Browsing!PhotoIds) /\ Len(all) \in Nat
  BY <1>1, SameTimeline, TimelineFacts
<1>n. Len(none) = 0 /\ none = <<>>
  OBVIOUS
<1>b. start = Before(page) /\ (top => page = 1) /\ top \in BOOLEAN
  BY <1>2 DEF Before
<1>o. older = screen.age + 1
  OBVIOUS
<1> HIDE DEF all, none, start, top, older
<1>4. /\ emptied.filter = screen.filter /\ emptied.torn = screen.torn /\ emptied.age = older
      /\ emptied.shown = none /\ emptied.first = page /\ emptied.start = start
      /\ emptied.next = page /\ emptied.total = screen.total /\ emptied.done = FALSE
      /\ emptied.topDone = top /\ DOMAIN emptied = DOMAIN screen
  BY <1>2 DEF Browsing!Screen
<1> HIDE DEF emptied
<1>5. /\ screen'.filter = screen.filter /\ screen'.torn = screen.torn /\ screen'.age = older
      /\ screen'.shown = none /\ screen'.first = page /\ screen'.start = start
      /\ screen'.next = page /\ screen'.total = screen.total /\ screen'.done = FALSE
      /\ screen'.topDone = top /\ screen'.loading
  BY <1>1, <1>2, <1>4 DEF Browsing!Screen
<1>6. Fits(screen, all)
  BY <1>5 DEF PagesInv, all
<1>7. screen.total \in Nat /\ screen.total \in {0, Len(all)}
  BY <1>2, <1>6 DEF Browsing!Screen, Fits, Stretch
<1>8. start \in Nat /\ screen.total = Len(all) /\ start < Len(all) /\ screen.total > 0
  <2>1. start \in Nat
    BY <1>2, <1>b, BeforePage
  <2>2. QED
    BY <1>1, <1>3, <1>7, <2>1
<1>9. Stretch(page, start, page, screen.total, none, FALSE, top, all)
  <2>1. start + Len(none) = Before(page)
    BY <1>8, <1>b, <1>n
  <2>2. top => start = 0
    BY <1>2, <1>b, BeforePage
  <2>3. QED
    BY <1>8, <1>b, <1>n, <2>1, <2>2 DEF Stretch
<1>10. Fits(screen', all)
  BY <1>5, <1>9 DEF Fits
<1>11. /\ d.dir = "down" /\ d.page = page /\ d.pc = "sent" /\ d.total = -1 /\ d.filter = screen.filter
       /\ d.age = older
  BY <1>4 DEF Browsing!Down, Browsing!Ask
<1> HIDE DEF d
<1>12. Waits(screen', d, all)
  BY <1>5, <1>8, <1>11 DEF Waits
<1>13. \A c \in calls : c.age # older
  <2>1. ASSUME NEW c \in calls PROVE c.age # older
    <3>1. c.age <= screen.age /\ c.age \in Int
      BY DEF PagesInv, Typed, Browsing!TypeOK, Formed, Browsing!Call
    <3>2. QED
      BY <1>2, <1>o, <3>1
  <2>2. QED
    BY <2>1
<1>14. Waiting(screen', calls', all)
  BY <1>1, <1>5, <1>12, <1>13 DEF Waiting
<1>15. QED
  BY <1>3, <1>10, <1>14 DEF all

LEMMA SoundFilters ==
  ASSUME Browsing!GalleryConstants, PagesInv, NEW f \in Filters, f = screen'.filter, ~screen'.torn,
         NEW g \in Filters, Browsing!ApplyFilters(g)
  PROVE  Fits(screen', Browsing!Timeline(f)') /\ Waiting(screen', calls', Browsing!Timeline(f)')
<1> DEFINE all == Browsing!Timeline(f)
           older == screen.age + 1
           d == Browsing!Ask("years", 0, FALSE, screen')
<1>1. screen' = Browsing!Opened(g, older) /\ calls' = calls \cup {d} /\ UNCHANGED Browsing!rows
  BY DEF Browsing!ApplyFilters, Browsing!Send
<1>2. screen.age \in Nat
  BY DEF PagesInv, Typed, Browsing!TypeOK, Browsing!GalleryConstants, Browsing!Screen
<1>3. all' = all /\ all \in Seq(Browsing!PhotoIds)
  BY <1>1, SameTimeline, TimelineFacts
<1> HIDE DEF all
<1>4. screen'.age = older
  BY <1>1 DEF Browsing!Opened
<1>5. Fits(screen', all)
  BY <1>1, <1>3, OpenedFits
<1>6. Waits(screen', d, all) /\ d.dir \notin Pages
  BY YearsWait DEF Browsing!Ask, Pages
<1>7. \A c \in calls : c.age # older
  <2>1. ASSUME NEW c \in calls PROVE c.age # older
    <3>1. c.age <= screen.age /\ c.age \in Int
      BY DEF PagesInv, Typed, Browsing!TypeOK, Formed, Browsing!Call
    <3>2. QED
      BY <1>2, <3>1
  <2>2. QED
    BY <2>1
<1> HIDE DEF d, older
<1>8. Waiting(screen', calls', all)
  BY <1>1, <1>4, <1>6, <1>7 DEF Waiting
<1>9. QED
  BY <1>3, <1>5, <1>8 DEF all

LEMMA SoundDelete ==
  ASSUME Browsing!GalleryConstants, PagesInv, NEW f \in Filters, f = screen'.filter, ~screen'.torn,
         NEW p \in Browsing!PhotoIds, Browsing!Delete(p)
  PROVE  Fits(screen', Browsing!Timeline(f)') /\ Waiting(screen', calls', Browsing!Timeline(f)')
<1> DEFINE all == Browsing!Timeline(f)
           a == Browsing!Ask("delete", 0, FALSE, screen)
           d == [a EXCEPT !.items = <<p>>]
<1>1. calls' = calls \cup {d} /\ UNCHANGED Browsing!rows /\ UNCHANGED screen
      /\ p \in Browsing!ToSet(screen.shown)
  BY DEF Browsing!Delete, Browsing!Send
<1>2. all' = all
  BY <1>1, SameTimeline
<1>3. Fits(screen, all) /\ Waiting(screen, calls, all)
  BY <1>1 DEF PagesInv
<1> HIDE DEF all
<1>4. d.dir = "delete" /\ d.pc = "sent" /\ d.filter = screen.filter /\ d.items = <<p>>
  BY DEF Browsing!Ask
<1> HIDE DEF d
<1>5. Waits(screen, d, all) /\ d.dir \notin Pages
  BY <1>1, <1>4 DEF Waits, Pages
<1>6. Waiting(screen, calls', all)
  BY <1>1, <1>3, <1>5, WaitingJoined
<1>7. QED
  BY <1>1, <1>2, <1>3, <1>6 DEF all

\* A change of the library tears the timeline, leaves its listing alone, or finds it blank.
LEMMA BlankSound ==
  ASSUME Browsing!Blank, screen \in Browsing!Screen, NEW all, NEW other \in Seq(Browsing!PhotoIds),
         Fits(screen, all), Waiting(screen, calls, all)
  PROVE  Fits(screen, other) /\ Waiting(screen, calls, other)
<1>1. screen.shown = <<>> /\ screen.total = 0 /\ ~screen.done /\ screen.start \in Nat
      /\ \A c \in calls : c.age = screen.age => c.pc = "sent"
  BY DEF Browsing!Blank, Browsing!Stray, Browsing!Screen
<1>2. screen.start = 0
  <2>1. ASSUME screen.start # 0 PROVE FALSE
    <3>1. screen.start < Len(all) /\ screen.total = Len(all)
      BY <2>1 DEF Fits, Stretch
    <3>2. QED
      BY <1>1, <3>1
  <2>2. QED
    BY <2>1
<1>3. Fits(screen, other)
  <2>1. /\ screen.start = Before(screen.first)
        /\ screen.start + Len(screen.shown) = Before(screen.next)
    BY <1>1 DEF Fits, Stretch
  <2>2. QED
    BY <1>1, <1>2, <2>1, Zenon DEF Fits, Stretch
<1>4. ASSUME NEW c \in calls, c.age = screen.age PROVE Waits(screen, c, other)
  <2>1. Waits(screen, c, all) /\ c.pc = "sent"
    BY <1>1, <1>4 DEF Waiting
  <2>2. QED
    BY <2>1 DEF Waits
<1>5. Waiting(screen, calls, other)
  BY <1>4 DEF Waiting
<1>6. QED
  BY <1>3, <1>5

LEMMA ChangedSound ==
  ASSUME Browsing!GalleryConstants, PagesInv, NEW f \in Filters, f = screen'.filter, ~screen'.torn,
         Browsing!Changed
  PROVE  /\ screen' = screen /\ ~screen.torn
         /\ Fits(screen, Browsing!Timeline(f)') /\ Waiting(screen, calls, Browsing!Timeline(f)')
         /\ Browsing!Blank \/ Browsing!Timeline(f)' = Browsing!Timeline(f)
<1> DEFINE all == Browsing!Timeline(f)
           torn == screen.torn \/ (~Browsing!Blank /\ \E g \in {screen.filter} : Browsing!Timeline(g)' # Browsing!Timeline(g))
<1>1. screen \in Browsing!Screen /\ screen' = [screen EXCEPT !.torn = torn]
  <2>1. screen' = [screen EXCEPT !.torn = torn]
    BY Zenon DEF Browsing!Changed
  <2>2. QED
    BY <2>1 DEF PagesInv, Typed, Browsing!TypeOK
<1>t. torn <=> screen.torn \/ (~Browsing!Blank /\ \E g \in {screen.filter} : Browsing!Timeline(g)' # Browsing!Timeline(g))
  BY <1>1 DEF Browsing!Screen
<1>u. torn \in BOOLEAN
  BY <1>1 DEF Browsing!Screen
<1> HIDE DEF torn
<1>2. screen'.torn = torn /\ screen'.filter = screen.filter
  BY <1>1 DEF Browsing!Screen
<1>3. ~torn
  BY <1>2
<1>4. ~screen.torn /\ (Browsing!Blank \/ Browsing!Timeline(f)' = Browsing!Timeline(f))
  <2>1. f = screen.filter
    BY <1>2
  <2>2. QED
    BY <1>3, <1>t, <2>1
<1>5. screen' = screen
  <2>1. screen.torn = torn
    BY <1>1, <1>3, <1>4, <1>u DEF Browsing!Screen
  <2>2. QED
    BY <1>1, <2>1 DEF Browsing!Screen
<1>6. Fits(screen, all) /\ Waiting(screen, calls, all)
  BY <1>2, <1>4 DEF PagesInv
<1>7. Browsing!Timeline(f)' \in Seq(Browsing!PhotoIds)
  <2>1. (Browsing!Timeline(f) \in Seq(Browsing!PhotoIds))'
    BY TimelineFacts, PTL
  <2>2. QED
    BY <2>1
<1>8. Fits(screen, Browsing!Timeline(f)') /\ Waiting(screen, calls, Browsing!Timeline(f)')
  BY <1>1, <1>4, <1>6, <1>7, BlankSound
<1>9. QED
  BY <1>4, <1>5, <1>8

LEMMA ShownListed ==
  ASSUME Browsing!GalleryConstants, NEW f, NEW s, s.start \in Nat, s.shown \in Seq(Browsing!PhotoIds),
         Fits(s, Browsing!Timeline(f)), NEW p \in Browsing!ToSet(s.shown)
  PROVE  p \in Browsing!Listed(f) /\ s.shown # <<>>
<1> DEFINE all == Browsing!Timeline(f)
           start == s.start
           shown == s.shown
           e == start + Len(shown)
<1>1. all \in Seq(Browsing!PhotoIds) /\ Len(all) \in Nat
      /\ \A i \in 1..Len(all) : all[i] \in Browsing!Listed(f)
  BY TimelineFacts
<1>2. PICK i \in 1..Len(shown) : p = shown[i]
  BY DEF Browsing!ToSet
<1>3. shown # <<>>
  BY <1>2
<1>4. e <= Len(all) /\ shown = SubSeq(all, start + 1, e)
  BY <1>3 DEF Fits, Stretch
<1>5. start \in Nat /\ Len(shown) \in Nat /\ e \in Nat
  OBVIOUS
<1>6. e - (start + 1) + 1 = Len(shown)
  BY <1>5
<1> HIDE DEF all, start, shown
<1>7. \A j \in (start + 1)..e : all[j] \in Browsing!PhotoIds
  BY <1>1, <1>4, <1>5
<1>8. \A j \in 1..(e - (start + 1) + 1) : SubSeq(all, start + 1, e)[j] = all[start + 1 + j - 1]
  <2> HIDE DEF e
  <2>1. QED
    BY <1>1, <1>5, <1>7, SubSeqProperties
<1> HIDE DEF e
<1>9. shown[i] = all[start + 1 + i - 1]
  BY <1>4, <1>6, <1>8
<1>10. start + 1 + i - 1 \in 1..Len(all)
  BY <1>1, <1>4, <1>5 DEF e
<1>11. QED
  BY <1>1, <1>2, <1>3, <1>9, <1>10 DEF shown

LEMMA SoundServeDelete ==
  ASSUME Browsing!GalleryConstants, PagesInv, NEW f \in Filters, f = screen'.filter, ~screen'.torn,
         NEW c \in calls, Browsing!ServeDelete(c)
  PROVE  Fits(screen', Browsing!Timeline(f)') /\ Waiting(screen', calls', Browsing!Timeline(f)')
<1> DEFINE d == [c EXCEPT !.pc = "answered"]
<1>1. screen \in Browsing!Screen /\ c \in Browsing!Call /\ c.dir = "delete" /\ c.pc = "sent"
      /\ calls' = (calls \ {c}) \cup {d}
  BY DEF PagesInv, Typed, Browsing!TypeOK, Browsing!ServeDelete
<1>2. d.age = c.age /\ d.dir = c.dir
  BY <1>1 DEF Browsing!Call
<1> HIDE DEF d
<1>3. PICK p \in Browsing!ToSet(c.items) :
        \/ Browsing!Trash(p) /\ UNCHANGED veiled /\ Browsing!Changed
        \/ ~Browsing!Active(p) /\ UNCHANGED <<Browsing!rows, screen, changes>>
  BY DEF Browsing!ServeDelete
<1>4. /\ screen' = screen /\ ~screen.torn /\ f = screen.filter
      /\ Fits(screen, Browsing!Timeline(f)') /\ Waiting(screen, calls, Browsing!Timeline(f)')
  <2>1. CASE Browsing!Trash(p) /\ UNCHANGED veiled /\ Browsing!Changed
    BY <2>1, ChangedSound
  <2>2. CASE UNCHANGED <<Browsing!rows, screen, changes>>
    <3>1. Browsing!Timeline(f)' = Browsing!Timeline(f)
      BY <2>2, SameTimeline
    <3>2. QED
      BY <2>2, <3>1 DEF PagesInv
  <2>3. QED
    BY <1>3, <2>1, <2>2
<1>5. c.age # screen.age
  <2>1. SUFFICES ASSUME c.age = screen.age PROVE FALSE
    OBVIOUS
  <2>2. Fits(screen, Browsing!Timeline(f)) /\ Waiting(screen, calls, Browsing!Timeline(f))
    BY <1>4 DEF PagesInv
  <2>3. PICK q \in Browsing!ToSet(screen.shown) : c.items = <<q>>
    BY <1>1, <2>1, <2>2 DEF Waiting, Waits
  <2>4. p = q
    BY <2>3 DEF Browsing!ToSet
  <2>5. screen.start \in Nat /\ screen.shown \in Seq(Browsing!PhotoIds)
    BY <1>1 DEF Browsing!Screen
  <2>6. p \in Browsing!Listed(f) /\ screen.shown # <<>>
    BY <2>2, <2>3, <2>4, <2>5, ShownListed
  <2>7. Browsing!Active(p)
    BY <2>6 DEF Browsing!Listed
  <2>8. Browsing!Trash(p) /\ UNCHANGED veiled /\ Browsing!Changed
    BY <1>3, <2>7
  <2>9. Browsing!Timeline(f)' # Browsing!Timeline(f)
    BY <2>6, <2>8, TrashedLeaves DEF PagesInv, Typed
  <2>10. Browsing!Blank
    BY <2>8, <2>9, ChangedSound
  <2>11. QED
    BY <2>6, <2>10 DEF Browsing!Blank
<1>6. Waiting(screen, calls', Browsing!Timeline(f)')
  BY <1>1, <1>2, <1>4, <1>5, WaitingSwap
<1>7. QED
  BY <1>4, <1>6

LEMMA SoundEdit ==
  ASSUME Browsing!GalleryConstants, PagesInv, NEW f \in Filters, f = screen'.filter, ~screen'.torn,
         Browsing!Changed, UNCHANGED calls
  PROVE  Fits(screen', Browsing!Timeline(f)') /\ Waiting(screen', calls', Browsing!Timeline(f)')
  BY ChangedSound

LEMMA PagesInit == ASSUME Browsing!GalleryConstants, Browsing!Init PROVE PagesInv
<1>1. Typed
  BY TypedInit
<1>2. ASSUME NEW f \in Filters
      PROVE  Fits(screen, Browsing!Timeline(f)) /\ Waiting(screen, calls, Browsing!Timeline(f))
  <2> DEFINE all == Browsing!Timeline(f)
             d == Browsing!Ask("years", 0, FALSE, screen)
  <2>1. PICK g \in Filters : screen = Browsing!Opened(g, 0)
    BY DEF Browsing!Init
  <2>2. all \in Seq(Browsing!PhotoIds)
    BY TimelineFacts
  <2>3. calls = {d}
    BY DEF Browsing!Init
  <2> HIDE DEF all
  <2>4. Fits(screen, all)
    BY <2>1, <2>2, OpenedFits
  <2>5. Waits(screen, d, all)
    BY YearsWait
  <2> HIDE DEF d
  <2>6. Waiting(screen, calls, all)
    BY <2>3, <2>5 DEF Waiting
  <2>7. QED
    BY <2>4, <2>6 DEF all
<1>3. QED
  BY <1>1, <1>2 DEF PagesInv

LEMMA PagesStep == ASSUME Browsing!GalleryConstants, PagesInv, [Browsing!Next]_(Browsing!vars) PROVE PagesInv'
<1>1. Typed'
  BY TypedStep DEF PagesInv
<1>2. ASSUME NEW f \in Filters, f = screen'.filter, ~screen'.torn
      PROVE  Fits(screen', Browsing!Timeline(f)') /\ Waiting(screen', calls', Browsing!Timeline(f)')
  <2>1. CASE UNCHANGED Browsing!vars
    <3>1. UNCHANGED Browsing!rows /\ screen' = screen /\ calls' = calls
      BY <2>1 DEF Browsing!vars
    <3>2. Browsing!Timeline(f)' = Browsing!Timeline(f)
      BY <3>1, SameTimeline
    <3>3. QED
      BY <1>2, <3>1, <3>2 DEF PagesInv
  <2>2. CASE Browsing!Next
    <3>1. CASE Browsing!LoadNextPage \/ Browsing!LoadPrevPage
      BY <1>2, <3>1, SoundFetch
    <3>2. ASSUME NEW c \in calls,
                 \/ Browsing!Serve(c) \/ Browsing!NextPageArrives(c) \/ Browsing!PrevPageArrives(c) \/ Browsing!HistogramArrives(c)
                 \/ Browsing!FetchFails(c) \/ Browsing!ServeDelete(c) \/ Browsing!Removed(c)
          PROVE  Fits(screen', Browsing!Timeline(f)') /\ Waiting(screen', calls', Browsing!Timeline(f)')
      BY <1>2, <3>2, SoundServe, SoundNextPage, SoundPrevPage, SoundYears, SoundFailure,
         SoundServeDelete, SoundRemoved
    <3>3. ASSUME NEW page \in 1..MaxPhoto, Browsing!Jump(page)
          PROVE  Fits(screen', Browsing!Timeline(f)') /\ Waiting(screen', calls', Browsing!Timeline(f)')
      BY <1>2, <3>3, SoundJump
    <3>4. ASSUME NEW g \in Filters, Browsing!ApplyFilters(g)
          PROVE  Fits(screen', Browsing!Timeline(f)') /\ Waiting(screen', calls', Browsing!Timeline(f)')
      BY <1>2, <3>4, SoundFilters
    <3>5. ASSUME NEW p \in Browsing!PhotoIds, Browsing!Delete(p) \/ Browsing!Edit(p)
          PROVE  Fits(screen', Browsing!Timeline(f)') /\ Waiting(screen', calls', Browsing!Timeline(f)')
      <4>1. Browsing!Edit(p) => Browsing!Changed /\ UNCHANGED calls
        BY DEF Browsing!Edit
      <4>2. QED
        BY <1>2, <3>5, <4>1, SoundDelete, SoundEdit
    <3>6. ASSUME NEW r \in Browsing!Roots, Browsing!SetRootAcl(r)
          PROVE  Fits(screen', Browsing!Timeline(f)') /\ Waiting(screen', calls', Browsing!Timeline(f)')
      <4>1. Browsing!Changed /\ UNCHANGED calls
        BY <3>6 DEF Browsing!SetRootAcl
      <4>2. QED
        BY <1>2, <4>1, SoundEdit
    <3>7. QED
      BY <2>2, <3>1, <3>2, <3>3, <3>4, <3>5, <3>6 DEF Browsing!Next
  <2>3. QED
    BY <2>1, <2>2
<1>3. QED
  BY <1>1, <1>2 DEF PagesInv

\* What is shown is a stretch of the listing.
LEMMA PagesSuffice == ASSUME PagesInv PROVE Browsing!PagesAgree /\ Browsing!TypeOK
<1>1. Browsing!TypeOK /\ screen.filter \in Filters
  BY DEF PagesInv, Typed, Browsing!TypeOK, Browsing!Screen
<1>2. ASSUME ~screen.torn PROVE Fits(screen, Browsing!Timeline(screen.filter))
  BY <1>1, <1>2 DEF PagesInv
<1>3. Browsing!PagesAgree
  BY <1>2 DEF Browsing!PagesAgree, Fits, Stretch
<1>4. QED
  BY <1>1, <1>3

\* The timeline fits the listing, as far as it has been fetched, and the fetches under
\* way fit it too: type correctness and PagesInv, for any library, filters and pages.
THEOREM PagesKeep ==
  ASSUME Browsing!GalleryConstants
  PROVE  Browsing!Spec => []PagesInv
<1>1. Browsing!Init => PagesInv
  BY PagesInit
<1>2. PagesInv /\ [Browsing!Next]_(Browsing!vars) => PagesInv'
  BY PagesStep
<1>3. QED
  BY <1>1, <1>2, PTL DEF Browsing!Spec

\* What is shown is one stretch of the listing.
THEOREM PagesRight ==
  ASSUME Browsing!GalleryConstants
  PROVE  Browsing!Spec => []Browsing!PagesAgree
<1>1. PagesInv => Browsing!PagesAgree
  BY PagesSuffice
<1>2. QED
  BY <1>1, PagesKeep, PTL

-------------------------------------------------------------------------------
(***************************************************************************)
(* The counts.  The answers of the endpoints are sets of rows, or numbers  *)
(* of them: each agreement is one of sets, a sum over the parts of a set,  *)
(* or a division that finds the cell an average lies in.                   *)
(***************************************************************************)
\* A number is in one cell, and the cell is found by division.
LEMMA Divided ==
  ASSUME NEW x \in Nat, NEW c \in Nat \ {0}
  PROVE  /\ (x \div c) * c \in Nat
         /\ (x \div c) * c <= x /\ x < (x \div c) * c + c
         /\ \A y \in Nat : (x \div c) * c <= y /\ y < (x \div c) * c + c => (y \div c) * c = (x \div c) * c
  OBVIOUS

\* The average is between the bounds.
LEMMA Averaged ==
  ASSUME NEW n \in Nat \ {0}, NEW sum \in Nat, NEW lo \in Nat, NEW hi \in Nat,
         n * lo <= sum, sum <= n * hi
  PROVE  sum \div n \in Nat /\ lo <= sum \div n /\ sum \div n <= hi
<1> DEFINE q == sum \div n
<1>1. q \in Nat /\ n * q <= sum /\ sum < n * q + n
  BY Divided
<1> HIDE DEF q
<1>2. lo <= q
  <2>1. SUFFICES ASSUME q + 1 <= lo PROVE FALSE
    BY <1>1
  <2>2. n * (q + 1) <= n * lo
    BY <1>1, <2>1
  <2>3. n * (q + 1) = n * q + n
    BY <1>1
  <2>4. QED
    BY <1>1, <2>2, <2>3
<1>3. q <= hi
  <2>1. SUFFICES ASSUME hi + 1 <= q PROVE FALSE
    BY <1>1
  <2>2. n * (hi + 1) <= n * q
    BY <1>1, <2>1
  <2>3. n * (hi + 1) = n * hi + n
    OBVIOUS
  <2>4. QED
    BY <1>1, <2>2, <2>3
<1>4. QED
  BY <1>1, <1>2, <1>3 DEF q

\* A function of the sets of photos that grows by the place of a photo with that photo is
\* the sum of the places.
LEMMA PlacesFold ==
  ASSUME NEW S, Browsing!IsFiniteSet(S), NEW g \in [SUBSET S -> Nat], g[{}] = 0,
         \A s \in SUBSET S : \A x \in s : table[x].place \in Nat /\ g[s] = table[x].place + g[s \ {x}]
  PROVE  Browsing!FoldSet(LAMBDA p, sum : sum + table[p].place, 0, S) = g[S]
<1> DEFINE pick(s) == CHOOSE x \in s : TRUE
           Solves(iter) == iter = [s \in SUBSET S |-> IF s = {} THEN 0 ELSE iter[s \ {pick(s)}] + table[pick(s)].place]
           it == CHOOSE iter : Solves(iter)
<1>1. Browsing!FoldSet(LAMBDA p, sum : sum + table[p].place, 0, S) = it[S]
  BY Zenon DEF Browsing!FoldSet, Browsing!MapThenFoldSet
<1>2. \A s : s # {} => pick(s) \in s
  OBVIOUS
<1> HIDE DEF pick
<1>3. Solves(g)
  <2>1. ASSUME NEW s \in SUBSET S
        PROVE  g[s] = IF s = {} THEN 0 ELSE g[s \ {pick(s)}] + table[pick(s)].place
    <3>1. CASE s = {}
      BY <3>1
    <3>2. CASE s # {}
      <4>1. pick(s) \in s /\ s \ {pick(s)} \in SUBSET S
        BY <1>2, <3>2
      <4>2. g[s \ {pick(s)}] \in Nat
        BY <4>1
      <4>3. table[pick(s)].place \in Nat /\ g[s] = table[pick(s)].place + g[s \ {pick(s)}]
        BY <4>1
      <4>4. QED
        BY <3>2, <4>2, <4>3
    <3>3. QED
      BY <3>1, <3>2
  <2>2. g = [s \in SUBSET S |-> g[s]]
    OBVIOUS
  <2>3. QED
    BY <2>1, <2>2
<1>4. Solves(it)
  BY <1>3
<1> HIDE DEF it
<1>5. \A s \in SUBSET S : it[s] = IF s = {} THEN 0 ELSE it[s \ {pick(s)}] + table[pick(s)].place
  BY <1>4
<1> HIDE DEF Solves
<1> DEFINE Wrong == {s \in SUBSET S : it[s] # g[s]}
<1>6. Wrong = {}
  <2>1. SUFFICES ASSUME Wrong # {} PROVE FALSE
    OBVIOUS
  <2>2. \A s \in SUBSET S : Browsing!IsFiniteSet(s) /\ Browsing!Cardinality(s) \in Nat
    BY FS_Subset, FS_CardinalityType, SameSizes
  <2> DEFINE Sizes == {Browsing!Cardinality(s) : s \in Wrong}
  <2>3. Sizes \in SUBSET Nat /\ Sizes # {}
    BY <2>1, <2>2
  <2>4. PICK n \in Sizes : \A m \in Sizes : n <= m
    BY <2>3, LeastNat
  <2>5. PICK s \in Wrong : n = Browsing!Cardinality(s)
    BY <2>4
  <2>6. s \in SUBSET S /\ it[s] # g[s]
    BY <2>5
  <2>7. s # {}
    BY <1>5, <2>6
  <2> DEFINE x == pick(s)
             r == s \ {x}
  <2>8. x \in s /\ r \in SUBSET S
    BY <1>2, <2>6, <2>7
  <2>9. Browsing!Cardinality(r) = Browsing!Cardinality(s) - 1 /\ Browsing!Cardinality(s) \in Nat
    BY <2>2, <2>6, <2>8, FS_RemoveElement, SameSizes
  <2>10. it[r] = g[r]
    <3>1. SUFFICES ASSUME it[r] # g[r] PROVE FALSE
      OBVIOUS
    <3>2. r \in Wrong
      BY <2>8, <3>1
    <3>3. Browsing!Cardinality(s) <= Browsing!Cardinality(r)
      BY <2>4, <2>5, <3>2
    <3>4. QED
      BY <2>9, <3>3
  <2>11. it[s] = it[r] + table[x].place /\ g[s] = table[x].place + g[r] /\ table[x].place \in Nat /\ g[r] \in Nat
    BY <1>5, <2>6, <2>7, <2>8
  <2>12. QED
    BY <2>6, <2>10, <2>11
<1>7. it[S] = g[S]
  BY <1>6
<1>8. QED
  BY <1>1, <1>7

\* The places of some photos add up to at least the least of them, and at most the largest,
\* times their number: each photo has as many units as its place is far.
LEMMA SumBetween ==
  ASSUME NEW S, Browsing!IsFiniteSet(S), NEW lo \in Nat, NEW hi \in Nat,
         \A p \in S : table[p].place \in Nat /\ lo <= table[p].place /\ table[p].place <= hi
  PROVE  LET sum == Browsing!FoldSet(LAMBDA p, sum : sum + table[p].place, 0, S)
         IN  sum \in Nat /\ Browsing!Cardinality(S) * lo <= sum /\ sum <= Browsing!Cardinality(S) * hi
<1> DEFINE Units(T) == {w \in S \X (1..hi) : w[1] \in T /\ w[2] <= table[w[1]].place}
           g == [T \in SUBSET S |-> Browsing!Cardinality(Units(T))]
<1>1. Browsing!IsFiniteSet(1..hi) /\ Browsing!Cardinality(1..hi) = hi
  <2>1. Browsing!IsFiniteSet(1..hi) /\ Browsing!Cardinality(1..hi) = IF 1 > hi THEN 0 ELSE hi - 1 + 1
    BY FS_Interval, SameSizes
  <2>2. QED
    BY <2>1
<1>2. Browsing!IsFiniteSet(S \X (1..hi)) /\ Browsing!Cardinality(S \X (1..hi)) = Browsing!Cardinality(S) * hi
  BY <1>1, FS_Product, SameSizes
<1>3. \A T : Browsing!IsFiniteSet(Units(T)) /\ Browsing!Cardinality(Units(T)) \in Nat /\ Browsing!Cardinality(Units(T)) <= Browsing!Cardinality(S) * hi
  <2>1. \A T : Units(T) \in SUBSET (S \X (1..hi))
    OBVIOUS
  <2> HIDE DEF Units
  <2>2. QED
    BY <1>2, <2>1, FS_Subset, FS_CardinalityType, SameSizes
<1>4. g \in [SUBSET S -> Nat]
  BY <1>3
<1>5. g[{}] = 0
  <2>1. Units({}) = {}
    OBVIOUS
  <2>2. g[{}] = Browsing!Cardinality(Units({}))
    OBVIOUS
  <2>3. QED
    BY <2>1, <2>2, FS_EmptySet, SameSizes
<1>6. ASSUME NEW T \in SUBSET S, NEW x \in T
      PROVE  table[x].place \in Nat /\ g[T] = table[x].place + g[T \ {x}]
  <2> DEFINE A == Units({x})
             B == Units(T \ {x})
             n == table[x].place
  <2>1. Units(T) = A \cup B /\ A \cap B = {}
    OBVIOUS
  <2>2. A = {x} \X (1..n)
    OBVIOUS
  <2>3. Browsing!IsFiniteSet(1..n) /\ Browsing!Cardinality(1..n) = n /\ n \in Nat
    <3>1. n \in Nat
      OBVIOUS
    <3> HIDE DEF n
    <3>2. Browsing!IsFiniteSet(1..n) /\ Browsing!Cardinality(1..n) = IF 1 > n THEN 0 ELSE n - 1 + 1
      BY <3>1, FS_Interval, SameSizes
    <3>3. QED
      BY <3>1, <3>2
  <2>4. Browsing!IsFiniteSet({x}) /\ Browsing!Cardinality({x}) = 1
    BY FS_Singleton, SameSizes
  <2>5. Browsing!Cardinality(A) = n
    <3> HIDE DEF A, n
    <3>1. Browsing!Cardinality({x} \X (1..n)) = Browsing!Cardinality({x}) * Browsing!Cardinality(1..n)
      BY <2>3, <2>4, FS_Product, SameSizes
    <3>2. QED
      BY <2>2, <2>3, <2>4, <3>1
  <2>6. Browsing!IsFiniteSet(A) /\ Browsing!IsFiniteSet(B) /\ Browsing!Cardinality(B) \in Nat
    BY <1>3
  <2>7. Browsing!Cardinality(Units(T)) = n + Browsing!Cardinality(B)
    <3> HIDE DEF A, B, n, Units
    <3>1. Browsing!Cardinality(A \cup B) = Browsing!Cardinality(A) + Browsing!Cardinality(B) - Browsing!Cardinality(A \cap B)
      BY <2>6, FS_Union, SameSizes
    <3>2. Browsing!Cardinality({}) = 0
      BY FS_EmptySet, SameSizes
    <3>3. Browsing!Cardinality(A \cup B) = n + Browsing!Cardinality(B) - 0
      BY <2>1, <2>5, <3>1, <3>2
    <3>4. n \in Nat
      BY <2>3
    <3>5. Browsing!Cardinality(A \cup B) = n + Browsing!Cardinality(B)
      BY <2>6, <3>3, <3>4
    <3>6. QED
      BY <2>1, <3>5
  <2>8. g[T] = Browsing!Cardinality(Units(T)) /\ g[T \ {x}] = Browsing!Cardinality(B)
    OBVIOUS
  <2> HIDE DEF g, Units, B
  <2>9. QED
    BY <2>3, <2>7, <2>8
<1>7. Browsing!FoldSet(LAMBDA p, sum : sum + table[p].place, 0, S) = g[S]
  <2> HIDE DEF g
  <2>1. QED
    BY <1>4, <1>5, <1>6, PlacesFold
<1>8. Browsing!Cardinality(S) * lo <= g[S]
  <2>1. Browsing!IsFiniteSet(1..lo) /\ Browsing!Cardinality(1..lo) = lo
    <3>1. Browsing!IsFiniteSet(1..lo) /\ Browsing!Cardinality(1..lo) = IF 1 > lo THEN 0 ELSE lo - 1 + 1
      BY FS_Interval, SameSizes
    <3>2. QED
      BY <3>1
  <2>2. Browsing!Cardinality(S \X (1..lo)) = Browsing!Cardinality(S) * lo
    BY <2>1, FS_Product, SameSizes
  <2>3. S \X (1..lo) \in SUBSET Units(S)
    OBVIOUS
  <2>4. g[S] = Browsing!Cardinality(Units(S))
    OBVIOUS
  <2> HIDE DEF g, Units
  <2>5. Browsing!Cardinality(S \X (1..lo)) <= Browsing!Cardinality(Units(S))
    BY <1>3, <2>3, FS_Subset, SameSizes
  <2>6. QED
    BY <2>2, <2>4, <2>5
<1>9. g[S] \in Nat /\ g[S] <= Browsing!Cardinality(S) * hi
  BY <1>3
<1>10. QED
  BY <1>7, <1>8, <1>9

\* The tables are rows of the photos.
TablesTyped == table \in [Browsing!PhotoIds -> Browsing!Row] /\ veiled \subseteq Browsing!Roots

LEMMA PhotosFinite ==
  ASSUME Browsing!GalleryConstants
  PROVE  /\ Browsing!IsFiniteSet(Browsing!PhotoIds)
         /\ \A S \in SUBSET Browsing!PhotoIds : Browsing!IsFiniteSet(S) /\ Browsing!Cardinality(S) \in Nat
<1>1. Browsing!IsFiniteSet(Browsing!PhotoIds)
  BY FS_Interval, SameSizes DEF Browsing!GalleryConstants, Browsing!PhotoIds
<1>2. QED
  BY <1>1, FS_Subset, FS_CardinalityType, SameSizes

LEMMA YearsAgree ==
  ASSUME Browsing!GalleryConstants, TablesTyped, NEW f \in Browsing!Filter PROVE Browsing!YearsFit(f)
<1>1. ASSUME NEW y \in Browsing!Years, f.year = Browsing!Years
      PROVE  Browsing!Histogram(f)[y] = Browsing!Cardinality(Browsing!Listed([f EXCEPT !.year = {y}]))
  <2> DEFINE g == [f EXCEPT !.year = {y}]
             Bar == {p \in {q \in Browsing!PhotoIds : Browsing!Active(q) /\ Browsing!Search(f, q)} :
                       Browsing!Active(p) /\ Browsing!Visible(p) /\ Browsing!Scalar(f, p) /\ Origin[p].year = y}
  <2>1. /\ g.root = f.root /\ g.folder = f.folder /\ g.live = f.live /\ g.year = {y}
        /\ g.owner = f.owner /\ g.gps = f.gps /\ g.text = f.text /\ g.tag = f.tag
    BY DEF Browsing!Filter
  <2>2. \A p \in Browsing!PhotoIds : Origin[p].year \in Browsing!Years
    BY DEF Browsing!Years
  <2>3. Browsing!Histogram(f)[y] = Browsing!Cardinality(Bar)
    BY <1>1 DEF Browsing!Histogram
  <2> HIDE DEF g
  <2>4. Bar = Browsing!Listed(g)
    BY <1>1, <2>1, <2>2 DEF Browsing!Listed, Browsing!Scalar, Browsing!Search
  <2> HIDE DEF Bar
  <2>5. QED
    BY <2>3, <2>4 DEF g
<1>2. QED
  BY <1>1, YearsSum DEF Browsing!YearsFit

LEMMA MapAgrees ==
  ASSUME Browsing!GalleryConstants, TablesTyped, NEW f \in Browsing!Filter PROVE Browsing!MapFits(f)
<1> DEFINE here == Browsing!Mapped(f)
<1>1. here \in SUBSET Browsing!PhotoIds /\ \A p \in here : table[p].place \in Nat
  BY DEF TablesTyped, Browsing!Row, Browsing!Mapped, Browsing!Located
<1>2. ASSUME NEW zoom \in 0..MaxZoom, NEW b \in Browsing!Bubbles(f, zoom, Nat)
      PROVE  \A limit \in {CellLimit, Browsing!Min({CellLimit, Browsing!Cardinality(b.photos)})} :
               LET opened == Browsing!InCell(f, zoom, Browsing!Centre(b), limit)
               IN /\ Browsing!FitsIn(b.photos, opened, limit)
                  /\ \A p \in opened \ b.photos : table[p].place = b.bin + Browsing!Cell(zoom)
  <2> DEFINE c == Browsing!Cell(zoom)
             photos == {p \in here : Browsing!Bin(zoom, table[p].place) = b.bin}
             hi == b.bin + c - 1
             sum == Browsing!FoldSet(LAMBDA p, sum : sum + table[p].place, 0, b.photos)
             n == Browsing!Cardinality(b.photos)
  <2>1. c \in Nat \ {0}
    BY DEF Browsing!GalleryConstants
  <2>2. PICK p0 \in here : b = [bin |-> Browsing!Bin(zoom, table[p0].place), photos |-> b.photos]
                            /\ b.bin = Browsing!Bin(zoom, table[p0].place) /\ b.photos = photos
    <3>1. PICK x \in {Browsing!Bin(zoom, table[p].place) : p \in {p \in Browsing!Mapped(f) : table[p].place \in Nat}} :
            b = [bin |-> x, photos |-> {p \in {p \in Browsing!Mapped(f) : table[p].place \in Nat} :
                                          Browsing!Bin(zoom, table[p].place) = x}]
      BY Zenon DEF Browsing!Bubbles
    <3>2. {p \in Browsing!Mapped(f) : table[p].place \in Nat} = here
      BY <1>1
    <3>3. QED
      BY <3>1, <3>2
  <2> HIDE DEF c, here
  <2>3. \A x \in Nat : Browsing!Bin(zoom, x) \in Nat /\ Browsing!Bin(zoom, x) <= x /\ x < Browsing!Bin(zoom, x) + c
    BY <2>1, Divided DEF Browsing!Bin, c
  <2>4. b.bin \in Nat /\ p0 \in b.photos
    BY <1>1, <2>2, <2>3
  <2>5. \A p \in b.photos : table[p].place \in Nat /\ b.bin <= table[p].place /\ table[p].place <= hi
    BY <1>1, <2>1, <2>2, <2>3, <2>4
  <2>6. Browsing!IsFiniteSet(b.photos) /\ n \in Nat /\ n # 0
    <3>1. b.photos \in SUBSET Browsing!PhotoIds
      BY <1>1, <2>2
    <3>2. Browsing!IsFiniteSet(b.photos) /\ n \in Nat
      BY <3>1, PhotosFinite
    <3>3. QED
      BY <2>4, <3>2, FS_EmptySet, SameSizes
  <2>7. hi \in Nat
    BY <2>1, <2>4
  <2>8. sum \in Nat /\ n * b.bin <= sum /\ sum <= n * hi
    BY <2>4, <2>5, <2>6, <2>7, SumBetween
  <2>9. Browsing!Centre(b) = sum \div n
    BY Zenon DEF Browsing!Centre
  <2>10. Browsing!Centre(b) \in Nat /\ b.bin <= Browsing!Centre(b) /\ Browsing!Centre(b) <= hi
    <3> HIDE DEF sum, n, hi
    <3>1. n \in Nat \ {0}
      BY <2>6
    <3>2. QED
      BY <2>4, <2>7, <2>8, <2>9, <3>1, Averaged
  <2>11. Browsing!Bin(zoom, Browsing!Centre(b)) = b.bin
    <3>1. b.bin = (table[p0].place \div c) * c /\ Browsing!Bin(zoom, Browsing!Centre(b)) = (Browsing!Centre(b) \div c) * c
      BY <2>2 DEF Browsing!Bin, c
    <3>2. table[p0].place \in Nat
      BY <1>1
    <3>3. b.bin <= Browsing!Centre(b) /\ Browsing!Centre(b) < b.bin + c
      BY <2>1, <2>4, <2>10
    <3>4. QED
      BY <2>1, <2>10, <3>1, <3>2, <3>3, Divided
  <2> DEFINE at == Browsing!AtCell(f, zoom, Browsing!Centre(b))
  <2>12. at = {p \in here : table[p].place \in b.bin..(b.bin + c)}
    BY <2>11 DEF Browsing!AtCell, c, here
  <2> HIDE DEF at
  <2>13. b.photos \subseteq at /\ at \in SUBSET Browsing!PhotoIds
    BY <1>1, <2>1, <2>2, <2>4, <2>5, <2>12
  <2>14. ASSUME NEW p \in at \ b.photos PROVE table[p].place = b.bin + c
    <3>1. p \in here /\ table[p].place \in Nat /\ b.bin <= table[p].place /\ table[p].place <= b.bin + c
      BY <1>1, <2>1, <2>4, <2>12, <2>14
    <3>2. Browsing!Bin(zoom, table[p].place) # b.bin
      BY <2>2, <2>14, <3>1
    <3>3. SUFFICES ASSUME table[p].place < b.bin + c PROVE FALSE
      BY <2>1, <2>4, <3>1
    <3>4. b.bin = (table[p0].place \div c) * c /\ Browsing!Bin(zoom, table[p].place) = (table[p].place \div c) * c
      BY <2>2 DEF Browsing!Bin, c
    <3>5. table[p0].place \in Nat
      BY <1>1
    <3>6. QED
      BY <2>1, <3>1, <3>2, <3>3, <3>4, <3>5, Divided
  <2>15. ASSUME NEW limit \in {CellLimit, Browsing!Min({CellLimit, n})}
         PROVE  /\ Browsing!FitsIn(b.photos, Browsing!InCell(f, zoom, Browsing!Centre(b), limit), limit)
                /\ \A p \in Browsing!InCell(f, zoom, Browsing!Centre(b), limit) \ b.photos : table[p].place = b.bin + c
    <3>1. limit \in Nat
      <4> HIDE DEF n
      <4>1. CellLimit \in Nat
        BY DEF Browsing!GalleryConstants
      <4>2. Browsing!Min({CellLimit, n}) \in {CellLimit, n}
        BY <2>6, <4>1, Smaller
      <4>3. QED
        BY <2>6, <2>15, <4>1, <4>2
    <3>2. Browsing!InCell(f, zoom, Browsing!Centre(b), limit) = Browsing!First(at, limit)
      BY DEF Browsing!InCell, at
    <3>3. /\ Browsing!First(at, limit) \in SUBSET at
          /\ Browsing!FitsIn(b.photos, Browsing!First(at, limit), limit)
      BY <2>13, <3>1, FirstFits
    <3>4. QED
      BY <2>14, <3>2, <3>3
  <2> HIDE DEF n
  <2>16. QED
    BY <2>15, Zenon DEF c, n
<1>3. Browsing!Mapped(f) = {p \in Browsing!Listed([f EXCEPT !.live = TRUE]) : Browsing!Located(p) /\ table[p].thumb}
  <2> DEFINE g == [f EXCEPT !.live = TRUE]
  <2>1. g.tag = f.tag
    BY DEF Browsing!Filter
  <2> HIDE DEF g
  <2>2. \A p : Browsing!Search(g, p) <=> Browsing!Search(f, p)
    BY <2>1 DEF Browsing!Search
  <2>3. Browsing!Mapped(f) = {p \in Browsing!PhotoIds : /\ Browsing!Located(p) /\ Browsing!Active(p) /\ table[p].thumb /\ Browsing!Visible(p)
                                                         /\ Browsing!Scalar(g, p) /\ Browsing!Search(f, p)}
    BY DEF Browsing!Mapped, g
  <2>4. Browsing!Mapped(f) = {p \in Browsing!Listed(g) : Browsing!Located(p) /\ table[p].thumb}
    BY <2>2, <2>3 DEF Browsing!Listed
  <2>5. QED
    BY <2>4 DEF g
<1>4. ASSUME NEW box \in Browsing!InitialBoxes(f) PROVE Browsing!Bubbles(f, 0, box) # {}
  <2>1. PICK x \in {table[p].place : p \in here} : box = (x - Margin)..(x + Margin)
    BY DEF Browsing!InitialBoxes
  <2>2. PICK p \in here : x = table[p].place
    BY <2>1
  <2>3. table[p].place \in box
    BY <1>1, <2>1, <2>2 DEF Browsing!GalleryConstants
  <2>4. p \in {q \in Browsing!Mapped(f) : table[q].place \in box}
    BY <2>3
  <2> DEFINE inBox == {q \in Browsing!Mapped(f) : table[q].place \in box}
             bubble == [bin |-> Browsing!Bin(0, table[p].place),
                        photos |-> {q \in inBox : Browsing!Bin(0, table[q].place) = Browsing!Bin(0, table[p].place)}]
  <2>5. bubble \in Browsing!Bubbles(f, 0, box)
    BY <2>4, Zenon DEF Browsing!Bubbles
  <2>6. QED
    BY <2>5
<1>5. ASSUME NEW S \in Browsing!Markers(f)
      PROVE  /\ S \subseteq Browsing!Mapped([f EXCEPT !.gps = Browsing!All, !.text = Browsing!All])
             /\ f.gps # "none" /\ f.text = Browsing!All /\ Browsing!Cardinality(here) <= MarkerLimit => S = here
  <2> DEFINE h == [f EXCEPT !.gps = Browsing!All, !.text = Browsing!All]
             marked == Browsing!Marked(f)
             g == [f EXCEPT !.live = TRUE]
             k == [h EXCEPT !.live = TRUE]
  <2>1. /\ S \in SUBSET marked
        /\ Browsing!Cardinality(S) = Browsing!Min({MarkerLimit, Browsing!Cardinality(marked)})
    BY Zenon DEF Browsing!Markers
  <2>2. /\ k.root = f.root /\ k.folder = f.folder /\ k.live = TRUE /\ k.year = f.year
        /\ k.owner = f.owner /\ k.gps = Browsing!All /\ k.text = Browsing!All /\ h.tag = f.tag
    BY DEF Browsing!Filter
  <2>3. /\ g.root = f.root /\ g.folder = f.folder /\ g.live = TRUE /\ g.year = f.year
        /\ g.owner = f.owner /\ g.gps = f.gps /\ g.text = f.text
    BY DEF Browsing!Filter
  <2>4. Browsing!Mapped(h) = {p \in Browsing!PhotoIds :
          /\ Browsing!Located(p) /\ Browsing!Active(p) /\ table[p].thumb /\ Browsing!Visible(p)
          /\ Browsing!Scalar(k, p) /\ Browsing!Search(h, p)}
    BY DEF Browsing!Mapped
  <2>5. here = {p \in Browsing!PhotoIds :
          /\ Browsing!Located(p) /\ Browsing!Active(p) /\ table[p].thumb /\ Browsing!Visible(p)
          /\ Browsing!Scalar(g, p) /\ Browsing!Search(f, p)}
    BY DEF Browsing!Mapped
  <2> HIDE DEF h, k, g, here
  <2>6. marked \subseteq Browsing!Mapped(h)
    BY <2>2, <2>4 DEF Browsing!Marked, Browsing!Scalar, Browsing!Search
  <2>7. ASSUME f.gps # "none", f.text = Browsing!All PROVE marked = here
    <3>1. f.gps = Browsing!All \/ f.gps = "some"
      BY <2>7 DEF Browsing!Filter
    <3>2. \A p : Browsing!Located(p) =>
            (Browsing!Scalar(g, p) <=> /\ Origin[p].root \in f.root /\ Browsing!IsPrefix(f.folder, Origin[p].folder)
                                       /\ Origin[p].owner \in f.owner /\ Origin[p].year \in f.year)
      BY <2>3, <2>7, <3>1 DEF Browsing!Scalar
    <3>3. QED
      BY <2>5, <3>2 DEF Browsing!Marked
  <2>8. ASSUME marked = here, Browsing!Cardinality(here) <= MarkerLimit PROVE S = here
    <3>1. Browsing!IsFiniteSet(here) /\ Browsing!Cardinality(here) \in Nat /\ MarkerLimit \in Nat
      BY <1>1, PhotosFinite DEF Browsing!GalleryConstants
    <3>2. Browsing!Min({MarkerLimit, Browsing!Cardinality(here)}) = Browsing!Cardinality(here)
      <4> DEFINE m == Browsing!Cardinality(here)
      <4> HIDE DEF m
      <4>1. QED
        BY <2>8, <3>1, Smaller DEF m
    <3>3. Browsing!Cardinality(S) = Browsing!Cardinality(here)
      BY <2>1, <2>8, <3>2
    <3>4. QED
      BY <2>1, <2>8, <3>1, <3>3, FS_Subset, SameSizes
  <2>9. QED
    BY <2>1, <2>6, <2>7, <2>8 DEF h
<1>6. ASSUME NEW p \in here PROVE Browsing!FitsIn({p}, Browsing!Nearby(p), NearbyLimit)
  <2>1. Browsing!Around(p) \in SUBSET Browsing!PhotoIds
    BY DEF Browsing!Around, Browsing!Mapped
  <2>2. p \in Browsing!Around(p)
    <3> DEFINE none == [Browsing!NoFilter EXCEPT !.live = TRUE]
    <3>1. /\ none.root = Browsing!Roots /\ none.folder = <<>> /\ none.live = TRUE /\ none.year = Browsing!Years
          /\ none.owner = Browsing!Uploaders /\ none.gps = Browsing!All /\ none.text = Browsing!All
          /\ Browsing!NoFilter.tag = Browsing!All
      BY DEF Browsing!NoFilter
    <3>2. Browsing!Mapped(Browsing!NoFilter) = {q \in Browsing!PhotoIds :
            /\ Browsing!Located(q) /\ Browsing!Active(q) /\ table[q].thumb /\ Browsing!Visible(q)
            /\ Browsing!Scalar(none, q) /\ Browsing!Search(Browsing!NoFilter, q)}
      BY DEF Browsing!Mapped
    <3> HIDE DEF none
    <3>3. p \in Browsing!PhotoIds /\ Browsing!Located(p) /\ Browsing!Active(p) /\ table[p].thumb /\ Browsing!Visible(p)
      BY DEF Browsing!Mapped
    <3>4. /\ Origin[p].root \in Browsing!Roots /\ Origin[p].year \in Browsing!Years
          /\ Origin[p].owner \in Browsing!Uploaders /\ Browsing!IsPrefix(<<>>, Origin[p].folder)
      BY <3>3 DEF Browsing!Roots, Browsing!Years, Browsing!Uploaders, Browsing!IsPrefix, Browsing!GalleryConstants
    <3>5. p \in Browsing!Mapped(Browsing!NoFilter)
      BY <3>1, <3>2, <3>3, <3>4 DEF Browsing!Scalar, Browsing!Search
    <3>6. table[p].place \in Nat /\ Margin \in Nat
      BY <1>1 DEF Browsing!GalleryConstants
    <3>7. QED
      BY <3>5, <3>6 DEF Browsing!Around
  <2>3. NearbyLimit \in Nat
    BY DEF Browsing!GalleryConstants
  <2>4. {p} \in SUBSET Browsing!Around(p)
    BY <2>2
  <2>5. QED
    BY <2>1, <2>3, <2>4, FirstFits DEF Browsing!Nearby
<1> HIDE DEF here
<1>7. QED
  BY <1>2, <1>3, <1>4, <1>5, <1>6, Zenon DEF Browsing!MapFits, here

LEMMA CountsFitTogether ==
  ASSUME Browsing!GalleryConstants, TablesTyped, NEW f \in Browsing!Filter PROVE Browsing!CountsFit(f)
<1> DEFINE all == [f EXCEPT !.live = TRUE]
           everything == [Browsing!NoFilter EXCEPT !.live = TRUE]
           plain == {p \in Browsing!PhotoIds : table[p].vis = "inherit"}
<1>1. \A p \in Browsing!PhotoIds : Origin[p].root \in Browsing!Roots /\ Origin[p].year \in Browsing!Years /\ Origin[p].owner \in Browsing!Uploaders
  BY DEF Browsing!Roots, Browsing!Years, Browsing!Uploaders
<1>2. \A p \in Browsing!PhotoIds : Browsing!IsPrefix(<<>>, Origin[p].folder)
  BY DEF Browsing!IsPrefix, Browsing!GalleryConstants
<1>3. ASSUME NEW u \in Browsing!Uploaders PROVE Browsing!UploadedBy(u) = Browsing!Listed([everything EXCEPT !.owner = {u}])
  <2> DEFINE g == [everything EXCEPT !.owner = {u}]
  <2>1. /\ g.root = Browsing!Roots /\ g.folder = <<>> /\ g.live = TRUE /\ g.year = Browsing!Years
        /\ g.owner = {u} /\ g.gps = Browsing!All /\ g.text = Browsing!All /\ g.tag = Browsing!All
    BY DEF Browsing!NoFilter
  <2> HIDE DEF g
  <2>2. \A p \in Browsing!PhotoIds : Browsing!Search(g, p) /\ (Browsing!Scalar(g, p) <=> Origin[p].owner = u)
    BY <1>1, <1>2, <2>1 DEF Browsing!Search, Browsing!Scalar
  <2>3. Browsing!UploadedBy(u) = Browsing!Listed(g)
    BY <2>2 DEF Browsing!UploadedBy, Browsing!Listed
  <2>4. QED
    BY <2>3 DEF g
<1>4. \A p \in plain : Browsing!Visible(p) <=> Origin[p].root \notin veiled
  BY DEF Browsing!Visible
<1>5. ASSUME Browsing!Filtered(f), f.tag = Browsing!All, NEW t \in Browsing!Tags
      PROVE  plain \cap UNION {Browsing!Tagged(f, s, t) : s \in Browsing!Sources} = plain \cap Browsing!Listed([all EXCEPT !.tag = t])
  <2> DEFINE g == [all EXCEPT !.tag = t]
  <2>1. /\ g.root = f.root /\ g.folder = f.folder /\ g.live = TRUE /\ g.year = f.year
        /\ g.owner = f.owner /\ g.gps = f.gps /\ g.text = f.text /\ g.tag = t
    BY DEF Browsing!Filter
  <2>2. t # Browsing!All
    BY DEF Browsing!Tags, Browsing!All
  <2>3. \A p, s : p \in Browsing!Tagged(f, s, t) <=> /\ p \in Browsing!PhotoIds /\ <<s, t>> \in table[p].tags
                                                      /\ Browsing!InTags(f, p)
    BY <1>5 DEF Browsing!Tagged
  <2> HIDE DEF g, all
  <2>4. \A p : Browsing!InTags(f, p) <=> Browsing!Active(p) /\ Origin[p].root \notin veiled /\ Browsing!Scalar(g, p)
    <3>1. \A p : Browsing!Search(f, p)
      BY <1>5 DEF Browsing!Search
    <3>2. \A p : (f.text # Browsing!All => f.text = table[p].text) <=> f.text \in {Browsing!All, table[p].text}
      OBVIOUS
    <3>3. QED
      BY <2>1, <3>1, <3>2 DEF Browsing!InTags, Browsing!Scalar
  <2>5. \A p : Browsing!Search(g, p) <=> \E s \in Browsing!Sources : <<s, t>> \in table[p].tags
    BY <2>1, <2>2 DEF Browsing!Search
  <2>6. ASSUME NEW p \in plain
        PROVE  p \in UNION {Browsing!Tagged(f, s, t) : s \in Browsing!Sources} <=> p \in Browsing!Listed(g)
    <3>1. p \in Browsing!PhotoIds
      OBVIOUS
    <3>2. p \in UNION {Browsing!Tagged(f, s, t) : s \in Browsing!Sources} <=> \E s \in Browsing!Sources : p \in Browsing!Tagged(f, s, t)
      OBVIOUS
    <3>3. QED
      BY <1>4, <2>3, <2>4, <2>5, <3>1, <3>2 DEF Browsing!Listed
  <2>7. QED
    BY <2>6 DEF g
<1>6. ASSUME NEW r \in Browsing!Roots \ veiled, NEW folder \in Browsing!Folders \cup {<<>>}
      PROVE  plain \cap Browsing!Under(r, folder) =
               plain \cap Browsing!Listed([everything EXCEPT !.root = {r}, !.folder = folder])
  <2> DEFINE g == [everything EXCEPT !.root = {r}, !.folder = folder]
  <2>1. /\ g.root = {r} /\ g.folder = folder /\ g.live = TRUE /\ g.year = Browsing!Years
        /\ g.owner = Browsing!Uploaders /\ g.gps = Browsing!All /\ g.text = Browsing!All /\ g.tag = Browsing!All
    BY DEF Browsing!NoFilter
  <2> HIDE DEF g
  <2>2. \A p \in Browsing!PhotoIds : /\ Browsing!Search(g, p)
                                      /\ Browsing!Scalar(g, p) <=> Origin[p].root = r /\ Browsing!IsPrefix(folder, Origin[p].folder)
    BY <1>1, <2>1 DEF Browsing!Search, Browsing!Scalar
  <2>3. plain \cap Browsing!Under(r, folder) = plain \cap Browsing!Listed(g)
    BY <1>4, <2>2 DEF Browsing!Under, Browsing!Listed
  <2>4. QED
    BY <2>3 DEF g
<1>7. ASSUME NEW r \in Browsing!Roots \ veiled, NEW folder \in Browsing!Folders \cup {<<>>}
      PROVE  Browsing!Cardinality(Browsing!Direct(r, folder)) + Browsing!FoldFunction(+, 0, Browsing!Children(r, folder)) =
               IF folder = <<>> THEN Browsing!RootCount(r) ELSE Browsing!Cardinality(Browsing!Under(r, folder))
  <2> DEFINE under == Browsing!Under(r, folder)
             direct == Browsing!Direct(r, folder)
             below == under \ direct
             name == [p \in below |-> Origin[p].folder[Len(folder) + 1]]
             names == {name[p] : p \in below}
             bars == Browsing!Children(r, folder)
             total == Browsing!FoldFunction(+, 0, bars)
  <2>1. under \in SUBSET Browsing!PhotoIds /\ direct \in SUBSET under
    BY DEF Browsing!Under, Browsing!Direct
  <2> HIDE DEF under, direct
  <2>2. /\ Browsing!IsFiniteSet(direct) /\ Browsing!Cardinality(direct) \in Nat
        /\ Browsing!IsFiniteSet(below) /\ Browsing!Cardinality(below) \in Nat
    BY <2>1, PhotosFinite
  <2>3. Browsing!IsFiniteSet(names)
    <3>1. name \in Surjection(below, names)
      BY DEF Surjection
    <3> HIDE DEF name, below
    <3>2. QED
      BY <2>2, <3>1, FS_Surjection, SameSizes
  <2>4. DOMAIN bars = names /\ \A n \in names : bars[n] = Browsing!Cardinality({p \in below : name[p] = n})
    <3>1. bars = [n \in {Origin[p].folder[Len(folder) + 1] : p \in below} |->
                    Browsing!Cardinality({p \in below : Origin[p].folder[Len(folder) + 1] = n})]
      BY Zenon DEF Browsing!Children, under, direct
    <3>2. \A p \in below : name[p] = Origin[p].folder[Len(folder) + 1]
      OBVIOUS
    <3>3. names = {Origin[p].folder[Len(folder) + 1] : p \in below}
      BY <3>2
    <3>4. \A n : {p \in below : name[p] = n} = {p \in below : Origin[p].folder[Len(folder) + 1] = n}
      BY <3>2
    <3> HIDE DEF below, name, names, bars
    <3>5. QED
      BY <3>1, <3>3, <3>4
  <2>5. \A p \in below : name[p] \in names
    OBVIOUS
  <2>6. direct \cup below = under /\ direct \cap below = {}
    BY <2>1
  <2> HIDE DEF below, name, names, bars
  <2>7. total = Browsing!Cardinality(below)
    <3>1. Height(bars) = Browsing!Cardinality(below)
      BY <2>2, <2>3, <2>4, <2>5, BarsSum
    <3>2. QED
      BY <3>1, Zenon DEF Height
  <2> HIDE DEF total
  <2>8. Browsing!Cardinality(direct \cup below) = Browsing!Cardinality(direct) + Browsing!Cardinality(below) - Browsing!Cardinality(direct \cap below)
    BY <2>2, FS_Union, SameSizes
  <2>9. Browsing!Cardinality({}) = 0
    BY FS_EmptySet, SameSizes
  <2>10. Browsing!Cardinality(under) = Browsing!Cardinality(direct) + Browsing!Cardinality(below) - 0
    BY <2>6, <2>8, <2>9
  <2>11. Browsing!Cardinality(direct) + total = Browsing!Cardinality(under)
    BY <2>2, <2>7, <2>10
  <2>12. folder = <<>> => Browsing!RootCount(r) = Browsing!Cardinality(under)
    <3>1. ASSUME folder = <<>> PROVE {p \in Browsing!PhotoIds : Browsing!Active(p) /\ Origin[p].root = r} = under
      BY <1>2, <3>1 DEF Browsing!Under, under
    <3>2. QED
      BY <3>1 DEF Browsing!RootCount
  <2>13. QED
    BY <2>11, <2>12, Zenon DEF under, direct, bars, total
<1>8. QED
  BY <1>3, <1>5, <1>6, <1>7, Zenon DEF Browsing!CountsFit


\* Whatever is in the tables, the endpoints' answers fit together.
THEOREM CountsRight ==
  ASSUME Browsing!GalleryConstants
  PROVE  Browsing!Spec => []Browsing!CountsAgree
<1>1. PagesInv => Browsing!CountsAgree
  <2>1. SUFFICES ASSUME PagesInv PROVE Browsing!CountsAgree
    OBVIOUS
  <2>2. TablesTyped
    BY <2>1, PagesSuffice DEF TablesTyped, Browsing!TypeOK
  <2>3. Filters \subseteq Browsing!Filter
    BY DEF Browsing!GalleryConstants
  <2>4. QED
    BY <2>2, <2>3, YearsAgree, MapAgrees, CountsFitTogether DEF Browsing!CountsAgree
<1>2. QED
  BY <1>1, PagesKeep, PTL

-------------------------------------------------------------------------------
(***************************************************************************)
(* The services as a whole.  They behave as each of their parts, which no  *)
(* step of another part disturbs, and so keep what each of them keeps.     *)
(***************************************************************************)
\* A step of the services is a step of each part, or leaves that part alone.
LEMMA ServicesStep ==
  ASSUME [ServicesNext]_servicesVars
  PROVE  /\ [Next]_vars
         /\ [Signing!Next]_(Signing!vars)
         /\ [Access!Next]_(Access!vars)
         /\ [Tagging!Next]_(Tagging!vars)
         /\ [Browsing!Next]_(Browsing!vars)
         /\ [Vision!Next]_(Vision!vars)
<1> USE DEF signingVars, accessVars, taggingVars, browsingVars, visionVars,
        Signing!vars, Access!vars, Tagging!vars, Browsing!vars, Browsing!rows, Vision!vars
<1>1. CASE Next /\ UNCHANGED <<signingVars, accessVars, taggingVars, browsingVars, visionVars>>
  BY <1>1
<1>2. CASE Signing!Next /\ UNCHANGED <<vars, accessVars, taggingVars, browsingVars, visionVars>>
  BY <1>2
<1>3. CASE Access!Next /\ UNCHANGED <<vars, signingVars, taggingVars, browsingVars, visionVars>>
  BY <1>3
<1>4. CASE Tagging!Next /\ UNCHANGED <<vars, signingVars, accessVars, browsingVars, visionVars>>
  BY <1>4
<1>5. CASE Browsing!Next /\ UNCHANGED <<vars, signingVars, accessVars, taggingVars, visionVars>>
  BY <1>5
<1>6. CASE Vision!Next /\ UNCHANGED <<vars, signingVars, accessVars, taggingVars, browsingVars>>
  BY <1>6
<1>7. CASE UNCHANGED servicesVars
  BY <1>7 DEF servicesVars
<1>8. QED
  BY <1>1, <1>2, <1>3, <1>4, <1>5, <1>6, <1>7 DEF ServicesNext

\* The services implement each of their parts.
THEOREM ServicesHold ==
  ServicesSpec =>
    Spec /\ Signing!Spec /\ Access!Spec /\ Tagging!Spec /\ Browsing!Spec /\ Vision!Spec
<1>1. ServicesInit =>
        Init /\ Signing!Init /\ Access!Init /\ Tagging!Init /\ Browsing!Init /\ Vision!Init
  BY DEF ServicesInit
<1>2. [ServicesNext]_servicesVars =>
        /\ [Next]_vars
        /\ [Signing!Next]_(Signing!vars)
        /\ [Access!Next]_(Access!vars)
        /\ [Tagging!Next]_(Tagging!vars)
        /\ [Browsing!Next]_(Browsing!vars)
        /\ [Vision!Next]_(Vision!vars)
  BY ServicesStep
<1>3. QED
  BY <1>1, <1>2, PTL DEF ServicesSpec, Spec, Signing!Spec, Access!Spec, Tagging!Spec,
     Browsing!Spec, Vision!Spec

\* The types of links, accounts, access levels, metadata, the timeline and the stages.
THEOREM ServicesTypes == ServicesSpec => []TypesOK
<1>1. /\ MetaInv => Tagging!TypeOK
      /\ PagesInv => Browsing!TypeOK
      /\ StagesInv => Vision!TypeOK
      /\ AclInv => Access!TypeOK
  BY PagesSuffice DEF MetaInv, StagesInv, AclInv
<1>2. QED
  BY <1>1, ServicesHold, SharesTypes, AccountsTypes, ChecksKeep, TagsKeep, PagesKeep, StagesKeep,
     ServicesAssumption, PTL DEF TypesOK

\* An administrator who can sign in remains, unless two removals raced.
THEOREM AdministratorsRemain == ServicesSpec => []AdminRemains
  BY ServicesHold, AnAdminRemains, ServicesAssumption, PTL DEF AdminRemains

\* Who holds a session, or is being given one, knew the password it stands for.
THEOREM SignInsAreEarned == ServicesSpec => []SignedInKnow
  BY ServicesHold, SessionsAreEarned, ServicesAssumption, PTL DEF SignedInKnow

\* A check answers a level the photo had while it ran, unless two tables were edited.
THEOREM AnswersStand == ServicesSpec => []AnswersHeld
  BY ServicesHold, ChecksHold, ServicesAssumption, PTL DEF AnswersHeld

\* A stage that was asked for is come to, unless it was given up in one of the ways that
\* Classify names, and no roll-up is left behind the columns.
THEOREM StagesAreSettled == ServicesSpec => []StagesSettle
  BY ServicesHold, StagesRight, ServicesAssumption, PTL DEF StagesSettle

\* A settled photo's row says what its file says, unless sessions overlapped on it.
THEOREM RowsFollowFiles == ServicesSpec => []TagsAgree
  BY ServicesHold, TagsRight, ServicesAssumption, PTL DEF TagsAgree

\* A place that is known never becomes a guess.
THEOREM PlacesAreKept == ServicesSpec => GuessesYield
  BY ServicesHold, PlacesStay, ServicesAssumption, PTL DEF GuessesYield

\* The timeline shows one stretch of the listing, unless an answer came in late or the
\* listing changed.
THEOREM TimelineAgrees == ServicesSpec => []PagesAgree
  BY ServicesHold, PagesRight, ServicesAssumption, PTL DEF PagesAgree

\* CountsAgree: for any library, filters, tags and zoom levels, while anything changes.
THEOREM CountsTogether == ServicesSpec => []CountsAgree
<1>1. Browsing!CountsAgree => CountsAgree
  BY DEF CountsAgree
<1>2. QED
  BY <1>1, ServicesHold, CountsRight, ServicesAssumption, PTL
===============================================================================
