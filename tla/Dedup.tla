--------------------------------- MODULE Dedup ---------------------------------
(***************************************************************************)
(* Duplicate cleanup: an administrator starts a dedup_cleanup job, which   *)
(* takes the duplicate groups a page at a time, keeps the first copy of    *)
(* each and trashes the rest.  Cancelling marks the job, and its thread    *)
(* goes on until it looks: a new job may run beside it.  Users trash and   *)
(* re-date photos, and the index stage trashes incoming copies, meanwhile. *)
(***************************************************************************)
EXTENDS Integers, FiniteSets

CONSTANTS
  Ids,        \* photo ids
  Sha,        \* Sha[i]: what photo i holds
  Rank,       \* Rank[s]: the place of group s in the listing
  PageSize,   \* groups taken at a time
  ReadOnly,   \* photos of roots that cannot be written
  Admins,     \* administrators' requests to start a cleanup
  Workers,    \* worker threads
  MaxJob,     \* bound: job ids are 1..MaxJob
  Days        \* dates a photo may have been taken

\* Ids stand for what breaks ties (root and path), which never changes.
DedupConstants == Ids \subseteq Nat /\ Days \subseteq Nat

VARIABLES
  status,     \* photos.status, "new" before the photo has a SHA
  onDisk,     \* photos whose file is in its place
  taken,      \* photos.taken_at
  job,        \* the dedup_cleanup jobs
  asked,      \* administrators who saw no live job, and will enqueue one
  worker,     \* each cleanup under way
  calm,       \* history: workers for whom nobody else changed a photo since they
              \* last looked at the groups
  upset       \* history: SHAs of which a user trashed or re-dated a copy while a
              \* cleanup was about to trash others, or trashed the last

vars == <<status, onDisk, taken, job, asked, worker, calm, upset>>

Shas == {Sha[i] : i \in Ids}
Jobs == 1..MaxJob
Idle == [pc |-> "idle"]

TypeOK ==
  /\ status \in [Ids -> {"new", "active", "trashed"}]
  /\ onDisk \subseteq Ids
  /\ taken \in [Ids -> Days]
  /\ job \in [Jobs -> {"none", "queued", "running", "done", "failed", "cancelled"}]
  /\ asked \subseteq Admins
  /\ worker \in [Workers -> {Idle} \cup
       [pc : {"look", "trash"}, job : Jobs, ids : SUBSET Ids, moved : SUBSET Ids,
        skipped : SUBSET Ids]]
  /\ calm \subseteq Workers /\ upset \subseteq Shas

Init ==
  /\ status = [i \in Ids |-> "new"]
  /\ onDisk = Ids
  /\ taken \in [Ids -> Days]
  /\ job = [j \in Jobs |-> "none"]
  /\ asked = {}
  /\ worker = [w \in Workers |-> Idle]
  /\ calm = {} /\ upset = {}

-------------------------------------------------------------------------------
Active(i) == status[i] = "active"
Group(s)  == {i \in Ids : Active(i) /\ Sha[i] = s}

\* The groups of the first page.
FirstPage ==
  LET dups == {s \in Shas : Cardinality(Group(s)) > 1}
  IN {s \in dups : Cardinality({t \in dups : Rank[t] < Rank[s]}) < PageSize}

\* By date taken, and then by what never changes (root and path).
Before(i, j) == taken[i] < taken[j] \/ (taken[i] = taken[j] /\ i < j)

\* Mutant of Rest: copies of one date are in no particular order.
RestOfDay == {i \in Ids : /\ Sha[i] \in FirstPage /\ Active(i)
                         /\ \E j \in Group(Sha[i]) : j # i /\ taken[j] <= taken[i]}

\* Mutant of Rest: one copy too many is kept.
RestButTwo == {i \in Ids : /\ Sha[i] \in FirstPage /\ Active(i)
                          /\ \E j, k \in Group(Sha[i]) : j # k /\ Before(j, i) /\ Before(k, i)}

\* All copies but the first of each group.
Rest == {i \in Ids : /\ Sha[i] \in FirstPage /\ Active(i)
                     /\ \E j \in Group(Sha[i]) : Before(j, i)}

\* The file cannot be moved: a root is read-only, or the file is not there.
Blocked(i) == i \in ReadOnly \/ i \notin onDisk

\* A cleanup is trashing copies of s, or has not committed that it did.
Trashing(s) ==
  \E w \in Workers : worker[w] # Idle /\ \E i \in worker[w].ids \cup worker[w].moved : Sha[i] = s

-------------------------------------------------------------------------------
(***************************************************************************)
(* start_auto_cleanup looks for a live job and enqueues one; cancel marks  *)
(* whatever is live.                                                       *)
(***************************************************************************)
Live(j) == job[j] \in {"queued", "running"}

StartLook(a) ==
  /\ a \notin asked /\ \A j \in Jobs : ~Live(j)
  /\ asked' = asked \cup {a}
  /\ UNCHANGED <<status, onDisk, taken, job, worker, calm, upset>>

StartEnqueue(a) ==
  /\ a \in asked /\ asked' = asked \ {a}
  /\ \E j \in Jobs : /\ job[j] = "none" /\ \A k \in 1..(j - 1) : job[k] # "none"
                     /\ job' = [job EXCEPT ![j] = "queued"]
  /\ UNCHANGED <<status, onDisk, taken, worker, calm, upset>>

Cancel ==
  /\ \E j \in Jobs : Live(j)
  /\ job' = [j \in Jobs |-> IF Live(j) THEN "cancelled" ELSE job[j]]
  /\ UNCHANGED <<status, onDisk, taken, asked, worker, calm, upset>>

-------------------------------------------------------------------------------
(***************************************************************************)
(* dedup_cleanup.run.                                                      *)
(***************************************************************************)
Claim(w, j) ==
  /\ worker[w] = Idle /\ job[j] = "queued"
  /\ job' = [job EXCEPT ![j] = "running"]
  /\ worker' = [worker EXCEPT ![w] = [pc |-> "look", job |-> j, ids |-> {}, moved |-> {},
                                      skipped |-> {}]]
  /\ UNCHANGED <<status, onDisk, taken, asked, calm, upset>>

\* A job that was cancelled stays so.
Ends(w, how) ==
  /\ worker' = [worker EXCEPT ![w] = Idle]
  /\ job' = [job EXCEPT ![worker[w].job] = IF @ = "running" THEN how ELSE @]

\* Each round looks whether it was cancelled, and for the first page of groups.
Look(w) ==
  /\ worker[w].pc = "look"
  /\ IF job[worker[w].job] = "cancelled" \/ Rest = {} THEN Ends(w, "done") /\ UNCHANGED calm
     ELSE /\ worker' = [worker EXCEPT ![w].pc = "trash", ![w].ids = Rest]
          /\ calm' = calm \cup {w} /\ UNCHANGED job
  /\ UNCHANGED <<status, onDisk, taken, asked, upset>>

\* trash_photos_core, photo by photo; the rows are written when all are moved.
Move(w, i) ==
  /\ worker[w].pc = "trash" /\ i \in worker[w].ids
  /\ onDisk' = IF Blocked(i) THEN onDisk ELSE onDisk \ {i}
  /\ worker' = [worker EXCEPT ![w].ids = @ \ {i},
                 ![w].moved = IF Blocked(i) THEN @ ELSE @ \cup {i},
                 ![w].skipped = IF Blocked(i) THEN @ \cup {i} ELSE @]
  /\ calm' = calm \cap {w}
  /\ UNCHANGED <<status, taken, job, asked, upset>>

\* Nothing was moved: the same groups would come again.
Stuck(q) == q.moved = {} /\ q.skipped # {}

Commit(w) ==
  LET q == worker[w]
  IN /\ q.pc = "trash" /\ q.ids = {}
     /\ status' = [i \in Ids |-> IF i \in q.moved THEN "trashed" ELSE status[i]]
     /\ IF job[q.job] = "cancelled" THEN Ends(w, "done")
        ELSE IF Stuck(q) THEN Ends(w, "failed")
        ELSE /\ worker' = [worker EXCEPT ![w] = [q EXCEPT !.pc = "look", !.moved = {}, !.skipped = {}]]
             /\ UNCHANGED job
     /\ calm' = IF q.moved = {} THEN calm ELSE calm \cap {w}
     /\ UNCHANGED <<onDisk, taken, asked, upset>>

-------------------------------------------------------------------------------
(***************************************************************************)
(* What others do to the photos.                                           *)
(***************************************************************************)
\* index_file gives the photo its SHA; with [dedup] skip_ingest on it trashes the
\* photo if one with a smaller id has that too.
IndexKeeps(i) ==
  /\ status[i] = "new"
  /\ status' = [status EXCEPT ![i] = "active"] /\ calm' = {}
  /\ UNCHANGED <<onDisk, taken, job, asked, worker, upset>>

IndexTrashes(i) ==
  /\ status[i] = "new" /\ ~Blocked(i)
  /\ \E j \in Group(Sha[i]) : j < i
  /\ status' = [status EXCEPT ![i] = "trashed"] /\ onDisk' = onDisk \ {i} /\ calm' = {}
  /\ UNCHANGED <<taken, job, asked, worker, upset>>

Upset(s, last) == upset' = IF last \/ Trashing(s) THEN upset \cup {s} ELSE upset

UserTrash(i) ==
  /\ Active(i) /\ i \in onDisk /\ i \notin ReadOnly
  /\ status' = [status EXCEPT ![i] = "trashed"] /\ onDisk' = onDisk \ {i}
  /\ Upset(Sha[i], \A j \in onDisk : Sha[j] = Sha[i] => j = i)
  /\ calm' = {}
  /\ UNCHANGED <<taken, job, asked, worker>>

\* set_taken_at.
SetTaken(i, d) ==
  /\ Active(i) /\ taken[i] # d /\ taken' = [taken EXCEPT ![i] = d]
  /\ Upset(Sha[i], FALSE) /\ calm' = {}
  /\ UNCHANGED <<status, onDisk, job, asked, worker>>

Next ==
  \/ \E a \in Admins : StartLook(a) \/ StartEnqueue(a)
  \/ Cancel
  \/ \E w \in Workers : \/ Look(w) \/ Commit(w)
                        \/ \E j \in Jobs : Claim(w, j)
                        \/ \E i \in Ids : Move(w, i)
  \/ \E i \in Ids : \/ IndexKeeps(i) \/ IndexTrashes(i) \/ UserTrash(i)
                    \/ \E d \in Days : SetTaken(i, d)

Spec == Init /\ [][Next]_vars

-------------------------------------------------------------------------------
\* However cleanups are cancelled and started anew beside a thread that has not
\* noticed, and whatever the index stage trashes meanwhile, a copy of each picture
\* stays in its place; unless a user trashed or re-dated one under a cleanup's hands.
CopyStays == \A s \in Shas \ upset : \E i \in onDisk : Sha[i] = s

\* A cleanup that is not cancelled ends when no copy of the first page that it could
\* move is left (later pages behind a page of read-only copies are not reached).
CleanupCleans ==
  [][\A w \in Workers :
       worker[w] # Idle /\ worker'[w] = Idle /\ job[worker[w].job] = "running"
         /\ (w \in calm \/ worker[w].pc = "look")
       => \A s \in FirstPage : \A i, j \in Group(s) : Before(i, j) => Blocked(j)]_vars
===============================================================================
