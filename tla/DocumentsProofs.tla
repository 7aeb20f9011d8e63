---------------------------- MODULE DocumentsProofs ----------------------------
(***************************************************************************)
(* Proofs about Documents for every number of paths, folders, ids,         *)
(* contents, requests and index threads.                                   *)
(***************************************************************************)
EXTENDS Documents, FiniteSetTheorems, SequenceTheorems, TLAPS

USE DocumentsAssumption DEF Ids, None

-------------------------------------------------------------------------------
(***************************************************************************)
(* The parts of TypeOK, and what the induction needs of the requests.      *)
(***************************************************************************)
\* A row and a file are of contents written already.
FilesOK ==
  /\ files \in [Ids -> Row \cup {NoRow}]
  /\ \A i \in Ids : Present(i) => files[i].sig \in 1..made
  /\ \A i, j \in Ids : Present(i) /\ Present(j) /\ i # j => files[i].path # files[j].path
DiskOK    == disk \in [Paths -> Content] /\ \A p \in Paths : disk[p] <= made
TrashOK   == trash \in [Ids -> [Names -> Content]]
JobsOK    == jobs \subseteq Ids
WorkerOK  == worker \in [Workers -> Job \cup {NoJob}]
ScanOK    == scan \in [pc : {"idle", "walk"}, left : SUBSET Paths, unseen : SUBSET Ids]
HistoryOK == /\ made \in Content /\ gone \subseteq Content /\ calm \in BOOLEAN
             /\ late \in [lost : SUBSET Content, rows : SUBSET Ids]

Single    == {"upload", "rename", "move", "copy", "delete"}
Movers    == {"rename", "move", "copy"}
Whole     == {"move-folder", "copy-folder"}
AnyRequest == Request \cup Transfer \cup {NoRequest, Served}

\* A request that is about to put a file somewhere found no file there; it does not
\* move a file to where it is; and new rows are of contents that were written.
Formed(q, m) ==
  /\ q \in AnyRequest
  /\ q.op = "upload" => q.step # NoStep \/ q.writes # {}
  /\ q.op \in Single /\ q.step # NoStep =>
       /\ q.step.saw = None
       /\ q.op \in Movers => q.step.id \in Ids /\ q.step.from \in Paths
       /\ q.op \in {"rename", "move"} => q.step.from # q.step.to
  /\ q.op = "upload" => \A x \in q.writes : x.sig \in 1..m
  /\ q.op \in Single \cup Whole => \A x \in q.writes : x.id = 0 => x.sig \in 1..m

RequestOK == /\ request \in [Requests -> AnyRequest]
             /\ \A r \in Requests : Formed(request[r], made)

TInv == /\ DiskOK /\ TrashOK /\ FilesOK /\ JobsOK /\ RequestOK /\ WorkerOK /\ ScanOK
        /\ HistoryOK

LEMMA TypesFollow == TInv => TypeOK
  BY DEF TInv, TypeOK, DiskOK, TrashOK, FilesOK, JobsOK, RequestOK, WorkerOK, ScanOK, HistoryOK,
     AnyRequest

\* The operation tells what a request is a record of.
LEMMA Forms ==
  ASSUME NEW q \in AnyRequest
  PROVE  /\ q.op \in Single => q \in Request
         /\ q.op \in Whole => q \in Transfer
         /\ q.op \in Single \cup Whole \cup {"none", "served"}
  BY DEF AnyRequest, Request, Transfer, NoRequest, Served, Single, Whole

LEMMA StepForm == \A s \in Step \cup {NoStep} : s # NoStep => s \in Step
  OBVIOUS

LEMMA RowForm ==
  ASSUME FilesOK, NEW i \in Ids
  PROVE  /\ Present(i) => files[i] \in Row /\ files[i].path \in Paths /\ files[i].sig \in 1..made
         /\ Active(i) => Present(i)
         /\ Present(i) => files[i].status \in {"active", "missing"}
  BY DEF FilesOK, Present, Active, NoRow, Row

LEMMA JobForm ==
  ASSUME WorkerOK, NEW w \in Workers
  PROVE  /\ worker[w].pc # "idle" => worker[w] \in Job
         /\ worker[w].id \in Ids => worker[w] \in Job
         /\ worker[w] \in Job => worker[w].id \in Ids /\ worker[w].pc # "idle"
  BY DEF WorkerOK, Job, NoJob

\* The ids of new rows are not in use, and a single one is given out if one is asked for.
LEMMA NewIds == \A n : \A i \in NextIds(n) : i \in Ids /\ ~Present(i)
  BY DEF NextIds

LEMMA OneNewId == \A i, j \in NextIds(1) : i = j
<1> DEFINE top == {i \in Ids : \A j \in Ids : Present(j) => j < i}
           Less(i) == {j \in top : j < i}
<1>1. \A i \in Ids : IsFiniteSet(Less(i))
  <2>1. IsFiniteSet(1..MaxId)
    BY FS_Interval
  <2>2. QED
    BY <2>1, FS_Subset
<1>2. ASSUME NEW i \in NextIds(1) PROVE i \in top /\ Less(i) = {}
  <2>1. i \in top /\ Cardinality(Less(i)) < 1
    BY DEF NextIds
  <2>2. Cardinality(Less(i)) = 0
    BY <1>1, <2>1, FS_CardinalityType
  <2>3. QED
    BY <1>1, <2>1, <2>2, FS_EmptySet
<1>3. ASSUME NEW i \in NextIds(1), NEW j \in NextIds(1), i < j PROVE FALSE
  BY <1>2, <1>3
<1>4. QED
  <2>1. \A i \in NextIds(1) : i \in Int
    BY <1>2
  <2>2. QED
    BY <1>3, <2>1

LEMMA DestForm ==
  \A folder, name : \A p \in UniqueDest(folder, name) : p \in Paths /\ IsFree(p) /\ disk[p] = None
  BY DEF UniqueDest, IsFree

LEMMA SomeStep == \A i, p, q, c : [id |-> i, from |-> p, to |-> q, saw |-> c] # NoStep
<1> SUFFICES ASSUME NEW i, NEW p, NEW q, NEW c,
                    [id |-> i, from |-> p, to |-> q, saw |-> c] = NoStep
             PROVE  FALSE
  OBVIOUS
<1>1. "saw" \in DOMAIN [id |-> i, from |-> p, to |-> q, saw |-> c]
  OBVIOUS
<1>2. "saw" \notin DOMAIN NoStep
  BY DEF NoStep
<1>3. QED
  BY <1>1, <1>2

LEMMA FormedGrows ==
  ASSUME NEW q, NEW m \in Nat, NEW n \in Nat, m <= n, Formed(q, m)
  PROVE  Formed(q, n)
<1>1. \A c \in 1..m : c \in 1..n
  OBVIOUS
<1>2. QED
  BY <1>1 DEF Formed

\* One request changes, and contents are only added.
LEMMA RequestSet ==
  ASSUME RequestOK, NEW r \in Requests, NEW q, request' = [request EXCEPT ![r] = q],
         made \in Nat, made' \in Nat, made <= made', Formed(q, made')
  PROVE  RequestOK'
<1>1. request' \in [Requests -> AnyRequest]
  BY DEF RequestOK, Formed
<1>2. \A x \in Requests : Formed(request'[x], made')
  BY FormedGrows DEF RequestOK
<1>3. QED
  BY <1>1, <1>2 DEF RequestOK

LEMMA RequestsKept ==
  ASSUME RequestOK, request' = request, made \in Nat, made' \in Nat, made <= made'
  PROVE  RequestOK'
<1>1. \A x \in Requests : Formed(request[x], made')
  BY FormedGrows DEF RequestOK
<1>2. QED
  BY <1>1 DEF RequestOK

LEMMA MadeForm == HistoryOK => made \in Nat /\ made <= MaxMade /\ 1..made \subseteq Content
  BY DEF HistoryOK, Content

\* The same where nothing is written.
LEMMA RequestTurn ==
  ASSUME TInv, NEW r \in Requests, NEW q, request' = [request EXCEPT ![r] = q], made' = made,
         Formed(q, made)
  PROVE  RequestOK'
<1>1. RequestOK /\ made \in Nat
  BY MadeForm DEF TInv
<1>2. made' \in Nat /\ made <= made' /\ Formed(q, made')
  BY <1>1
<1>3. QED
  BY <1>1, <1>2, RequestSet

LEMMA FormedServed == \A m : Formed(Served, m) /\ Served.op = "served"
  BY DEF Formed, Served, AnyRequest, Single, Whole

\* A request that found a free name.
LEMMA FormedStart ==
  ASSUME HistoryOK, DiskOK, NEW op \in {"upload", "rename"}, NEW folder \in Folders,
         NEW i \in Ids \cup {0}, NEW from \in Paths \cup {<<>>}, NEW to \in Paths, disk[to] = None,
         op = "rename" => i \in Ids /\ from \in Paths /\ from # to
  PROVE  Formed([op |-> op, folder |-> folder, todo |-> {}, writes |-> {},
                 step |-> [id |-> i, from |-> from, to |-> to, saw |-> disk[to]]], made)
<1> DEFINE s == [id |-> i, from |-> from, to |-> to, saw |-> disk[to]]
           q == [op |-> op, folder |-> folder, todo |-> {}, writes |-> {}, step |-> s]
<1>1. s # NoStep
  BY SomeStep
<1>2. s \in Step /\ s.saw = None /\ s.id = i /\ s.from = from /\ s.to = to
  BY DEF Step, Content, HistoryOK
<1> HIDE DEF s
<1>3. q \in Request
  BY <1>2 DEF Request
<1>4. q.op = op /\ q.step = s /\ q.writes = {}
  OBVIOUS
<1> HIDE DEF q
<1>5. Formed(q, made)
  BY <1>1, <1>2, <1>3, <1>4 DEF Formed, AnyRequest, Single, Movers, Whole
<1>6. QED
  BY <1>5 DEF q, s

LEMMA UploadStartKeeps ==
  ASSUME TInv, NEW r \in Requests, NEW f \in Folders, NEW n \in Names, UploadStart(r, f, n),
         calm' \in BOOLEAN
  PROVE  TInv'
<1>1. PICK p \in Paths : /\ disk[p] = None
                         /\ request' = [request EXCEPT ![r] =
                              [op |-> "upload", folder |-> f, todo |-> {}, writes |-> {},
                               step |-> [id |-> 0, from |-> <<>>, to |-> p, saw |-> disk[p]]]]
  BY DestForm DEF UploadStart, Start
<1> DEFINE q == [op |-> "upload", folder |-> f, todo |-> {}, writes |-> {},
                 step |-> [id |-> 0, from |-> <<>>, to |-> p, saw |-> disk[p]]]
<1>2. Formed(q, made)
  BY <1>1, FormedStart DEF TInv
<1>3. request' = [request EXCEPT ![r] = q] /\ made' = made
  BY <1>1 DEF UploadStart
<1> HIDE DEF q
<1>4. RequestOK'
  BY <1>2, <1>3, RequestTurn
<1>5. QED
  BY <1>4 DEF TInv, UploadStart, DiskOK, TrashOK, FilesOK, JobsOK, WorkerOK, ScanOK, HistoryOK, Present

LEMMA RenameStartKeeps ==
  ASSUME TInv, NEW r \in Requests, NEW i \in Ids, NEW p \in Paths, RenameStart(r, i, p),
         calm' \in BOOLEAN
  PROVE  TInv'
<1>1. /\ files[i].path \in Paths /\ files[i].path # p /\ disk[p] = None /\ Front(p) \in Folders
      /\ request' = [request EXCEPT ![r] =
            [op |-> "rename", folder |-> Front(p), todo |-> {}, writes |-> {},
             step |-> [id |-> i, from |-> files[i].path, to |-> p, saw |-> disk[p]]]]
  BY RowForm DEF RenameStart, Start, IsFree, TInv
<1> DEFINE q == [op |-> "rename", folder |-> Front(p), todo |-> {}, writes |-> {},
                 step |-> [id |-> i, from |-> files[i].path, to |-> p, saw |-> disk[p]]]
<1>2. Formed(q, made)
  BY <1>1, FormedStart DEF TInv
<1>3. request' = [request EXCEPT ![r] = q] /\ made' = made
  BY <1>1 DEF RenameStart
<1> HIDE DEF q
<1>4. RequestOK'
  BY <1>2, <1>3, RequestTurn
<1>5. QED
  BY <1>4 DEF TInv, RenameStart, DiskOK, TrashOK, FilesOK, JobsOK, WorkerOK, ScanOK, HistoryOK, Present

LEMMA BatchStartKeeps ==
  ASSUME TInv, NEW r \in Requests, NEW op \in {"move", "copy", "delete"}, NEW S \in SUBSET Ids,
         NEW f \in Folders \cup {<<>>}, BatchStart(r, op, S, f), calm' \in BOOLEAN
  PROVE  TInv'
<1> DEFINE q == [op |-> op, folder |-> f, todo |-> S, writes |-> {}, step |-> NoStep]
<1>1. q \in Request /\ q.op = op /\ q.writes = {} /\ q.step = NoStep
  BY DEF Request
<1>2. request' = [request EXCEPT ![r] = q]
  BY DEF BatchStart, Start
<1> HIDE DEF q
<1>3. Formed(q, made)
  BY <1>1 DEF Formed, AnyRequest, Single, Movers, Whole
<1>4. RequestOK'
  BY <1>2, <1>3, RequestTurn DEF BatchStart
<1>5. QED
  BY <1>4 DEF TInv, BatchStart, DiskOK, TrashOK, FilesOK, JobsOK, WorkerOK, ScanOK, HistoryOK, Present

LEMMA TransferNextKeeps ==
  ASSUME TInv, NEW r \in Requests, NEW i \in Ids, TransferNext(r, i), calm' \in BOOLEAN
  PROVE  TInv'
<1> DEFINE o == request[r]
           todo == o.todo \ {i}
           row == files[i]
           Turn(q) == request' = [request EXCEPT ![r] = q]
<1>1. /\ Formed(o, made) /\ o \in Request /\ o.op \in {"move", "copy"} /\ o.step = NoStep
      /\ o.todo \subseteq Ids
  BY Forms DEF TInv, RequestOK, TransferNext, Single, Request
<1>2. made' = made /\ UNCHANGED <<disk, trash, files, jobs, worker, scan, gone, late>>
  BY DEF TransferNext
<1>3. \/ Turn([o EXCEPT !.todo = todo])
      \/ /\ Present(i) /\ disk[row.path] # None
         /\ \E p \in UniqueDest(o.folder, Last(row.path)) :
              Turn([o EXCEPT !.todo = todo,
                      !.step = [id |-> i, from |-> row.path, to |-> p, saw |-> disk[p]]])
  BY <1>1 DEF TransferNext, TInv, RequestOK
<1> HIDE DEF o
<1>4. ASSUME Turn([o EXCEPT !.todo = todo]) PROVE RequestOK'
  <2> DEFINE q == [o EXCEPT !.todo = todo]
  <2>1. q \in Request /\ q.op = o.op /\ q.step = NoStep /\ q.writes = o.writes
    BY <1>1 DEF Request
  <2> HIDE DEF q
  <2>2. Formed(q, made)
    BY <1>1, <2>1 DEF Formed, AnyRequest, Single, Movers, Whole
  <2>3. QED
    BY <1>2, <1>4, <2>2, RequestTurn DEF q
<1>5. ASSUME Present(i), disk[row.path] # None,
             NEW p \in UniqueDest(o.folder, Last(row.path)),
             Turn([o EXCEPT !.todo = todo,
                      !.step = [id |-> i, from |-> row.path, to |-> p, saw |-> disk[p]]])
      PROVE  RequestOK'
  <2> DEFINE s == [id |-> i, from |-> row.path, to |-> p, saw |-> disk[p]]
             q == [o EXCEPT !.todo = todo, !.step = s]
  <2>1. p \in Paths /\ disk[p] = None /\ row.path \in Paths /\ row.path # p
    BY <1>5, DestForm, RowForm DEF TInv
  <2>2. /\ s # NoStep /\ s \in Step /\ s.saw = None /\ s.id = i /\ s.from = row.path /\ s.to = p
    BY <2>1, SomeStep DEF Step, Content, TInv, HistoryOK
  <2> HIDE DEF s
  <2>3. q \in Request /\ q.op = o.op /\ q.step = s /\ q.writes = o.writes
    BY <1>1, <2>2 DEF Request
  <2> HIDE DEF q
  <2>4. Formed(q, made)
    BY <1>1, <2>1, <2>2, <2>3 DEF Formed, AnyRequest, Single, Movers, Whole
  <2>5. QED
    BY <1>2, <1>5, <2>4, RequestTurn DEF q, s
<1>6. RequestOK'
  BY <1>3, <1>4, <1>5
<1>7. QED
  BY <1>2, <1>6 DEF TInv, DiskOK, TrashOK, FilesOK, JobsOK, WorkerOK, ScanOK, HistoryOK, Present

LEMMA UploadWriteKeeps ==
  ASSUME TInv, NEW r \in Requests, UploadWrite(r), calm' \in BOOLEAN
  PROVE  TInv'
<1> DEFINE o == request[r]
           p == o.step.to
           x == [id |-> 0, to |-> p, sig |-> made + 1]
<1>1. /\ Formed(o, made) /\ o \in Request /\ o.op = "upload" /\ o.step # NoStep
      /\ o.step \in Step /\ p \in Paths
  BY Forms, StepForm DEF TInv, RequestOK, UploadWrite, Single, Request, Step
<1>2. UNCHANGED <<trash, files, jobs, worker, scan, gone, late>>
  BY DEF UploadWrite
<1>3. made \in Nat /\ made <= MaxMade
  BY MadeForm DEF TInv
<1>4. \/ request' = [request EXCEPT ![r] = Served] /\ UNCHANGED <<disk, made>>
      \/ /\ made < MaxMade /\ made' = made + 1 /\ disk' = [disk EXCEPT ![p] = made + 1]
         /\ request' = [request EXCEPT ![r] = [o EXCEPT !.step = NoStep, !.writes = {x}]]
  BY <1>1 DEF UploadWrite, Over, TInv, RequestOK
<1> HIDE DEF o
<1>5. CASE request' = [request EXCEPT ![r] = Served] /\ UNCHANGED <<disk, made>>
  <2>1. RequestOK'
    BY <1>5, FormedServed, RequestTurn
  <2>2. QED
    BY <1>2, <1>5, <2>1
       DEF TInv, DiskOK, TrashOK, FilesOK, JobsOK, WorkerOK, ScanOK, HistoryOK, Present
<1>6. CASE /\ made < MaxMade /\ made' = made + 1 /\ disk' = [disk EXCEPT ![p] = made + 1]
           /\ request' = [request EXCEPT ![r] = [o EXCEPT !.step = NoStep, !.writes = {x}]]
  <2> DEFINE q == [o EXCEPT !.step = NoStep, !.writes = {x}]
  <2>1. made' \in Nat /\ made <= made' /\ made' \in Content /\ made' \in 1..made'
    BY <1>3, <1>6 DEF Content
  <2>2. x \in Write /\ x.sig = made'
    BY <1>1, <1>6, <2>1 DEF Write
  <2> HIDE DEF x
  <2>3. q \in Request /\ q.op = "upload" /\ q.step = NoStep /\ q.writes = {x}
    BY <1>1, <2>2 DEF Request
  <2> HIDE DEF q
  <2>4. Formed(q, made')
    BY <2>1, <2>2, <2>3 DEF Formed, AnyRequest, Single, Movers, Whole
  <2>5. RequestOK'
    BY <1>3, <1>6, <2>1, <2>4, RequestSet DEF TInv, q
  <2>6. DiskOK'
    BY <1>1, <1>3, <1>6, <2>1 DEF TInv, DiskOK, Content
  <2>7. \A c \in 1..made : c \in 1..made'
    BY <1>3, <1>6
  <2>8. FilesOK'
    BY <1>2, <2>7 DEF TInv, FilesOK, Present
  <2>9. QED
    BY <1>2, <2>1, <2>5, <2>6, <2>8 DEF TInv, TrashOK, JobsOK, WorkerOK, ScanOK, HistoryOK
<1>7. QED
  BY <1>4, <1>5, <1>6

LEMMA TransferFileKeeps ==
  ASSUME TInv, NEW r \in Requests, TransferFile(r), calm' \in BOOLEAN
  PROVE  TInv'
<1> DEFINE o == request[r]
           s == o.step
           new == o.op = "copy"
           x == [id |-> IF new THEN 0 ELSE s.id, to |-> s.to, sig |-> disk[s.from]]
<1>1. /\ Formed(o, made) /\ o \in Request /\ o.op \in Movers /\ s # NoStep
      /\ s \in Step /\ s.to \in Paths /\ s.id \in Ids /\ s.from \in Paths
  BY Forms, StepForm DEF TInv, RequestOK, TransferFile, Single, Movers, Request, Step, Formed
<1>2. UNCHANGED <<trash, files, jobs, worker, scan, made, gone>>
  BY DEF TransferFile
<1>3. made \in Nat /\ made <= MaxMade /\ disk[s.from] \in Content /\ disk[s.from] <= made
  BY <1>1, MadeForm DEF TInv, DiskOK
<1>4. \/ request' = [request EXCEPT ![r] = Served] /\ UNCHANGED <<disk, late>>
      \/ /\ disk[s.from] # None
         /\ disk' = [disk EXCEPT ![s.to] = disk[s.from],
                                 ![s.from] = IF new THEN @ ELSE None]
         /\ request' = [request EXCEPT ![r] = [o EXCEPT !.step = NoStep, !.writes = @ \cup {x}]]
         /\ late' = [late EXCEPT
                  !.lost = IF disk[s.to] # None /\ s.saw = None THEN @ \cup {disk[s.to]} ELSE @,
                  !.rows = @ \cup Doubtful(At(s.to))]
  BY <1>1 DEF TransferFile, Over, TInv, RequestOK
<1> HIDE DEF o
<1>5. CASE request' = [request EXCEPT ![r] = Served] /\ UNCHANGED <<disk, late>>
  <2>1. RequestOK'
    BY <1>2, <1>5, FormedServed, RequestTurn
  <2>2. QED
    BY <1>2, <1>5, <2>1
       DEF TInv, DiskOK, TrashOK, FilesOK, JobsOK, WorkerOK, ScanOK, HistoryOK, Present
<1>6. CASE /\ disk[s.from] # None
           /\ disk' = [disk EXCEPT ![s.to] = disk[s.from],
                                   ![s.from] = IF new THEN @ ELSE None]
           /\ request' = [request EXCEPT ![r] = [o EXCEPT !.step = NoStep, !.writes = @ \cup {x}]]
           /\ late' = [late EXCEPT
                  !.lost = IF disk[s.to] # None /\ s.saw = None THEN @ \cup {disk[s.to]} ELSE @,
                  !.rows = @ \cup Doubtful(At(s.to))]
  <2> DEFINE q == [o EXCEPT !.step = NoStep, !.writes = @ \cup {x}]
  <2>1. x \in Write /\ x.sig \in 1..made
    BY <1>1, <1>3, <1>6 DEF Write, Content
  <2> HIDE DEF x
  <2>2. /\ q \in Request /\ q.op = o.op /\ q.step = NoStep /\ q.writes = o.writes \cup {x}
    BY <1>1, <2>1 DEF Request
  <2> HIDE DEF q
  <2>3. \A y \in o.writes : y.id = 0 => y.sig \in 1..made
    BY <1>1 DEF Formed, Single, Movers
  <2>4. Formed(q, made)
    BY <1>1, <2>1, <2>2, <2>3 DEF Formed, AnyRequest, Movers
  <2>5. RequestOK'
    BY <1>2, <1>6, <2>4, RequestTurn DEF q
  <2>6. disk[s.to] \in Content
    BY <1>1 DEF TInv, DiskOK
  <2>7. DiskOK'
    <3>1. disk \in [Paths -> Content] /\ \A p \in Paths : disk[p] <= made
      BY DEF TInv, DiskOK
    <3>2. \A p \in Paths : disk'[p] = disk[p] \/ disk'[p] = disk[s.from] \/ disk'[p] = None
      BY <1>6, <3>1
    <3>3. \A p \in Paths : disk'[p] \in Content /\ disk'[p] <= made
      BY <1>3, <3>1, <3>2 DEF Content
    <3>4. DOMAIN disk' = Paths /\ disk' = [p \in Paths |-> disk'[p]]
      BY <1>6, <3>1
    <3>5. QED
      BY <1>2, <3>3, <3>4 DEF DiskOK
  <2>8. Doubtful(At(s.to)) \subseteq Ids
    BY DEF Doubtful, Touched
  <2>9. late' \in [lost : SUBSET Content, rows : SUBSET Ids]
    BY <1>6, <2>6, <2>8 DEF TInv, HistoryOK
  <2>10. QED
    BY <1>2, <2>5, <2>7, <2>9 DEF TInv, TrashOK, FilesOK, JobsOK, WorkerOK, ScanOK, HistoryOK, Present
<1>7. QED
  BY <1>4, <1>5, <1>6

LEMMA DeleteFileKeeps ==
  ASSUME TInv, NEW r \in Requests, NEW i \in Ids, DeleteFile(r, i), calm' \in BOOLEAN
  PROVE  TInv'
<1> DEFINE o == request[r]
           row == files[i]
           x == [id |-> i, to |-> row.path, sig |-> row.sig]
           todo == o.todo \ {i}
<1>1. /\ Formed(o, made) /\ o \in Request /\ o.op = "delete" /\ o.todo \subseteq Ids
  BY Forms DEF TInv, RequestOK, DeleteFile, Single, Request
<1>2. UNCHANGED <<files, jobs, worker, scan, made, gone>> /\ made \in Nat
  BY MadeForm DEF DeleteFile, TInv
<1>3. \/ /\ Present(i)
         /\ trash' = [trash EXCEPT ![i] = Binned(i, row)]
         /\ disk' = [disk EXCEPT ![row.path] = None]
         /\ request' = [request EXCEPT ![r] = [o EXCEPT !.todo = todo, !.writes = @ \cup {x}]]
         /\ late' = [late EXCEPT !.lost =
                          IF disk[row.path] = None THEN @
                          ELSE @ \cup ({trash[i][Last(row.path)]} \ {None})]
      \/ /\ request' = [request EXCEPT ![r] = [o EXCEPT !.todo = todo]]
         /\ UNCHANGED <<disk, trash, late>>
  BY <1>1 DEF DeleteFile, TInv, RequestOK
<1> HIDE DEF o
<1>4. CASE /\ Present(i)
           /\ trash' = [trash EXCEPT ![i] = Binned(i, row)]
           /\ disk' = [disk EXCEPT ![row.path] = None]
           /\ request' = [request EXCEPT ![r] = [o EXCEPT !.todo = todo, !.writes = @ \cup {x}]]
           /\ late' = [late EXCEPT !.lost =
                          IF disk[row.path] = None THEN @
                          ELSE @ \cup ({trash[i][Last(row.path)]} \ {None})]
  <2> DEFINE q == [o EXCEPT !.todo = todo, !.writes = @ \cup {x}]
  <2>1. row.path \in Paths /\ row.sig \in 1..made /\ row.sig \in Content
    BY <1>2, <1>4, RowForm, MadeForm DEF TInv
  <2>2. x \in Write /\ x.id # 0
    BY <2>1 DEF Write
  <2> HIDE DEF x
  <2>3. /\ q \in Request /\ q.op = "delete" /\ q.step = o.step
        /\ \A y \in q.writes : y.id = 0 => y \in o.writes
    BY <1>1, <2>2 DEF Request
  <2> HIDE DEF q
  <2>4. Formed(q, made)
    BY <1>1, <2>3 DEF Formed, AnyRequest, Single, Movers
  <2>5. RequestOK'
    BY <1>2, <1>4, <2>4, RequestTurn DEF q
  <2>6. disk \in [Paths -> Content] /\ (\A p \in Paths : disk[p] <= made) /\ None \in Content
    BY <1>2 DEF TInv, DiskOK, Content
  <2>7. DiskOK'
    BY <1>2, <1>4, <2>1, <2>6 DEF DiskOK
  <2>8. trash[i] \in [Names -> Content] /\ Last(row.path) \in Names
    BY <2>1 DEF TInv, TrashOK, Names
  <2>9. TrashOK' /\ late' \in [lost : SUBSET Content, rows : SUBSET Ids]
    BY <1>4, <2>1, <2>6, <2>8 DEF TInv, TrashOK, HistoryOK, Binned
  <2>10. QED
    BY <1>2, <2>5, <2>7, <2>9 DEF TInv, FilesOK, JobsOK, WorkerOK, ScanOK, HistoryOK, Present
<1>5. CASE /\ request' = [request EXCEPT ![r] = [o EXCEPT !.todo = todo]]
           /\ UNCHANGED <<disk, trash, late>>
  <2> DEFINE q == [o EXCEPT !.todo = todo]
  <2>1. q \in Request /\ q.op = "delete" /\ q.step = o.step /\ q.writes = o.writes
    BY <1>1 DEF Request
  <2> HIDE DEF q
  <2>2. Formed(q, made)
    BY <1>1, <2>1 DEF Formed, AnyRequest, Single, Movers
  <2>3. RequestOK'
    BY <1>2, <1>5, <2>2, RequestTurn DEF q
  <2>4. QED
    BY <1>2, <1>5, <2>3
       DEF TInv, DiskOK, TrashOK, FilesOK, JobsOK, WorkerOK, ScanOK, HistoryOK, Present
<1>6. QED
  BY <1>3, <1>4, <1>5

\* What a request that is over leaves is of the types, if the rows are.
LEMMA OverKeeps ==
  ASSUME TInv, NEW r \in Requests, Over(r), UNCHANGED <<disk, trash, worker, scan, made, gone>>,
         FilesOK', JobsOK', late' \in [lost : SUBSET Content, rows : SUBSET Ids],
         calm' \in BOOLEAN
  PROVE  TInv'
<1>1. RequestOK'
  BY FormedServed, RequestTurn DEF Over
<1>2. QED
  BY <1>1 DEF TInv, DiskOK, TrashOK, WorkerOK, ScanOK, HistoryOK

LEMMA NewRow ==
  ASSUME NEW p \in Paths, NEW c \in Content
  PROVE  /\ New(p, c) \in Row /\ New(p, c) # NoRow
         /\ New(p, c).path = p /\ New(p, c).sig = c /\ New(p, c).sha = None
         /\ New(p, c).status = "active"
<1>1. New(p, c) \in Row /\ New(p, c).status = "active"
  BY DEF New, Row, Content
<1>2. NoRow.status = "absent"
  BY DEF NoRow
<1>3. QED
  BY <1>1, <1>2 DEF New

LEMMA DeleteCommitKeeps ==
  ASSUME TInv, NEW r \in Requests, DeleteCommit(r), calm' \in BOOLEAN
  PROVE  TInv'
<1>1. \A i \in Ids : files'[i] = NoRow \/ files'[i] = files[i]
  BY DEF DeleteCommit
<1>2. files' \in [Ids -> Row \cup {NoRow}]
  BY <1>1 DEF DeleteCommit, TInv, FilesOK
<1>3. FilesOK'
  BY <1>1, <1>2 DEF DeleteCommit, TInv, FilesOK, Present
<1>4. QED
  BY <1>3, OverKeeps DEF DeleteCommit, TInv, JobsOK, HistoryOK

\* The rows of one path, none or one, or else the id asked for it.
Taken(p) == IF At(p) = {} THEN NextIds(1) ELSE At(p)

LEMMA OneTaken ==
  ASSUME TInv, NEW p \in Paths
  PROVE  /\ Taken(p) \subseteq Ids
         /\ \A i, j \in Taken(p) : i = j
         /\ \A i \in Ids : Present(i) /\ files[i].path = p => i \in Taken(p)
<1>1. \A i, j \in At(p) : i = j
  BY DEF At, TInv, FilesOK
<1>2. At(p) \subseteq Ids /\ \A i \in Ids : Present(i) /\ files[i].path = p => i \in At(p)
  BY DEF At
<1>3. NextIds(1) \subseteq Ids
  BY NewIds
<1>4. CASE At(p) = {}
  <2>1. Taken(p) = NextIds(1)
    BY <1>4 DEF Taken
  <2>2. QED
    BY <1>2, <1>3, <1>4, <2>1, OneNewId
<1>5. CASE At(p) # {}
  <2>1. Taken(p) = At(p)
    BY <1>5 DEF Taken
  <2>2. QED
    BY <1>1, <1>2, <2>1
<1>6. QED
  BY <1>4, <1>5

\* One row is written, to a path that no other row has.
LEMMA OneRowWritten ==
  ASSUME TInv, NEW p \in Paths, made' = made, files' \in [Ids -> Row \cup {NoRow}],
         \A i \in Ids : i \notin Taken(p) => files'[i] = files[i],
         \A i \in Taken(p) : files'[i].path = p /\ files'[i].sig \in 1..made
  PROVE  FilesOK'
<1>1. /\ Taken(p) \subseteq Ids /\ \A i, j \in Taken(p) : i = j
      /\ \A i \in Ids : Present(i) /\ files[i].path = p => i \in Taken(p)
  BY OneTaken
<1>2. ASSUME NEW i \in Ids, Present(i)' PROVE files'[i].sig \in 1..made'
  <2>1. CASE i \in Taken(p)
    BY <2>1
  <2>2. CASE i \notin Taken(p)
    BY <1>2, <2>2 DEF TInv, FilesOK, Present
  <2>3. QED
    BY <2>1, <2>2
<1>3. ASSUME NEW i \in Ids, NEW j \in Ids, Present(i)', Present(j)', i # j
      PROVE  files'[i].path # files'[j].path
  <2>1. CASE i \in Taken(p) /\ j \notin Taken(p)
    <3>1. Present(j) /\ files'[j].path = files[j].path
      BY <1>3, <2>1 DEF Present
    <3>2. QED
      BY <1>1, <2>1, <3>1
  <2>2. CASE i \notin Taken(p) /\ j \in Taken(p)
    <3>1. Present(i) /\ files'[i].path = files[i].path
      BY <1>3, <2>2 DEF Present
    <3>2. QED
      BY <1>1, <2>2, <3>1
  <2>3. CASE i \notin Taken(p) /\ j \notin Taken(p)
    BY <1>3, <2>3 DEF Present, TInv, FilesOK
  <2>4. QED
    BY <1>1, <1>3, <2>1, <2>2, <2>3
<1>4. QED
  BY <1>2, <1>3 DEF FilesOK

LEMMA UploadCommitKeeps ==
  ASSUME TInv, NEW r \in Requests, UploadCommit(r), calm' \in BOOLEAN
  PROVE  TInv'
<1> DEFINE x == CHOOSE w \in request[r].writes : TRUE
           S == Taken(x.to)
<1>1. /\ x.to \in Paths /\ x.sig \in Content /\ x.sig \in 1..made
  <2>1. Formed(request[r], made) /\ request[r].op = "upload" /\ request[r].step = NoStep
    BY DEF UploadCommit, TInv, RequestOK
  <2>2. request[r] \in Request
    BY <2>1, Forms DEF Formed, Single
  <2>3. request[r].writes # {} /\ request[r].writes \subseteq Write
    BY <2>1, <2>2 DEF Formed, Request
  <2>4. x \in request[r].writes
    BY <2>3
  <2> HIDE DEF x
  <2>5. x \in Write /\ x.sig \in 1..made
    BY <2>1, <2>3, <2>4 DEF Formed
  <2>6. QED
    BY <2>5 DEF Write
<1>2. /\ files' = [i \in Ids |-> IF i \in S THEN New(x.to, x.sig) ELSE files[i]]
      /\ jobs' = jobs \cup S
      /\ late' = [late EXCEPT !.rows = (@ \ S) \cup Touched(S)]
      /\ Over(r) /\ UNCHANGED <<disk, trash, worker, scan, made, gone>>
  BY DEF UploadCommit, Taken
<1> HIDE DEF x
<1>3. S \subseteq Ids
  BY <1>1, OneTaken
<1>4. files' \in [Ids -> Row \cup {NoRow}]
  BY <1>1, <1>2, NewRow DEF TInv, FilesOK
<1>5. \A i \in S : files'[i].path = x.to /\ files'[i].sig \in 1..made
  BY <1>1, <1>2, <1>3, NewRow
<1>6. \A i \in Ids : i \notin S => files'[i] = files[i]
  BY <1>2
<1>7. FilesOK'
  BY <1>1, <1>2, <1>4, <1>5, <1>6, OneRowWritten
<1>8. JobsOK'
  BY <1>2, <1>3 DEF TInv, JobsOK
<1>9. late' \in [lost : SUBSET Content, rows : SUBSET Ids]
  BY <1>2, <1>3 DEF Touched, TInv, HistoryOK
<1>10. QED
  BY <1>2, <1>7, <1>8, <1>9, OverKeeps

\* What a commit does to the rows: the new ids and those of the moved rows each take a write
\* of their own.
Written(W, new) == new \cup {i \in Ids : \E x \in W : x.id = i}
CommitOf(W, new, g) ==
  /\ \A i \in new : ~Present(i) /\ g[i].id = 0
  /\ \A i \in Written(W, new) : i \notin new => Present(i) /\ g[i].id = i
  /\ \A i, j \in Written(W, new) : i # j => g[i] # g[j]
  /\ files' = [i \in Ids |->
       IF i \in new THEN New(g[i].to, g[i].sig)
       ELSE IF i \in Written(W, new)
         THEN [files[i] EXCEPT !.path = g[i].to]
       ELSE files[i]]
  /\ jobs' = jobs \cup new
  /\ late' = [late EXCEPT !.rows = (@ \ new) \cup Doubtful(new \cup {x.id : x \in W})]

LEMMA WritesForm ==
  ASSUME TInv, NEW r \in Requests, TransferCommit(r)
  PROVE  /\ request[r].writes \subseteq Write
         /\ \A x \in request[r].writes : x.id = 0 => x.sig \in 1..made
<1>1. Formed(request[r], made) /\ request[r].op \in Movers \cup Whole
  BY DEF TInv, RequestOK, TransferCommit, Ready, Movers, Whole
<1>2. request[r] \in Request \/ request[r] \in Transfer
  BY <1>1, Forms DEF Formed, Single, Movers
<1>3. QED
  BY <1>1, <1>2 DEF Formed, Movers, Single, Request, Transfer

LEMMA Committed ==
  ASSUME TInv, NEW r \in Requests, TransferCommit(r), ~Refused(request[r].writes)
  PROVE  \E new \in SUBSET Ids :
           \E g \in [Written(request[r].writes, new) -> request[r].writes] :
             CommitOf(request[r].writes, new, g)
<1> DEFINE W == request[r].writes
           fresh == {x \in W : x.id = 0}
           new == NextIds(Cardinality(fresh))
<1>1. W \subseteq Write
  BY WritesForm
<1>2. new \subseteq Ids /\ \A i \in new : ~Present(i)
  BY NewIds
<1>3. \A x \in W : x.id # 0 => Present(x.id) /\ x.id \in Ids
  BY <1>1 DEF Refused, Write
<1>4. PICK f \in Bijection(new, fresh) :
             files' = [i \in Ids |->
                    IF i \in new THEN New(f[i].to, f[i].sig)
                    ELSE IF \E x \in W : x.id = i
                      THEN [files[i] EXCEPT !.path = (CHOOSE x \in W : x.id = i).to]
                    ELSE files[i]]
  BY DEF TransferCommit
<1>5. /\ f \in [new -> fresh]
      /\ \A i, j \in new : f[i] = f[j] => i = j
  BY DEF Bijection, Injection, IsInjective
<1>6. /\ jobs' = jobs \cup new
      /\ late' = [late EXCEPT !.rows = (@ \ new) \cup Doubtful(new \cup {x.id : x \in W})]
  BY DEF TransferCommit
<1> HIDE DEF new, W
<1> DEFINE own(i) == CHOOSE x \in W : x.id = i
           g == [i \in Written(W, new) |-> IF i \in new THEN f[i] ELSE own(i)]
<1>7. ASSUME NEW i \in Written(W, new), i \notin new
      PROVE  own(i) \in W /\ own(i).id = i /\ Present(i) /\ \E x \in W : x.id = i
  <2>1. i \in Ids /\ \E x \in W : x.id = i
    BY <1>7 DEF Written
  <2>2. own(i) \in W /\ own(i).id = i
    BY <2>1
  <2>3. QED
    BY <1>3, <2>1, <2>2
<1>8. \A i \in new : f[i] \in W /\ f[i].id = 0 /\ i \in Written(W, new)
  BY <1>5 DEF Written
<1>9. files' = [i \in Ids |->
       IF i \in new THEN New(f[i].to, f[i].sig)
       ELSE IF i \in Written(W, new)
         THEN [files[i] EXCEPT !.path = own(i).to]
       ELSE files[i]]
  BY <1>4, <1>7 DEF Written
<1> HIDE DEF own
<1>10. g \in [Written(W, new) -> W]
  BY <1>7, <1>8
<1>11. \A i \in Written(W, new) : g[i] = IF i \in new THEN f[i] ELSE own(i)
  OBVIOUS
<1> HIDE DEF g
<1>12. \A i \in Written(W, new) : IF i \in new THEN g[i].id = 0 ELSE g[i].id = i
  BY <1>7, <1>8, <1>11
<1>13. \A i \in new : g[i] = f[i] /\ g[i].id = 0
  BY <1>8, <1>11
<1>14. ASSUME NEW i \in Written(W, new), NEW j \in Written(W, new), i # j PROVE g[i] # g[j]
  <2>1. CASE i \in new /\ j \in new
    BY <1>5, <1>13, <1>14, <2>1
  <2>2. CASE ~(i \in new /\ j \in new)
    <3>1. Written(W, new) \subseteq 1..MaxId
      BY <1>2 DEF Written
    <3>2. QED
      BY <1>12, <1>14, <2>2, <3>1
  <2>3. QED
    BY <2>1, <2>2
<1>15. files' = [i \in Ids |->
       IF i \in new THEN New(g[i].to, g[i].sig)
       ELSE IF i \in Written(W, new)
         THEN [files[i] EXCEPT !.path = g[i].to]
       ELSE files[i]]
  BY <1>8, <1>9, <1>11
<1>16. CommitOf(W, new, g)
  BY <1>2, <1>6, <1>7, <1>12, <1>13, <1>14, <1>15 DEF CommitOf
<1>17. QED
  BY <1>2, <1>10, <1>16 DEF W

\* The rows after a commit, by id.
LEMMA CommitRows ==
  ASSUME TInv, NEW W, W \subseteq Write, \A x \in W : x.id = 0 => x.sig \in 1..made,
         NEW new \in SUBSET Ids, NEW g \in [Written(W, new) -> W],
         CommitOf(W, new, g), NEW i \in Ids
  PROVE  /\ i \in new => files'[i] = New(g[i].to, g[i].sig)
         /\ i \in Written(W, new) =>
              /\ g[i] \in W /\ g[i].to \in Paths /\ files'[i] \in Row
              /\ files'[i].path = g[i].to /\ files'[i].sig \in 1..made
         /\ i \in Written(W, new) /\ i \notin new =>
              /\ Present(i) /\ files'[i].sig = files[i].sig /\ files'[i].sha = files[i].sha
              /\ files'[i].status = files[i].status
         /\ i \notin Written(W, new) => files'[i] = files[i]
<1>0. new \subseteq Written(W, new)
  BY DEF Written
<1>1. CASE i \in new
  <2>1. g[i] \in W /\ g[i].id = 0
    BY <1>0, <1>1 DEF CommitOf
  <2>2. g[i].to \in Paths /\ g[i].sig \in Content /\ g[i].sig \in 1..made
    BY <2>1 DEF Write
  <2>3. files'[i] = New(g[i].to, g[i].sig)
    BY <1>1 DEF CommitOf
  <2>4. QED
    BY <1>0, <1>1, <2>1, <2>2, <2>3, NewRow
<1>2. CASE i \in Written(W, new) /\ i \notin new
  <2>1. g[i] \in W /\ Present(i)
    BY <1>2 DEF CommitOf
  <2>2. g[i].to \in Paths /\ files[i] \in Row /\ files[i].sig \in 1..made
    BY <2>1, RowForm DEF Write, TInv
  <2>3. files'[i] = [files[i] EXCEPT !.path = g[i].to]
    BY <1>2 DEF CommitOf
  <2>4. /\ files'[i] \in Row /\ files'[i].path = g[i].to
        /\ files'[i].sig = files[i].sig /\ files'[i].sha = files[i].sha
        /\ files'[i].status = files[i].status
    <3> DEFINE row == files[i]
               to == g[i].to
    <3>1. row \in Row /\ to \in Paths
      BY <2>2
    <3>2. files'[i] = [row EXCEPT !.path = to]
      BY <2>3
    <3> HIDE DEF row, to
    <3>3. /\ files'[i] \in Row /\ files'[i].path = to
          /\ files'[i].sig = row.sig /\ files'[i].sha = row.sha
          /\ files'[i].status = row.status
      BY <3>1, <3>2 DEF Row
    <3>4. QED
      BY <3>3 DEF row, to
  <2>5. QED
    BY <1>2, <2>1, <2>2, <2>4
<1>3. CASE i \notin Written(W, new)
  BY <1>0, <1>3 DEF CommitOf
<1>4. QED
  BY <1>1, <1>2, <1>3

\* A commit that the table does not refuse leaves one row of each path.
LEMMA CommitKeepsRows ==
  ASSUME TInv, NEW W, W \subseteq Write, \A x \in W : x.id = 0 => x.sig \in 1..made,
         ~Refused(W), NEW new \in SUBSET Ids,
         NEW g \in [Written(W, new) -> W], CommitOf(W, new, g), made' = made
  PROVE  FilesOK'
<1> DEFINE written == Written(W, new)
<1>1. written \subseteq Ids
  BY DEF Written
<1>2. files' \in [Ids -> Row \cup {NoRow}]
  <2>1. ASSUME NEW i \in Ids PROVE files'[i] \in Row \cup {NoRow}
    <3>1. CASE i \in written
      BY <3>1, CommitRows
    <3>2. CASE i \notin written
      <4>1. files'[i] = files[i]
        BY <3>2, CommitRows
      <4>2. QED
        BY <4>1 DEF TInv, FilesOK
    <3>3. QED
      BY <3>1, <3>2
  <2>2. QED
    BY <2>1 DEF CommitOf
<1>3. ASSUME NEW i \in Ids, Present(i)' PROVE files'[i].sig \in 1..made'
  <2>1. CASE i \in written
    BY <2>1, CommitRows
  <2>2. CASE i \notin written
    <3>1. files'[i] = files[i]
      BY <2>2, CommitRows
    <3>2. QED
      BY <1>3, <3>1 DEF TInv, FilesOK, Present
  <2>3. QED
    BY <2>1, <2>2
<1>4. ASSUME NEW i \in written, NEW j \in Ids, j \notin written, Present(j)'
      PROVE  files'[i].path # files'[j].path
  <2>1. i \in Ids /\ g[i] \in W /\ files'[i].path = g[i].to
    BY <1>1, CommitRows
  <2>2. files'[j] = files[j] /\ Present(j)
    <3>1. files'[j] = files[j]
      BY <1>4, CommitRows
    <3>2. QED
      BY <1>4, <3>1 DEF Present
  <2>3. g[i].id = 0 \/ g[i].id = i
    BY <1>4 DEF CommitOf
  <2>4. j # g[i].id
    BY <1>4, <2>3
  <2>5. j \notin At(g[i].to)
    BY <2>1, <2>4 DEF Refused
  <2>6. QED
    BY <2>1, <2>2, <2>5 DEF At
<1>5. ASSUME NEW i \in written, NEW j \in written, i # j
      PROVE  files'[i].path # files'[j].path
  <2>1. g[i] # g[j]
    BY <1>5 DEF CommitOf
  <2>2. g[i] \in W /\ files'[i].path = g[i].to /\ g[j] \in W /\ files'[j].path = g[j].to
    BY <1>1, CommitRows
  <2>3. QED
    BY <2>1, <2>2 DEF Refused
<1>6. ASSUME NEW i \in Ids, NEW j \in Ids, Present(i)', Present(j)', i # j
      PROVE  files'[i].path # files'[j].path
  <2>1. CASE i \notin written /\ j \notin written
    <3>1. files'[i] = files[i] /\ files'[j] = files[j]
      BY <2>1, CommitRows
    <3>2. QED
      BY <1>6, <3>1 DEF TInv, FilesOK, Present
  <2>2. QED
    BY <1>4, <1>5, <1>6, <2>1
<1>7. QED
  BY <1>2, <1>3, <1>6 DEF FilesOK

LEMMA TransferCommitKeeps ==
  ASSUME TInv, NEW r \in Requests, TransferCommit(r), calm' \in BOOLEAN
  PROVE  TInv'
<1> DEFINE W == request[r].writes
<1>1. Over(r) /\ UNCHANGED <<disk, trash, worker, scan, made, gone>>
  BY DEF TransferCommit
<1>2. CASE Refused(W)
  <2>1. UNCHANGED <<files, jobs, late>>
    BY <1>2 DEF TransferCommit
  <2>2. FilesOK' /\ JobsOK' /\ late' \in [lost : SUBSET Content, rows : SUBSET Ids]
    BY <1>1, <2>1 DEF TInv, FilesOK, JobsOK, HistoryOK, Present
  <2>3. QED
    BY <1>1, <2>2, OverKeeps
<1>3. CASE ~Refused(W)
  <2>1. PICK new \in SUBSET Ids :
               \E g \in [Written(W, new) -> W] : CommitOf(W, new, g)
    BY <1>3, Committed
  <2>2. PICK g \in [Written(W, new) -> W] : CommitOf(W, new, g)
    BY <2>1
  <2>3. FilesOK'
    BY <1>1, <1>3, <2>2, WritesForm, CommitKeepsRows
  <2>4. JobsOK' /\ late' \in [lost : SUBSET Content, rows : SUBSET Ids]
    BY <2>2 DEF CommitOf, TInv, JobsOK, HistoryOK, Doubtful, Touched
  <2>5. QED
    BY <1>1, <2>3, <2>4, OverKeeps
<1>4. QED
  BY <1>2, <1>3

LEMMA FolderStartKeeps ==
  ASSUME TInv, NEW r \in Requests, NEW op \in Whole, NEW src \in Folders, NEW dest \in Folders,
         FolderStart(r, op, src, dest), calm' \in BOOLEAN
  PROVE  TInv'
<1> DEFINE base == Append(dest, Last(src))
           rows == {[id |-> i, path |-> files[i].path] :
                      i \in {j \in Ids : Present(j) /\ Active(j) /\ Below(src, files[j].path)}}
           q == [op |-> op, from |-> src, to |-> base, writes |-> {}, rows |-> rows]
<1>1. base \in Folders /\ request' = [request EXCEPT ![r] = q] /\ made' = made
  BY DEF FolderStart, Start
<1>2. q \in Transfer /\ q.op = op /\ q.writes = {}
  <2>1. \A i \in Ids : Present(i) => files[i].path \in Paths
    BY RowForm DEF TInv
  <2>2. rows \subseteq [id : Ids, path : Paths]
    BY <2>1
  <2> HIDE DEF rows
  <2>3. QED
    BY <1>1, <2>2 DEF Transfer, Whole
<1> HIDE DEF q
<1>3. Formed(q, made)
  BY <1>2 DEF Formed, AnyRequest, Single, Movers, Whole
<1>4. RequestOK'
  BY <1>1, <1>3, RequestTurn
<1>5. QED
  BY <1>4 DEF TInv, FolderStart, DiskOK, TrashOK, FilesOK, JobsOK, WorkerOK, ScanOK, HistoryOK,
     Present

LEMMA FolderTransferKeeps ==
  ASSUME TInv, NEW r \in Requests, FolderTransfer(r), calm' \in BOOLEAN
  PROVE  TInv'
<1> DEFINE o == request[r]
           src == o.from
           base == o.to
           copy == o.op = "copy-folder"
           all == {p \in Paths : Below(src, p) /\ disk[p] # None}
           rows == o.rows
           x(i) == [id |-> IF copy THEN 0 ELSE i.id, to |-> Moved(src, base, i.path),
                    sig |-> disk[i.path]]
           W == {x(i) : i \in rows}
<1>1. Formed(o, made) /\ o \in Transfer /\ o.op \in Whole /\ rows \subseteq [id : Ids, path : Paths]
  BY Forms DEF TInv, RequestOK, FolderTransfer, Whole, Transfer
<1>2. UNCHANGED <<trash, files, jobs, worker, scan, made, gone>> /\ made \in Nat
  BY MadeForm DEF FolderTransfer, TInv
<1>3. disk \in [Paths -> Content] /\ (\A p \in Paths : disk[p] <= made) /\ None \in Content
  BY <1>2 DEF TInv, DiskOK, Content
<1>4. DiskOK'
  <2>1. disk' = [p \in Paths |->
          IF \E q \in all : Moved(src, base, q) = p
            THEN disk[CHOOSE q \in all : Moved(src, base, q) = p]
          ELSE IF p \in all /\ ~copy THEN None ELSE disk[p]]
    BY DEF FolderTransfer
  <2>2. ASSUME NEW p \in Paths PROVE disk'[p] \in Content /\ disk'[p] <= made
    <3> DEFINE m(q) == Moved(src, base, q)
    <3> HIDE DEF m
    <3>1. disk'[p] = IF \E q \in all : m(q) = p THEN disk[CHOOSE q \in all : m(q) = p]
                     ELSE IF p \in all /\ ~copy THEN None ELSE disk[p]
      BY <2>1 DEF m
    <3>2. (\E q \in all : m(q) = p) => (CHOOSE q \in all : m(q) = p) \in Paths
      OBVIOUS
    <3>3. QED
      BY <1>2, <1>3, <3>1, <3>2
  <2>3. QED
    BY <1>2, <2>1, <2>2 DEF DiskOK
<1>5. \/ request' = [request EXCEPT ![r] = Served]
      \/ /\ copy => \A i \in rows : disk[i.path] # None
         /\ request' = [request EXCEPT ![r] = [o EXCEPT !.writes = W]]
  BY DEF FolderTransfer, Over, TInv, RequestOK
<1>6. \A i \in rows : /\ i.path \in Paths /\ disk[i.path] \in Content
                      /\ disk[i.path] <= made
                      /\ Moved(src, base, i.path) \in Paths
  BY <1>1, <1>3 DEF FolderTransfer
<1>7. late' \in [lost : SUBSET Content, rows : SUBSET Ids]
  BY DEF FolderTransfer, TInv, HistoryOK, Doubtful, Touched
<1> HIDE DEF o
<1>8. CASE request' = [request EXCEPT ![r] = Served]
  <2>1. RequestOK'
    BY <1>2, <1>8, FormedServed, RequestTurn
  <2>2. QED
    BY <1>2, <1>4, <1>7, <2>1
       DEF TInv, TrashOK, FilesOK, JobsOK, WorkerOK, ScanOK, HistoryOK, Present
<1>9. CASE /\ copy => \A i \in rows : disk[i.path] # None
           /\ request' = [request EXCEPT ![r] = [o EXCEPT !.writes = W]]
  <2> DEFINE q == [o EXCEPT !.writes = W]
  <2>1. ASSUME NEW i \in rows PROVE x(i) \in Write /\ (x(i).id = 0 => x(i).sig \in 1..made)
    <3>1. i.id \in Ids /\ i.id # 0
      BY <1>1 DEF Ids
    <3>2. copy => disk[i.path] \in 1..made
      BY <1>2, <1>6, <1>9 DEF Content
    <3>3. QED
      BY <1>6, <3>1, <3>2 DEF Write
  <2>2. W \subseteq Write /\ \A y \in W : y.id = 0 => y.sig \in 1..made
    BY <2>1
  <2> HIDE DEF W
  <2>3. q \in Transfer /\ q.op = o.op /\ q.writes = W
    BY <1>1, <2>2 DEF Transfer
  <2> HIDE DEF q
  <2>4. Formed(q, made)
    BY <1>1, <2>2, <2>3 DEF Formed, AnyRequest, Single, Movers, Whole
  <2>5. RequestOK'
    BY <1>2, <1>9, <2>4, RequestTurn DEF q
  <2>6. QED
    BY <1>2, <1>4, <1>7, <2>5
       DEF TInv, TrashOK, FilesOK, JobsOK, WorkerOK, ScanOK, HistoryOK, Present
<1>10. QED
  BY <1>5, <1>8, <1>9

LEMMA ScanStartKeeps ==
  ASSUME TInv, ScanStart, calm' \in BOOLEAN
  PROVE  TInv'
<1>1. RequestOK'
  BY RequestsKept, MadeForm DEF TInv, ScanStart
<1>2. QED
  BY <1>1 DEF TInv, ScanStart, DiskOK, TrashOK, FilesOK, JobsOK, WorkerOK, ScanOK, HistoryOK,
     Present

LEMMA ScanReconcileKeeps ==
  ASSUME TInv, ScanReconcile, calm' \in BOOLEAN
  PROVE  TInv'
<1>1. RequestOK' /\ made' = made
  BY RequestsKept, MadeForm DEF TInv, ScanReconcile
<1>2. ASSUME NEW i \in Ids
      PROVE  \/ files'[i] = files[i]
             \/ /\ Present(i) /\ files'[i] \in Row
                /\ files'[i].path = files[i].path /\ files'[i].sig = files[i].sig
  <2>1. CASE i \in Vanished
    <3>1. files[i] \in Row /\ Present(i)
      BY <2>1, RowForm DEF Vanished, TInv
    <3>2. files'[i] = [files[i] EXCEPT !.status = "missing"]
      BY <2>1 DEF ScanReconcile
    <3>3. QED
      BY <3>1, <3>2 DEF Row
  <2>2. CASE i \notin Vanished
    BY <2>2 DEF ScanReconcile
  <2>3. QED
    BY <2>1, <2>2
<1>3. files' \in [Ids -> Row \cup {NoRow}]
  BY <1>2 DEF ScanReconcile, TInv, FilesOK
<1>4. FilesOK'
  BY <1>1, <1>2, <1>3 DEF TInv, FilesOK, Present
<1>5. QED
  BY <1>1, <1>4
     DEF TInv, ScanReconcile, NoScan, DiskOK, TrashOK, JobsOK, WorkerOK, ScanOK, HistoryOK

LEMMA ScanVisitKeeps ==
  ASSUME TInv, NEW p \in Paths, ScanVisit(p), calm' \in BOOLEAN
  PROVE  TInv'
<1> DEFINE S == Taken(p)
           queued == {i \in S : ~Present(i) \/ files[i].sig # disk[p]}
<1>1. RequestOK' /\ UNCHANGED <<disk, trash, request, worker, made, gone>>
  BY RequestsKept, MadeForm DEF TInv, ScanVisit
<1>2. S \subseteq Ids
  BY OneTaken
<1>3. scan' \in [pc : {"idle", "walk"}, left : SUBSET Paths, unseen : SUBSET Ids]
  <2>1. \/ scan' = [scan EXCEPT !.left = @ \ {p}]
        \/ scan' = [scan EXCEPT !.left = @ \ {p}, !.unseen = @ \ S]
    BY DEF ScanVisit, Taken
  <2> HIDE DEF S
  <2>2. QED
    BY <2>1 DEF TInv, ScanOK
<1>4. CASE disk[p] = None
  <2>1. UNCHANGED <<files, jobs, late>>
    BY <1>4 DEF ScanVisit
  <2>2. QED
    BY <1>1, <1>3, <2>1
       DEF TInv, DiskOK, TrashOK, FilesOK, JobsOK, WorkerOK, ScanOK, HistoryOK, Present
<1>5. CASE disk[p] # None
  <2>1. /\ files' = [i \in Ids |->
                    IF i \notin S THEN files[i]
                    ELSE IF Present(i) THEN Rescanned(files[i], disk[p]) ELSE New(p, disk[p])]
        /\ jobs' = jobs \cup queued
        /\ late' = [late EXCEPT !.rows = (@ \ queued) \cup Touched(queued)]
    BY <1>5 DEF ScanVisit, Taken
  <2>2. disk[p] \in Content /\ disk[p] \in 1..made
    BY <1>5, MadeForm DEF TInv, DiskOK, Content
  <2>3. ASSUME NEW i \in S
        PROVE  files'[i] \in Row /\ files'[i].path = p /\ files'[i].sig = disk[p]
    <3>1. CASE ~Present(i)
      BY <1>2, <2>1, <2>2, <3>1, NewRow
    <3>2. CASE Present(i)
      <4>1. At(p) # {} /\ i \in At(p)
        BY <1>2, <2>3, <3>2, NewIds DEF Taken
      <4>2. files[i] \in Row /\ files[i].path = p
        BY <1>2, <3>2, <4>1, RowForm DEF At, TInv
      <4>3. files'[i] = Rescanned(files[i], disk[p])
        BY <1>2, <2>1, <3>2
      <4>4. CASE files[i].sig # disk[p]
        BY <2>2, <4>2, <4>3, <4>4, NewRow DEF Rescanned
      <4>5. CASE files[i].sig = disk[p]
        BY <4>2, <4>3, <4>5 DEF Rescanned, Row
      <4>6. QED
        BY <4>4, <4>5
    <3>3. QED
      BY <3>1, <3>2
  <2>4. \A i \in Ids : i \notin S => files'[i] = files[i]
    BY <2>1
  <2>5. files' \in [Ids -> Row \cup {NoRow}]
    <3>1. \A i \in Ids : files'[i] \in Row \cup {NoRow}
      BY <2>3, <2>4 DEF TInv, FilesOK
    <3>2. QED
      BY <2>1, <3>1
  <2>6. FilesOK'
    BY <1>1, <2>2, <2>3, <2>4, <2>5, OneRowWritten
  <2>7. late' \in [lost : SUBSET Content, rows : SUBSET Ids]
    BY <2>1, <1>2 DEF TInv, HistoryOK, Touched
  <2>8. QED
    BY <1>1, <1>2, <1>3, <2>1, <2>6, <2>7
       DEF TInv, DiskOK, TrashOK, JobsOK, WorkerOK, ScanOK, HistoryOK
<1>6. QED
  BY <1>4, <1>5

\* A job or another program writes fields of a row other than its path and signature.
LEMMA RowTouched ==
  ASSUME TInv, made' = made, files' \in [Ids -> Row \cup {NoRow}],
         \A i \in Ids : \/ files'[i] = files[i]
                        \/ Present(i) /\ files'[i].path = files[i].path
                                      /\ files'[i].sig = files[i].sig
  PROVE  FilesOK'
  BY DEF TInv, FilesOK, Present

LEMMA JobStartKeeps ==
  ASSUME TInv, NEW w \in Workers, NEW i \in Ids, JobStart(w, i), calm' \in BOOLEAN
  PROVE  TInv'
<1>1. RequestOK' /\ UNCHANGED <<disk, trash, files, request, scan, made, gone, late>>
  BY RequestsKept, MadeForm DEF TInv, JobStart
<1>2. worker' \in [Workers -> Job \cup {NoJob}]
  <2>1. CASE ~Present(i)
    BY <2>1 DEF JobStart, TInv, WorkerOK
  <2>2. CASE Present(i)
    <3>1. files[i] \in Row
      BY <2>2, RowForm DEF TInv
    <3>2. [pc |-> "look", id |-> i, path |-> files[i].path, sha |-> files[i].sha] \in Job
      BY <3>1 DEF Row, Job
    <3>3. QED
      BY <2>2, <3>2 DEF JobStart, TInv, WorkerOK
  <2>3. QED
    BY <2>1, <2>2
<1>3. JobsOK'
  BY DEF JobStart, TInv, JobsOK
<1>4. QED
  BY <1>1, <1>2, <1>3
     DEF TInv, DiskOK, TrashOK, FilesOK, WorkerOK, ScanOK, HistoryOK, Present

LEMMA JobLookKeeps ==
  ASSUME TInv, NEW w \in Workers, JobLook(w), calm' \in BOOLEAN
  PROVE  TInv'
<1> DEFINE i == worker[w].id
<1>1. RequestOK' /\ UNCHANGED <<disk, trash, jobs, request, scan, made, gone, late>>
  BY RequestsKept, MadeForm DEF TInv, JobLook
<1>2. worker[w] \in Job /\ i \in Ids
  BY JobForm DEF JobLook, TInv
<1>3. /\ \/ files' = IF Present(i) THEN [files EXCEPT ![i].status = "missing"] ELSE files
         \/ files' = files
      /\ worker' = [worker EXCEPT ![w] = NoJob] \/ worker' = [worker EXCEPT ![w].pc = "hash"]
  BY DEF JobLook, Ends
<1>4. worker' \in [Workers -> Job \cup {NoJob}]
  <2>1. [worker[w] EXCEPT !.pc = "hash"] \in Job
    BY <1>2 DEF Job
  <2>2. QED
    BY <1>3, <2>1 DEF TInv, WorkerOK
<1> HIDE DEF i
<1>5. FilesOK'
  <2>1. CASE files' = files
    BY <1>1, <2>1 DEF TInv, FilesOK, Present
  <2>2. CASE Present(i) /\ files' = [files EXCEPT ![i].status = "missing"]
    <3>1. files[i] \in Row /\ [files[i] EXCEPT !.status = "missing"] \in Row
      BY <1>2, <2>2, RowForm DEF TInv, Row
    <3>2. \A j \in Ids : files'[j] = IF j = i THEN [files[i] EXCEPT !.status = "missing"]
                                     ELSE files[j]
      BY <2>2 DEF TInv, FilesOK
    <3>3. files'[i].path = files[i].path /\ files'[i].sig = files[i].sig
      BY <1>2, <3>1, <3>2 DEF Row
    <3>4. files' \in [Ids -> Row \cup {NoRow}]
      BY <2>2, <3>1 DEF TInv, FilesOK
    <3>5. QED
      BY <1>1, <1>2, <2>2, <3>2, <3>3, <3>4, RowTouched
  <2>3. QED
    BY <1>3, <2>1, <2>2
<1>6. QED
  BY <1>1, <1>4, <1>5 DEF TInv, DiskOK, TrashOK, JobsOK, WorkerOK, ScanOK, HistoryOK

LEMMA JobHashKeeps ==
  ASSUME TInv, NEW w \in Workers, JobHash(w), calm' \in BOOLEAN
  PROVE  TInv'
<1>1. RequestOK' /\ UNCHANGED <<disk, trash, files, jobs, request, scan, made, gone, late>>
  BY RequestsKept, MadeForm DEF TInv, JobHash
<1>2. worker[w] \in Job
  BY JobForm DEF JobHash, TInv
<1>3. disk[worker[w].path] \in Content
  BY <1>2 DEF TInv, DiskOK, Job
<1>4. [worker[w] EXCEPT !.pc = "hashed", !.sha = disk[worker[w].path]] \in Job
  BY <1>2, <1>3 DEF Job
<1>5. worker' \in [Workers -> Job \cup {NoJob}]
  BY <1>4 DEF JobHash, Ends, TInv, WorkerOK
<1>6. QED
  BY <1>1, <1>5
     DEF TInv, DiskOK, TrashOK, FilesOK, JobsOK, WorkerOK, ScanOK, HistoryOK, Present

LEMMA JobHashedKeeps ==
  ASSUME TInv, NEW w \in Workers, JobHashed(w), calm' \in BOOLEAN
  PROVE  TInv'
<1> DEFINE i == worker[w].id
           sha == worker[w].sha
<1>1. RequestOK' /\ UNCHANGED <<disk, trash, jobs, request, scan, made, gone, late>>
  BY RequestsKept, MadeForm DEF TInv, JobHashed
<1>2. worker[w] \in Job /\ i \in Ids /\ sha \in Content
  BY JobForm DEF JobHashed, TInv, Job
<1>3. /\ files' = IF Present(i) THEN [files EXCEPT ![i].sha = sha] ELSE files
      /\ worker' = [worker EXCEPT ![w] = NoJob]
  BY DEF JobHashed, Ends
<1>4. worker' \in [Workers -> Job \cup {NoJob}]
  BY <1>3 DEF TInv, WorkerOK
<1> HIDE DEF i, sha
<1>5. FilesOK'
  <2>1. CASE ~Present(i)
    BY <1>1, <1>3, <2>1 DEF TInv, FilesOK, Present
  <2>2. CASE Present(i)
    <3>1. files[i] \in Row /\ [files[i] EXCEPT !.sha = sha] \in Row
      BY <1>2, <2>2, RowForm DEF TInv, Row
    <3>2. \A j \in Ids : files'[j] = IF j = i THEN [files[i] EXCEPT !.sha = sha] ELSE files[j]
      BY <1>3, <2>2 DEF TInv, FilesOK
    <3>3. files'[i].path = files[i].path /\ files'[i].sig = files[i].sig
      BY <1>2, <3>1, <3>2 DEF Row
    <3>4. files' \in [Ids -> Row \cup {NoRow}]
      BY <1>3, <2>2, <3>1 DEF TInv, FilesOK
    <3>5. QED
      BY <1>1, <1>2, <2>2, <3>2, <3>3, <3>4, RowTouched
  <2>3. QED
    BY <2>1, <2>2
<1>6. QED
  BY <1>1, <1>4, <1>5 DEF TInv, DiskOK, TrashOK, JobsOK, WorkerOK, ScanOK, HistoryOK

LEMMA EditKeeps ==
  ASSUME TInv, NEW p \in Paths, Edit(p), calm' \in BOOLEAN
  PROVE  TInv'
<1>1. made \in Nat /\ made < MaxMade /\ made' = made + 1 /\ disk' = [disk EXCEPT ![p] = made + 1]
  BY MadeForm DEF TInv, Edit
<1>2. made' \in Nat /\ made <= made' /\ made' \in Content
  BY <1>1 DEF Content
<1>3. RequestOK'
  BY <1>1, <1>2, RequestsKept DEF TInv, Edit
<1>4. DiskOK'
  BY <1>1, <1>2 DEF TInv, DiskOK, Content
<1>5. \A c \in 1..made : c \in 1..made'
  BY <1>1
<1>6. FilesOK'
  BY <1>5 DEF Edit, TInv, FilesOK, Present
<1>7. gone' \subseteq Content
  BY DEF Edit, TInv, HistoryOK, DiskOK
<1>8. QED
  BY <1>2, <1>3, <1>4, <1>6, <1>7 DEF Edit, TInv, TrashOK, JobsOK, WorkerOK, ScanOK, HistoryOK

LEMMA CrashKeeps ==
  ASSUME TInv, Crash, calm' \in BOOLEAN
  PROVE  TInv'
<1>1. \A r \in Requests : request'[r] = request[r] \/ request'[r] = Served
  BY DEF Crash
<1>2. request' \in [Requests -> AnyRequest] /\ made' = made
  BY <1>1 DEF Crash, TInv, RequestOK, AnyRequest
<1>3. RequestOK'
  BY <1>1, <1>2, FormedServed DEF TInv, RequestOK
<1>4. QED
  BY <1>3 DEF Crash, TInv, DiskOK, TrashOK, FilesOK, JobsOK, WorkerOK, ScanOK, HistoryOK, Present

-------------------------------------------------------------------------------
(***************************************************************************)
(* A step is a scan's, a request's, a job's or none of them.               *)
(***************************************************************************)
LEMMA CalmForm == TInv /\ Next => calm' \in BOOLEAN
  BY DEF TInv, HistoryOK, Next

LEMMA TypesStep == TInv /\ [Next]_vars => TInv'
<1> SUFFICES ASSUME TInv, [Next]_vars PROVE TInv'
  OBVIOUS
<1>1. CASE UNCHANGED vars
  BY <1>1 DEF vars, TInv, DiskOK, TrashOK, FilesOK, JobsOK, RequestOK, WorkerOK, ScanOK,
              HistoryOK, Present
<1>2. CASE Next
  <2>0. calm' \in BOOLEAN
    BY <1>2, CalmForm
  <2>1. CASE Scan
    BY <2>0, <2>1, ScanStartKeeps, ScanReconcileKeeps, ScanVisitKeeps DEF Scan
  <2>2. ASSUME NEW r \in Requests, Serve(r) PROVE TInv'
    <3>1. CASE \E f \in Folders, n \in Names : UploadStart(r, f, n)
      BY <2>0, <3>1, UploadStartKeeps
    <3>2. CASE \E i \in Ids, p \in Paths : RenameStart(r, i, p)
      BY <2>0, <3>2, RenameStartKeeps
    <3>3. CASE \E S \in SUBSET Ids : \/ BatchStart(r, "delete", S, <<>>)
                     \/ \E op \in {"move", "copy"}, f \in Folders : BatchStart(r, op, S, f)
      BY <2>0, <3>3, BatchStartKeeps
    <3>4. CASE \E op \in Whole, f, g \in Folders : FolderStart(r, op, f, g)
      BY <2>0, <3>4, FolderStartKeeps
    <3>5. CASE \E i \in Ids : TransferNext(r, i) \/ DeleteFile(r, i)
      BY <2>0, <3>5, TransferNextKeeps, DeleteFileKeeps
    <3>6. CASE UploadWrite(r) \/ TransferFile(r) \/ FolderTransfer(r)
      BY <2>0, <3>6, UploadWriteKeeps, TransferFileKeeps, FolderTransferKeeps
    <3>7. CASE TransferCommit(r) \/ UploadCommit(r) \/ DeleteCommit(r)
      BY <2>0, <3>7, TransferCommitKeeps, UploadCommitKeeps, DeleteCommitKeeps
    <3>8. QED
      BY <2>2, <3>1, <3>2, <3>3, <3>4, <3>5, <3>6, <3>7 DEF Serve, Whole
  <2>3. ASSUME NEW w \in Workers, Index(w) PROVE TInv'
    BY <2>0, <2>3, JobStartKeeps, JobLookKeeps, JobHashKeeps, JobHashedKeeps DEF Index
  <2>4. CASE \E p \in Paths : Edit(p)
    BY <2>0, <2>4, EditKeeps
  <2>5. CASE Crash
    BY <2>0, <2>5, CrashKeeps
  <2>6. QED
    BY <1>2, <2>1, <2>2, <2>3, <2>4, <2>5 DEF Next
<1>3. QED
  BY <1>1, <1>2

LEMMA TypesInit == Init => TInv
<1> SUFFICES ASSUME Init PROVE TInv
  OBVIOUS
<1>1. made \in Nat /\ disk \in [Paths -> Content] /\ made \in Content
  BY DEF Init, Content
<1>2. \A p \in Paths : disk[p] <= made
  <2>1. ASSUME NEW p \in Paths, disk[p] # None PROVE disk[p] \in 1..made
    BY <2>1 DEF Init
  <2>2. QED
    BY <1>1, <2>1
<1>3. FilesOK
  BY DEF Init, FilesOK, Present, NoRow
<1>4. RequestOK
  BY DEF Init, RequestOK, Formed, AnyRequest, NoRequest, Single, Whole
<1>5. TrashOK
  BY <1>1 DEF Init, TrashOK, Content
<1>6. JobsOK /\ WorkerOK /\ ScanOK
  BY DEF Init, JobsOK, WorkerOK, ScanOK, NoScan
<1>7. HistoryOK
  BY <1>1 DEF Init, HistoryOK
<1>8. QED
  BY <1>1, <1>2, <1>3, <1>4, <1>5, <1>6, <1>7 DEF TInv, DiskOK

\* Every variable keeps its type, two rows never have one path, and a request that is about
\* to put a file somewhere found no file there.
THEOREM DocumentTypes == Spec => [](TInv /\ TypeOK)
<1>1. Init => TInv
  BY TypesInit
<1>2. TInv /\ [Next]_vars => TInv'
  BY TypesStep
<1>3. QED
  BY <1>1, <1>2, TypesFollow, PTL DEF Spec

-------------------------------------------------------------------------------
(***************************************************************************)
(* No document is destroyed.                                               *)
(***************************************************************************)
\* A path below a folder is the folder's, and a rest.
Rest(src, p) == SubSeq(p, Len(src) + 1, Len(p))

LEMMA PathSplits ==
  ASSUME NEW src \in Seq(STRING), NEW p \in Seq(STRING), Below(src, p)
  PROVE  /\ Rest(src, p) \in Seq(STRING) /\ Rest(src, p) # <<>>
         /\ p = src \o Rest(src, p)
<1>1. Len(src) \in Nat /\ Len(p) \in Nat /\ Len(src) <= Len(p)
  BY DEF Below, IsStrictPrefix, IsPrefix
<1>2. SubSeq(p, 1, Len(src)) = src
  BY SubSeqFull DEF Below, IsStrictPrefix, IsPrefix
<1>3. SubSeq(p, 1, Len(p)) = p
  BY SubSeqFull
<1>4. SubSeq(p, 1, Len(src)) \o SubSeq(p, Len(src) + 1, Len(p)) = SubSeq(p, 1, Len(p))
  <2>1. 1 \in 1..Len(p) + 1 /\ Len(src) \in 1 - 1..Len(p) /\ Len(p) \in Len(src)..Len(p)
    BY <1>1
  <2>2. QED
    BY <2>1, ConcatAdjacentSubSeq
<1>5. Rest(src, p) \in Seq(STRING)
  <2>1. \A n \in Len(src) + 1..Len(p) : p[n] \in STRING
    BY <1>1
  <2>2. QED
    BY <1>1, <2>1, SubSeqProperties DEF Rest
<1>6. p = src \o Rest(src, p)
  BY <1>2, <1>3, <1>4 DEF Rest
<1>7. Rest(src, p) # <<>>
  <2>1. src \o <<>> = src
    BY ConcatEmptySeq
  <2>2. QED
    BY <1>6, <2>1 DEF Below, IsStrictPrefix
<1>8. QED
  BY <1>5, <1>6, <1>7

LEMMA PathBelow ==
  ASSUME NEW base \in Seq(STRING), NEW t \in Seq(STRING), t # <<>>
  PROVE  Below(base, base \o t)
<1>1. Len(base) \in Nat /\ Len(t) \in Nat /\ Len(base \o t) = Len(base) + Len(t)
  BY ConcatProperties
<1>2. SubSeq(base \o t, 1, Len(base)) = SubSeq(base, 1, Len(base))
  <2>1. CASE Len(base) = 0
    BY <2>1, SubSeqEmpty
  <2>2. CASE Len(base) # 0
    <3>1. 1 \in 1..Len(base) /\ Len(base) \in 1..Len(base)
      BY <1>1, <2>2
    <3>2. QED
      BY <3>1, SubSeqOfConcat1
  <2>3. QED
    BY <2>1, <2>2
<1>3. base # base \o t
  BY ConcatSimplifications
<1>4. QED
  BY <1>1, <1>2, <1>3 DEF Below, IsStrictPrefix, IsPrefix

\* A folder's files move to below the new folder, each to a path of its own.
LEMMA MovesApart ==
  ASSUME NEW src \in Seq(STRING), NEW base \in Seq(STRING),
         NEW p \in Seq(STRING), Below(src, p)
  PROVE  /\ Below(base, Moved(src, base, p))
         /\ \A q \in Seq(STRING) :
              Below(src, q) /\ Moved(src, base, p) = Moved(src, base, q) => p = q
<1>1. Moved(src, base, p) = base \o Rest(src, p)
  BY DEF Moved, Rest
<1>2. Rest(src, p) \in Seq(STRING) /\ Rest(src, p) # <<>> /\ p = src \o Rest(src, p)
  BY PathSplits
<1>3. Below(base, Moved(src, base, p))
  BY <1>1, <1>2, PathBelow
<1>4. ASSUME NEW q \in Seq(STRING), Below(src, q), Moved(src, base, p) = Moved(src, base, q)
      PROVE  p = q
  <2>1. Rest(src, q) \in Seq(STRING) /\ q = src \o Rest(src, q)
    BY <1>4, PathSplits
  <2>2. base \o Rest(src, p) = base \o Rest(src, q)
    BY <1>4 DEF Moved, Rest
  <2>3. Rest(src, p) = Rest(src, q)
    BY <1>2, <2>1, <2>2, ConcatSimplifications
  <2>4. QED
    BY <1>2, <2>1, <2>3
<1>5. QED
  BY <1>3, <1>4

\* Where a content is, or how it was lost.
OnDisk(c)  == \E p \in Paths : disk[p] = c
InTrash(c) == \E i \in Ids, n \in Names : trash[i][n] = c
Lost(c)    == c \in gone \cup late.lost

LEMMA SurvivesStill ==
  ASSUME DocumentsSurvive, UNCHANGED <<disk, trash, made, gone>>, late'.lost = late.lost
  PROVE  DocumentsSurvive'
  BY DEF DocumentsSurvive

\* Each step that changes what is on disk keeps every content that was there.
LEMMA SurvivesStep ==
  ASSUME TInv, DocumentsSurvive, made' = made,
         \A c \in 1..made : OnDisk(c) => OnDisk(c)' \/ InTrash(c)' \/ Lost(c)',
         \A c \in 1..made : InTrash(c) => InTrash(c)' \/ Lost(c)',
         \A c \in 1..made : Lost(c) => Lost(c)'
  PROVE  DocumentsSurvive'
  BY DEF DocumentsSurvive, OnDisk, InTrash, Lost

LEMMA WrittenSurvives ==
  ASSUME TInv, DocumentsSurvive, NEW p \in Paths, made' = made + 1,
         disk' = [disk EXCEPT ![p] = made + 1], trash' = trash, late'.lost = late.lost,
         gone \subseteq gone', disk[p] # None => disk[p] \in gone'
  PROVE  DocumentsSurvive'
<1>1. made \in Nat /\ disk \in [Paths -> Content]
  BY MadeForm DEF TInv, DiskOK
<1>2. disk'[p] = made' /\ \A q \in Paths : q # p => disk'[q] = disk[q]
  BY <1>1
<1>3. ASSUME NEW c \in 1..made'
      PROVE  OnDisk(c)' \/ InTrash(c)' \/ Lost(c)'
  <2>1. CASE c = made'
    BY <1>2, <2>1 DEF OnDisk
  <2>2. CASE c # made'
    <3>1. c \in 1..made /\ c # None
      BY <1>1, <2>2
    <3>2. OnDisk(c) \/ InTrash(c) \/ Lost(c)
      BY <3>1 DEF DocumentsSurvive, OnDisk, InTrash, Lost
    <3>3. CASE OnDisk(c)
      <4>1. PICK q \in Paths : disk[q] = c
        BY <3>3 DEF OnDisk
      <4>2. CASE q = p
        BY <3>1, <4>1, <4>2 DEF Lost
      <4>3. CASE q # p
        BY <1>2, <4>1, <4>3 DEF OnDisk
      <4>4. QED
        BY <4>2, <4>3
    <3>4. CASE InTrash(c)
      BY <3>4 DEF InTrash
    <3>5. CASE Lost(c)
      BY <3>5 DEF Lost
    <3>6. QED
      BY <3>2, <3>3, <3>4, <3>5
  <2>3. QED
    BY <2>1, <2>2
<1>4. QED
  BY <1>3 DEF DocumentsSurvive, OnDisk, InTrash, Lost

LEMMA UploadWriteSurvives ==
  ASSUME TInv, DocumentsSurvive, NEW r \in Requests, UploadWrite(r)
  PROVE  DocumentsSurvive'
<1> DEFINE p == request[r].step.to
<1>1. p \in Paths
  BY Forms, StepForm DEF TInv, RequestOK, UploadWrite, Single, Request, Step
<1>2. trash' = trash /\ gone' = gone /\ late' = late
  BY DEF UploadWrite
<1>3. CASE disk[p] # None
  BY <1>2, <1>3, SurvivesStill DEF UploadWrite
<1>4. CASE disk[p] = None
  <2>1. made' = made + 1 /\ disk' = [disk EXCEPT ![p] = made + 1]
    BY <1>4 DEF UploadWrite
  <2>2. QED
    BY <1>1, <1>2, <1>4, <2>1, WrittenSurvives
<1>5. QED
  BY <1>3, <1>4

LEMMA EditSurvives ==
  ASSUME TInv, DocumentsSurvive, NEW p \in Paths, Edit(p)
  PROVE  DocumentsSurvive'
  BY WrittenSurvives DEF Edit

\* What a file is put over was not there when its name was chosen.
LEMMA TransferFileSurvives ==
  ASSUME TInv, DocumentsSurvive, NEW r \in Requests, TransferFile(r)
  PROVE  DocumentsSurvive'
<1> DEFINE o == request[r]
           from == o.step.from
           to == o.step.to
<1>1. /\ Formed(o, made) /\ o \in Request /\ o.op \in Movers /\ o.step # NoStep
      /\ o.step \in Step
  BY Forms, StepForm DEF TInv, RequestOK, TransferFile, Single, Movers, Request
<1>2. to \in Paths /\ from \in Paths /\ o.step.saw = None /\ (o.op # "copy" => from # to)
  BY <1>1 DEF Formed, Step, Single, Movers
<1>3. UNCHANGED <<trash, made, gone>> /\ disk \in [Paths -> Content] /\ made \in Nat
  BY MadeForm DEF TransferFile, TInv, DiskOK
<1>4. CASE disk[from] = None
  BY <1>3, <1>4, SurvivesStill DEF TransferFile
<1>5. CASE disk[from] # None
  <2>1. /\ disk' = [disk EXCEPT ![to] = disk[from],
                                ![from] = IF o.op = "copy" THEN @ ELSE None]
        /\ late' = [late EXCEPT
             !.lost = IF disk[to] # None /\ o.step.saw = None THEN @ \cup {disk[to]} ELSE @,
             !.rows = @ \cup Doubtful(At(to))]
    BY <1>5 DEF TransferFile
  <2> HIDE DEF o
  <2>2. disk'[to] = disk[from] /\ \A q \in Paths : q # to /\ q # from => disk'[q] = disk[q]
    BY <1>2, <1>3, <2>1
  <2>3. late.lost \subseteq late'.lost /\ (disk[to] # None => disk[to] \in late'.lost)
    BY <1>2, <2>1 DEF TInv, HistoryOK
  <2>4. ASSUME NEW c \in 1..made, OnDisk(c) PROVE OnDisk(c)' \/ Lost(c)'
    <3>1. PICK q \in Paths : disk[q] = c
      BY <2>4 DEF OnDisk
    <3>2. c # None
      BY <1>3
    <3>3. CASE q = to
      BY <2>3, <3>1, <3>2, <3>3 DEF Lost
    <3>4. CASE q = from
      BY <1>2, <2>2, <3>1, <3>4 DEF OnDisk
    <3>5. CASE q # to /\ q # from
      BY <2>2, <3>1, <3>5 DEF OnDisk
    <3>6. QED
      BY <3>3, <3>4, <3>5
  <2>5. QED
    BY <1>3, <2>3, <2>4, SurvivesStep DEF InTrash, Lost
<1>6. QED
  BY <1>4, <1>5

\* A deleted file is in the trash; only the file that lay there under a reused id is lost.
LEMMA DeleteFileSurvives ==
  ASSUME TInv, DocumentsSurvive, NEW r \in Requests, NEW i \in Ids, DeleteFile(r, i)
  PROVE  DocumentsSurvive'
<1> DEFINE row == files[i]
           name == Last(row.path)
<1>1. UNCHANGED <<made, gone>> /\ disk \in [Paths -> Content] /\ made \in Nat
  BY MadeForm DEF DeleteFile, TInv, DiskOK
<1>2. CASE ~(Present(i) /\ Active(i))
  BY <1>1, <1>2, SurvivesStill DEF DeleteFile
<1>3. CASE Present(i) /\ Active(i)
  <2>1. /\ trash' = [trash EXCEPT ![i] = Binned(i, row)]
        /\ disk' = [disk EXCEPT ![row.path] = None]
        /\ late' = [late EXCEPT !.lost = IF disk[row.path] = None THEN @
                                         ELSE @ \cup ({trash[i][name]} \ {None})]
    BY <1>3 DEF DeleteFile
  <2>2. row.path \in Paths /\ name \in Names
    BY <1>3, RowForm DEF TInv, Names
  <2> HIDE DEF row, name
  <2>3. trash \in [Ids -> [Names -> Content]] /\ trash[i] \in [Names -> Content]
    BY DEF TInv, TrashOK
  <2>4. /\ \A j \in Ids, n \in Names : j # i \/ n # name => trash'[j][n] = trash[j][n]
        /\ trash'[i][name] = IF disk[row.path] = None THEN trash[i][name] ELSE disk[row.path]
    BY <2>1, <2>2, <2>3 DEF Binned, row, name
  <2>5. /\ late.lost \subseteq late'.lost
        /\ disk[row.path] # None /\ trash[i][name] # None => trash[i][name] \in late'.lost
    BY <2>1 DEF TInv, HistoryOK
  <2>6. \A q \in Paths : q # row.path => disk'[q] = disk[q]
    BY <1>1, <2>1
  <2>7. ASSUME NEW c \in 1..made, OnDisk(c) PROVE OnDisk(c)' \/ InTrash(c)'
    <3>1. PICK q \in Paths : disk[q] = c
      BY <2>7 DEF OnDisk
    <3>2. c # None
      BY <1>1
    <3>3. CASE q = row.path
      BY <2>2, <2>4, <3>1, <3>2, <3>3 DEF InTrash
    <3>4. CASE q # row.path
      BY <2>6, <3>1, <3>4 DEF OnDisk
    <3>5. QED
      BY <3>3, <3>4
  <2>8. ASSUME NEW c \in 1..made, InTrash(c) PROVE InTrash(c)' \/ Lost(c)'
    <3>1. PICK j \in Ids, n \in Names : trash[j][n] = c
      BY <2>8 DEF InTrash
    <3>2. c # None
      BY <1>1
    <3>3. CASE j # i \/ n # name
      BY <2>4, <3>1, <3>3 DEF InTrash
    <3>4. CASE j = i /\ n = name
      <4>1. CASE disk[row.path] = None
        BY <2>4, <3>1, <3>4, <4>1 DEF InTrash
      <4>2. CASE disk[row.path] # None
        BY <2>5, <3>1, <3>2, <3>4, <4>2 DEF Lost
      <4>3. QED
        BY <4>1, <4>2
    <3>5. QED
      BY <3>3, <3>4
  <2>9. QED
    BY <1>1, <2>5, <2>7, <2>8, SurvivesStep DEF Lost
<1>4. QED
  BY <1>2, <1>3

LEMMA FolderTransferSurvives ==
  ASSUME TInv, DocumentsSurvive, NEW r \in Requests, FolderTransfer(r)
  PROVE  DocumentsSurvive'
<1> DEFINE o == request[r]
           src == o.from
           base == o.to
           copy == o.op = "copy-folder"
           all == {p \in Paths : Below(src, p) /\ disk[p] # None}
           m(p) == Moved(src, base, p)
<1>1. src \in Seq(STRING) /\ base \in Seq(STRING)
  BY Forms DEF TInv, RequestOK, FolderTransfer, Whole, Transfer
<1>2. UNCHANGED <<trash, made, gone>> /\ late'.lost = late.lost /\ made \in Nat
  BY MadeForm DEF FolderTransfer, TInv, HistoryOK
<1>3. /\ \A p \in all : m(p) \in Paths
      /\ \A p \in Paths : Below(base, p) => disk[p] = None
      /\ disk' = [p \in Paths |->
           IF \E q \in all : m(q) = p THEN disk[CHOOSE q \in all : m(q) = p]
           ELSE IF p \in all /\ ~copy THEN None ELSE disk[p]]
  BY DEF FolderTransfer
<1>4. \A p \in all : Below(base, m(p)) /\ \A q \in all : m(p) = m(q) => p = q
  BY <1>1, MovesApart
<1> HIDE DEF m
<1>5. ASSUME NEW c \in 1..made, OnDisk(c) PROVE OnDisk(c)'
  <2>1. PICK p \in Paths : disk[p] = c
    BY <1>5 DEF OnDisk
  <2>2. c # None
    BY <1>2
  <2>3. CASE p \in all
    <3>1. (CHOOSE q \in all : m(q) = m(p)) = p
      <4>1. (CHOOSE q \in all : m(q) = m(p)) \in all /\ m(CHOOSE q \in all : m(q) = m(p)) = m(p)
        BY <2>3
      <4>2. QED
        BY <1>4, <2>3, <4>1
    <3>2. m(p) \in Paths
      BY <1>3, <2>3
    <3>3. disk'[m(p)] = disk[p]
      BY <1>3, <2>3, <3>1, <3>2
    <3>4. QED
      BY <2>1, <3>2, <3>3 DEF OnDisk
  <2>4. CASE p \notin all
    <3>1. ~ \E q \in all : m(q) = p
      BY <1>3, <1>4, <2>1, <2>2
    <3>2. disk'[p] = disk[p]
      BY <1>3, <2>4, <3>1
    <3>3. QED
      BY <2>1, <3>2 DEF OnDisk
  <2>5. QED
    BY <2>3, <2>4
<1>6. QED
  BY <1>2, <1>5, SurvivesStep DEF InTrash, Lost

LEMMA SurviveStep == TInv /\ DocumentsSurvive /\ [Next]_vars => DocumentsSurvive'
<1> SUFFICES ASSUME TInv, DocumentsSurvive, [Next]_vars PROVE DocumentsSurvive'
  OBVIOUS
<1> DEFINE Idle == UNCHANGED <<disk, trash, made, gone>> /\ late'.lost = late.lost
<1>0. late \in [lost : SUBSET Content, rows : SUBSET Ids]
  BY DEF TInv, HistoryOK
<1>1. CASE UNCHANGED vars
  BY <1>1, SurvivesStill DEF vars
<1>2. CASE Next
  <2>1. CASE Scan
    <3>1. Idle
      BY <1>0, <2>1 DEF Scan, ScanStart, ScanReconcile, ScanVisit
    <3>2. QED
      BY <3>1, SurvivesStill
  <2>2. ASSUME NEW r \in Requests, Serve(r) PROVE DocumentsSurvive'
    <3>1. CASE UploadWrite(r) \/ TransferFile(r) \/ FolderTransfer(r)
      BY <3>1, UploadWriteSurvives, TransferFileSurvives, FolderTransferSurvives
    <3>2. CASE \E i \in Ids : DeleteFile(r, i)
      BY <3>2, DeleteFileSurvives
    <3>3. CASE TransferCommit(r) \/ UploadCommit(r) \/ DeleteCommit(r)
      <4>1. Idle
        BY <1>0, <3>3 DEF TransferCommit, UploadCommit, DeleteCommit
      <4>2. QED
        BY <4>1, SurvivesStill
    <3>4. CASE \/ \E f \in Folders, n \in Names : UploadStart(r, f, n)
               \/ \E i \in Ids, p \in Paths : RenameStart(r, i, p)
               \/ \E S \in SUBSET Ids : \/ BatchStart(r, "delete", S, <<>>)
                       \/ \E op \in {"move", "copy"}, f \in Folders : BatchStart(r, op, S, f)
               \/ \E op \in Whole, f, g \in Folders : FolderStart(r, op, f, g)
               \/ \E i \in Ids : TransferNext(r, i)
      <4>1. Idle
        BY <3>4 DEF UploadStart, RenameStart, BatchStart, FolderStart, TransferNext
      <4>2. QED
        BY <4>1, SurvivesStill
    <3>5. QED
      BY <2>2, <3>1, <3>2, <3>3, <3>4 DEF Serve, Whole
  <2>3. ASSUME NEW w \in Workers, Index(w) PROVE DocumentsSurvive'
    <3>1. Idle
      BY <2>3 DEF Index, JobStart, JobLook, JobHash, JobHashed
    <3>2. QED
      BY <3>1, SurvivesStill
  <2>4. CASE \E p \in Paths : Edit(p)
    BY <2>4, EditSurvives
  <2>5. CASE Crash
    BY <2>5, SurvivesStill DEF Crash
  <2>6. QED
    BY <1>2, <2>1, <2>2, <2>3, <2>4, <2>5 DEF Next
<1>3. QED
  BY <1>1, <1>2

\* Whatever requests, crashes, scans and other programs do, in any order: a content that was
\* once written is on disk or in the trash, or was lost in one of the ways named.
THEOREM NothingIsDestroyed == Spec => []DocumentsSurvive
<1>1. Init => DocumentsSurvive
  <2>1. ASSUME Init, NEW c \in 1..made PROVE \E p \in Paths : disk[p] = c
    <3>1. c \in {disk[p] : p \in Paths}
      BY <2>1 DEF Init
    <3>2. QED
      BY <3>1
  <2>2. QED
    BY <2>1 DEF DocumentsSurvive
<1>2. QED
  BY <1>1, SurviveStep, DocumentTypes, PTL DEF Spec

-------------------------------------------------------------------------------
(***************************************************************************)
(* Hashes are of the contents they stand by.  A job hashes what it finds,  *)
(* which may not be what the row says; so long as nobody moves the row or  *)
(* puts another file there, the file then differs from the row, and the    *)
(* next scan sees it.                                                      *)
(***************************************************************************)
RowRight(i) == files[i].sha \in {None, files[i].sig} \/ disk[files[i].path] # files[i].sig
JobRight(i, w) ==
  /\ worker[w].path = files[i].path
  /\ worker[w].pc = "hashed" =>
       worker[w].sha = files[i].sig \/ disk[files[i].path] # files[i].sig

HashesHold ==
  \A i \in Ids : Present(i) /\ i \notin late.rows =>
    RowRight(i) /\ \A w \in Workers : worker[w].id = i => JobRight(i, w)

LEMMA CurrentFollows == HashesHold => IndexedIsCurrent
  BY DEF HashesHold, RowRight, IndexedIsCurrent

\* A step may leave a row, its file and its jobs alone but for a file that is not what the
\* row says, or write a row that no job works on, with no hash or the right one.
Left(i) == /\ Present(i) /\ i \notin late.rows
           /\ files'[i].path = files[i].path /\ files'[i].sig = files[i].sig
           /\ files'[i].sha = files[i].sha
           /\ \/ disk'[files[i].path] = disk[files[i].path]
              \/ disk'[files[i].path] # files[i].sig
Clean(i) == /\ files'[i].sha \in {None, files'[i].sig}
            /\ \A w \in Workers : worker[w].id # i

LEMMA HashesKept ==
  ASSUME HashesHold, worker' = worker,
         \A i \in Ids : Present(i)' /\ i \notin late'.rows => Left(i) \/ Clean(i)
  PROVE  HashesHold'
<1> SUFFICES ASSUME NEW i \in Ids, Present(i)', i \notin late'.rows
             PROVE  RowRight(i)' /\ \A w \in Workers : worker'[w].id = i => JobRight(i, w)'
  BY DEF HashesHold
<1>1. CASE Left(i)
  <2>1. RowRight(i) /\ \A w \in Workers : worker[w].id = i => JobRight(i, w)
    BY <1>1 DEF HashesHold, Left
  <2>2. RowRight(i)'
    BY <1>1, <2>1 DEF Left, RowRight
  <2>3. ASSUME NEW w \in Workers, worker'[w].id = i PROVE JobRight(i, w)'
    BY <1>1, <2>1, <2>3 DEF Left, JobRight
  <2>4. QED
    BY <2>2, <2>3
<1>2. CASE Clean(i)
  BY <1>2 DEF Clean, RowRight
<1>3. QED
  BY <1>1, <1>2

\* The rows stay, and of the files only those change that are then not what a row says.
LEMMA HashesOnDisk ==
  ASSUME TInv, HashesHold, worker' = worker, files' = files, late' = late,
         \A p \in Paths : disk'[p] = disk[p] \/ disk'[p] \notin 1..made
  PROVE  HashesHold'
<1>1. ASSUME NEW i \in Ids, Present(i)', i \notin late'.rows PROVE Left(i)
  <2>1. Present(i) /\ i \notin late.rows
    BY <1>1 DEF Present
  <2>2. files[i].path \in Paths /\ files[i].sig \in 1..made
    BY <2>1, RowForm DEF TInv
  <2>3. QED
    BY <2>1, <2>2 DEF Left
<1>2. QED
  BY <1>1, HashesKept

LEMMA HashesStill ==
  ASSUME TInv, HashesHold, UNCHANGED <<worker, files, disk, late>>
  PROVE  HashesHold'
  BY HashesOnDisk

LEMMA UploadWriteHashes ==
  ASSUME TInv, HashesHold, NEW r \in Requests, UploadWrite(r)
  PROVE  HashesHold'
<1>1. made \in Nat /\ disk \in [Paths -> Content]
  BY MadeForm DEF TInv, DiskOK
<1>2. \A p \in Paths : disk'[p] = disk[p] \/ disk'[p] = made + 1
  BY <1>1 DEF UploadWrite
<1>3. made + 1 \notin 1..made
  BY <1>1
<1>4. QED
  BY <1>2, <1>3, HashesOnDisk DEF UploadWrite

LEMMA EditHashes ==
  ASSUME TInv, HashesHold, NEW p \in Paths, Edit(p)
  PROVE  HashesHold'
<1>1. made \in Nat /\ disk \in [Paths -> Content]
  BY MadeForm DEF TInv, DiskOK
<1>2. \A q \in Paths : disk'[q] = disk[q] \/ disk'[q] = made + 1
  BY <1>1 DEF Edit
<1>3. made + 1 \notin 1..made
  BY <1>1
<1>4. QED
  BY <1>2, <1>3, HashesOnDisk DEF Edit

\* Files come to paths whose rows are then late if they were doubtful.
LEMMA HashesAtNew ==
  ASSUME TInv, HashesHold, worker' = worker, files' = files, NEW P \in SUBSET Paths,
         late'.rows = late.rows \cup Doubtful(UNION {At(p) : p \in P}),
         \A p \in Paths \ P : disk'[p] = disk[p] \/ disk'[p] = None
  PROVE  HashesHold'
<1>1. ASSUME NEW i \in Ids, Present(i)', i \notin late'.rows PROVE Left(i) \/ Clean(i)
  <2>1. Present(i) /\ i \notin late.rows /\ i \notin Doubtful(UNION {At(p) : p \in P})
    BY <1>1 DEF Present
  <2>2. files[i].path \in Paths /\ files[i].sig \in 1..made /\ made \in Nat
    BY <2>1, RowForm, MadeForm DEF TInv
  <2>3. CASE files[i].path \in P
    <3>1. i \in At(files[i].path)
      BY <2>1 DEF At
    <3>2. i \in UNION {At(p) : p \in P}
      BY <2>3, <3>1
    <3>3. QED
      BY <2>1, <3>2 DEF Clean, Doubtful, Touched
  <2>4. CASE files[i].path \notin P
    BY <2>1, <2>2, <2>4 DEF Left
  <2>5. QED
    BY <2>3, <2>4
<1>2. QED
  BY <1>1, HashesKept

LEMMA TransferFileHashes ==
  ASSUME TInv, HashesHold, NEW r \in Requests, TransferFile(r)
  PROVE  HashesHold'
<1> DEFINE o == request[r]
           from == o.step.from
           to == o.step.to
<1>1. to \in Paths /\ from \in Paths
  BY Forms, StepForm
     DEF TInv, RequestOK, TransferFile, Single, Movers, Request, Formed, Step
<1>2. worker' = worker /\ files' = files /\ disk \in [Paths -> Content]
  BY DEF TransferFile, TInv, DiskOK
<1>3. CASE disk[from] = None
  BY <1>2, <1>3, HashesStill DEF TransferFile
<1>4. CASE disk[from] # None
  <2>1. /\ disk' = [disk EXCEPT ![to] = disk[from],
                                ![from] = IF o.op = "copy" THEN @ ELSE None]
        /\ late' = [late EXCEPT
             !.lost = IF disk[to] # None /\ o.step.saw = None THEN @ \cup {disk[to]} ELSE @,
             !.rows = @ \cup Doubtful(At(to))]
    BY <1>4 DEF TransferFile
  <2> HIDE DEF o
  <2>2. \A p \in Paths \ {to} : disk'[p] = disk[p] \/ disk'[p] = None
    BY <1>1, <1>2, <2>1
  <2>3. UNION {At(p) : p \in {to}} = At(to)
    OBVIOUS
  <2>4. late'.rows = late.rows \cup Doubtful(UNION {At(p) : p \in {to}})
    BY <2>1, <2>3 DEF TInv, HistoryOK
  <2>5. {to} \in SUBSET Paths
    BY <1>1
  <2>6. QED
    BY <1>2, <2>2, <2>4, <2>5, HashesAtNew
<1>5. QED
  BY <1>3, <1>4

LEMMA DeleteFileHashes ==
  ASSUME TInv, HashesHold, NEW r \in Requests, NEW i \in Ids, DeleteFile(r, i)
  PROVE  HashesHold'
<1>1. worker' = worker /\ files' = files /\ disk \in [Paths -> Content]
  BY DEF DeleteFile, TInv, DiskOK
<1>2. \A p \in Paths : disk'[p] = disk[p] \/ disk'[p] = None
  BY <1>1 DEF DeleteFile
<1>3. late'.rows = late.rows
  BY DEF DeleteFile, TInv, HistoryOK
<1>4. Doubtful(UNION {At(p) : p \in {}}) = {}
  BY DEF Doubtful, Touched
<1>5. QED
  BY <1>1, <1>2, <1>3, <1>4, HashesAtNew

LEMMA FolderTransferHashes ==
  ASSUME TInv, HashesHold, NEW r \in Requests, FolderTransfer(r)
  PROVE  HashesHold'
<1> DEFINE o == request[r]
           copy == o.op = "copy-folder"
           all == {p \in Paths : Below(o.from, p) /\ disk[p] # None}
           m(p) == Moved(o.from, o.to, p)
           P == {m(p) : p \in all}
<1>1. worker' = worker /\ files' = files /\ disk \in [Paths -> Content]
  BY DEF FolderTransfer, TInv, DiskOK
<1>2. /\ \A p \in all : m(p) \in Paths
      /\ disk' = [p \in Paths |->
           IF \E q \in all : m(q) = p THEN disk[CHOOSE q \in all : m(q) = p]
           ELSE IF p \in all /\ ~copy THEN None ELSE disk[p]]
  BY DEF FolderTransfer
<1>3. late'.rows = late.rows \cup Doubtful(UNION {At(m(p)) : p \in all})
  BY DEF FolderTransfer, TInv, HistoryOK
<1> HIDE DEF m
<1>4. P \in SUBSET Paths /\ UNION {At(p) : p \in P} = UNION {At(m(p)) : p \in all}
  BY <1>2
<1>5. \A p \in Paths \ P : disk'[p] = disk[p] \/ disk'[p] = None
  BY <1>2
<1>6. QED
  BY <1>1, <1>3, <1>4, <1>5, HashesAtNew

LEMMA CommitHashes ==
  ASSUME TInv, HashesHold, NEW r \in Requests, TransferCommit(r)
  PROVE  HashesHold'
<1> DEFINE W == request[r].writes
<1>1. worker' = worker /\ disk' = disk
  BY DEF TransferCommit
<1>2. CASE Refused(W)
  BY <1>1, <1>2, HashesStill DEF TransferCommit
<1>3. CASE ~Refused(W)
  <2>1. PICK new \in SUBSET Ids :
               \E g \in [Written(W, new) -> W] : CommitOf(W, new, g)
    BY <1>3, Committed
  <2>2. PICK g \in [Written(W, new) -> W] : CommitOf(W, new, g)
    BY <2>1
  <2>3. W \subseteq Write /\ \A x \in W : x.id = 0 => x.sig \in 1..made
    BY WritesForm
  <2> HIDE DEF W
  <2>4. late'.rows = (late.rows \ new) \cup Doubtful(new \cup {x.id : x \in W})
    BY <2>2 DEF CommitOf, TInv, HistoryOK
  <2>5. ASSUME NEW i \in Ids, Present(i)', i \notin late'.rows PROVE Left(i) \/ Clean(i)
    <3>1. CASE i \in new
      <4>1. i \in Written(W, new)
        BY <3>1 DEF Written
      <4>2. files'[i].sha = None
        <5>1. g[i] \in W
          BY <4>1
        <5>2. files'[i] = New(g[i].to, g[i].sig)
          BY <2>2, <3>1 DEF CommitOf
        <5>3. QED
          BY <5>2 DEF New
      <4>3. i \notin Touched(new \cup {x.id : x \in W})
        BY <2>4, <2>5 DEF Doubtful
      <4>4. QED
        BY <3>1, <4>2, <4>3 DEF Clean, Touched
    <3>2. CASE i \in Written(W, new) /\ i \notin new
      <4>1. /\ Present(i) /\ files'[i].sig = files[i].sig /\ files'[i].sha = files[i].sha
        BY <2>2, <2>3, <3>2, CommitRows
      <4>2. i \in {x.id : x \in W}
        BY <3>2 DEF Written
      <4>3. i \notin Doubtful(new \cup {x.id : x \in W})
        BY <2>4, <2>5
      <4>4. QED
        BY <4>1, <4>2, <4>3 DEF Clean, Doubtful, Touched
    <3>3. CASE i \notin Written(W, new)
      <4>1. i \notin new
        BY <3>3 DEF Written
      <4>2. files'[i] = files[i]
        BY <2>2, <3>3, <4>1 DEF CommitOf
      <4>3. Present(i) /\ i \notin late.rows
        BY <2>4, <2>5, <4>1, <4>2 DEF Present
      <4>4. QED
        BY <1>1, <4>2, <4>3 DEF Left
    <3>4. QED
      BY <3>1, <3>2, <3>3
  <2>6. QED
    BY <1>1, <2>5, HashesKept
<1>4. QED
  BY <1>2, <1>3

LEMMA UploadCommitHashes ==
  ASSUME TInv, HashesHold, NEW r \in Requests, UploadCommit(r)
  PROVE  HashesHold'
<1>1. worker' = worker /\ disk' = disk
  BY DEF UploadCommit
<1> DEFINE x == CHOOSE w \in request[r].writes : TRUE
           S == Taken(x.to)
<1>2. /\ files' = [i \in Ids |-> IF i \in S THEN New(x.to, x.sig) ELSE files[i]]
      /\ late' = [late EXCEPT !.rows = (@ \ S) \cup Touched(S)]
  BY DEF UploadCommit, Taken
<1> HIDE DEF x, S
<1>3. late'.rows = (late.rows \ S) \cup Touched(S)
  BY <1>2 DEF TInv, HistoryOK
<1>4. ASSUME NEW i \in Ids, Present(i)', i \notin late'.rows PROVE Left(i) \/ Clean(i)
  <2>1. CASE i \in S
    BY <1>2, <1>3, <1>4, <2>1 DEF Clean, Touched, New
  <2>2. CASE i \notin S
    BY <1>1, <1>2, <1>3, <1>4, <2>2 DEF Left, Present
  <2>3. QED
    BY <2>1, <2>2
<1>5. QED
  BY <1>1, <1>4, HashesKept

LEMMA DeleteCommitHashes ==
  ASSUME TInv, HashesHold, NEW r \in Requests, DeleteCommit(r)
  PROVE  HashesHold'
<1>1. ASSUME NEW i \in Ids, Present(i)', i \notin late'.rows PROVE Left(i)
  <2>1. files'[i] = files[i]
    BY <1>1 DEF DeleteCommit, Present
  <2>2. QED
    BY <1>1, <2>1 DEF DeleteCommit, Left, Present
<1>2. QED
  BY <1>1, HashesKept DEF DeleteCommit

\* A scan queues the rows it rewrites; a job that works on one is late.
LEMMA ScanVisitHashes ==
  ASSUME TInv, HashesHold, NEW p \in Paths, ScanVisit(p)
  PROVE  HashesHold'
<1> DEFINE S == Taken(p)
           queued == {i \in S : ~Present(i) \/ files[i].sig # disk[p]}
<1>1. worker' = worker /\ disk' = disk
  BY DEF ScanVisit
<1>2. CASE disk[p] = None
  BY <1>1, <1>2, HashesStill DEF ScanVisit
<1>3. CASE disk[p] # None
  <2>1. /\ files' = [i \in Ids |->
                    IF i \notin S THEN files[i]
                    ELSE IF Present(i) THEN Rescanned(files[i], disk[p]) ELSE New(p, disk[p])]
        /\ late'.rows = (late.rows \ queued) \cup Touched(queued)
    BY <1>3 DEF ScanVisit, Taken, TInv, HistoryOK
  <2>2. ASSUME NEW i \in Ids, Present(i)', i \notin late'.rows PROVE Left(i) \/ Clean(i)
    <3>1. CASE i \notin S
      BY <1>1, <2>1, <2>2, <3>1 DEF Left, Present
    <3>2. CASE i \in queued
      <4>1. files'[i].sha = None
        BY <2>1, <3>2 DEF Rescanned, New
      <4>2. QED
        BY <2>1, <2>2, <3>2, <4>1 DEF Clean, Touched
    <3>3. CASE i \in S /\ i \notin queued
      <4>1. Present(i) /\ files[i].sig = disk[p] /\ i \notin late.rows
        BY <2>1, <2>2, <3>3
      <4>2. files[i] \in Row /\ files'[i] = [files[i] EXCEPT !.status = "active"]
        BY <2>1, <3>3, <4>1, RowForm DEF Rescanned, TInv
      <4>3. files'[i].path = files[i].path /\ files'[i].sig = files[i].sig
            /\ files'[i].sha = files[i].sha
        BY <4>2 DEF Row
      <4>4. QED
        BY <1>1, <4>1, <4>3 DEF Left
    <3>4. QED
      BY <3>1, <3>2, <3>3
  <2>3. QED
    BY <1>1, <2>2, HashesKept
<1>4. QED
  BY <1>2, <1>3

LEMMA ScanReconcileHashes ==
  ASSUME TInv, HashesHold, ScanReconcile
  PROVE  HashesHold'
<1>1. ASSUME NEW i \in Ids, Present(i)', i \notin late'.rows PROVE Left(i)
  <2>1. CASE i \in Vanished
    <3>1. files[i] \in Row /\ Present(i)
      BY <2>1, RowForm DEF Vanished, TInv
    <3>2. files'[i] = [files[i] EXCEPT !.status = "missing"]
      BY <2>1 DEF ScanReconcile
    <3>3. files'[i].path = files[i].path /\ files'[i].sig = files[i].sig
          /\ files'[i].sha = files[i].sha
      BY <3>1, <3>2 DEF Row
    <3>4. QED
      BY <1>1, <3>1, <3>3 DEF ScanReconcile, Left
  <2>2. CASE i \notin Vanished
    BY <1>1, <2>2 DEF ScanReconcile, Left, Present
  <2>3. QED
    BY <2>1, <2>2
<1>2. QED
  BY <1>1, HashesKept DEF ScanReconcile

\* Only the jobs write hashes: what the row says, or else the file is another one.
LEMMA JobStartHashes ==
  ASSUME TInv, HashesHold, NEW v \in Workers, NEW j \in Ids, JobStart(v, j)
  PROVE  HashesHold'
<1>1. UNCHANGED <<disk, files, late>>
  BY DEF JobStart
<1>2. ASSUME NEW w \in Workers
      PROVE  \/ worker'[w] = worker[w]
             \/ worker'[w].id = j /\ worker'[w].path = files[j].path /\ worker'[w].pc = "look"
  <2>1. worker \in [Workers -> Job \cup {NoJob}]
    BY DEF TInv, WorkerOK
  <2>2. CASE ~Present(j)
    BY <2>2 DEF JobStart
  <2>3. CASE Present(j)
    BY <2>1, <2>3 DEF JobStart
  <2>4. QED
    BY <2>2, <2>3
<1>3. ASSUME NEW i \in Ids, Present(i)', i \notin late'.rows
      PROVE  RowRight(i)' /\ \A w \in Workers : worker'[w].id = i => JobRight(i, w)'
  <2>1. RowRight(i) /\ \A w \in Workers : worker[w].id = i => JobRight(i, w)
    BY <1>1, <1>3 DEF HashesHold, Present
  <2>2. RowRight(i)'
    BY <1>1, <2>1 DEF RowRight
  <2>3. ASSUME NEW w \in Workers, worker'[w].id = i PROVE JobRight(i, w)'
    <3>1. CASE worker'[w] = worker[w]
      BY <1>1, <2>1, <2>3, <3>1 DEF JobRight
    <3>2. CASE worker'[w].id = j /\ worker'[w].path = files[j].path /\ worker'[w].pc = "look"
      BY <1>1, <2>3, <3>2 DEF JobRight
    <3>3. QED
      BY <1>2, <3>1, <3>2
  <2>4. QED
    BY <2>2, <2>3
<1>4. QED
  BY <1>3 DEF HashesHold

\* A job that ends or goes on without a hash, and a row whose status it changes.
LEMMA JobLookHashes ==
  ASSUME TInv, HashesHold, NEW v \in Workers, JobLook(v)
  PROVE  HashesHold'
<1> DEFINE k == worker[v].id
<1>1. UNCHANGED <<disk, late>> /\ worker \in [Workers -> Job \cup {NoJob}]
  BY DEF JobLook, TInv, WorkerOK
<1>2. worker[v] \in Job /\ k \in Ids
  BY JobForm DEF JobLook, TInv
<1>3. ASSUME NEW w \in Workers, worker'[w].id \in Ids
      PROVE  /\ worker'[w].id = worker[w].id /\ worker'[w].path = worker[w].path
             /\ worker'[w] = worker[w] \/ worker'[w].pc = "hash"
  <2>1. worker' = [worker EXCEPT ![v] = NoJob] \/ worker' = [worker EXCEPT ![v].pc = "hash"]
    BY DEF JobLook, Ends
  <2>2. NoJob.id \notin Ids
    BY DEF NoJob
  <2>3. [worker[v] EXCEPT !.pc = "hash"].id = worker[v].id
        /\ [worker[v] EXCEPT !.pc = "hash"].path = worker[v].path
        /\ [worker[v] EXCEPT !.pc = "hash"].pc = "hash"
    BY <1>2 DEF Job
  <2>4. QED
    BY <1>1, <1>3, <2>1, <2>2, <2>3
<1>4. ASSUME NEW i \in Ids, Present(i)'
      PROVE  /\ Present(i) /\ files'[i].path = files[i].path /\ files'[i].sig = files[i].sig
             /\ files'[i].sha = files[i].sha
  <2>1. \/ files' = files
        \/ Present(k) /\ files' = [files EXCEPT ![k].status = "missing"]
    BY DEF JobLook
  <2>2. CASE files' = files
    BY <1>4, <2>2 DEF Present
  <2>3. CASE Present(k) /\ files' = [files EXCEPT ![k].status = "missing"]
    <3>1. CASE i = k
      <4>1. files[i] \in Row /\ files'[i] = [files[i] EXCEPT !.status = "missing"]
        BY <1>2, <2>3, <3>1, RowForm DEF TInv, FilesOK
      <4>2. QED
        BY <2>3, <3>1, <4>1 DEF Row
    <3>2. CASE i # k
      <4>1. files'[i] = files[i]
        BY <2>3, <3>2 DEF TInv, FilesOK
      <4>2. QED
        BY <1>4, <4>1 DEF Present
    <3>3. QED
      BY <3>1, <3>2
  <2>4. QED
    BY <2>1, <2>2, <2>3
<1>5. ASSUME NEW i \in Ids, Present(i)', i \notin late'.rows
      PROVE  RowRight(i)' /\ \A w \in Workers : worker'[w].id = i => JobRight(i, w)'
  <2>1. RowRight(i) /\ \A w \in Workers : worker[w].id = i => JobRight(i, w)
    BY <1>1, <1>4, <1>5 DEF HashesHold
  <2>2. RowRight(i)'
    BY <1>1, <1>4, <1>5, <2>1 DEF RowRight
  <2>3. ASSUME NEW w \in Workers, worker'[w].id = i PROVE JobRight(i, w)'
    BY <1>1, <1>3, <1>4, <1>5, <2>1, <2>3 DEF JobRight
  <2>4. QED
    BY <2>2, <2>3
<1>6. QED
  BY <1>5 DEF HashesHold

LEMMA JobHashHashes ==
  ASSUME TInv, HashesHold, NEW v \in Workers, JobHash(v)
  PROVE  HashesHold'
<1>1. UNCHANGED <<disk, files, late>> /\ worker \in [Workers -> Job \cup {NoJob}]
  BY DEF JobHash, TInv, WorkerOK
<1>2. worker[v] \in Job
  BY JobForm DEF JobHash, TInv
<1>3. ASSUME NEW w \in Workers, worker'[w].id \in Ids
      PROVE  \/ worker'[w] = worker[w]
             \/ /\ worker'[w].id = worker[w].id /\ worker'[w].path = worker[w].path
                /\ worker'[w].sha = disk[worker[w].path]
  <2>1. \/ worker' = [worker EXCEPT ![v] = NoJob]
        \/ worker' = [worker EXCEPT ![v].pc = "hashed", ![v].sha = disk[worker[v].path]]
    BY DEF JobHash, Ends
  <2>2. NoJob.id \notin Ids
    BY DEF NoJob
  <2>3. LET q == [worker[v] EXCEPT !.pc = "hashed", !.sha = disk[worker[v].path]]
        IN q.id = worker[v].id /\ q.path = worker[v].path /\ q.sha = disk[worker[v].path]
    BY <1>2 DEF Job
  <2>4. QED
    BY <1>1, <1>3, <2>1, <2>2, <2>3
<1>4. ASSUME NEW i \in Ids, Present(i)', i \notin late'.rows
      PROVE  RowRight(i)' /\ \A w \in Workers : worker'[w].id = i => JobRight(i, w)'
  <2>1. RowRight(i) /\ \A w \in Workers : worker[w].id = i => JobRight(i, w)
    BY <1>1, <1>4 DEF HashesHold, Present
  <2>2. RowRight(i)'
    BY <1>1, <2>1 DEF RowRight
  <2>3. ASSUME NEW w \in Workers, worker'[w].id = i PROVE JobRight(i, w)'
    BY <1>1, <1>3, <2>1, <2>3 DEF JobRight
  <2>4. QED
    BY <2>2, <2>3
<1>5. QED
  BY <1>4 DEF HashesHold

LEMMA JobHashedHashes ==
  ASSUME TInv, HashesHold, NEW v \in Workers, JobHashed(v)
  PROVE  HashesHold'
<1> DEFINE k == worker[v].id
           sha == worker[v].sha
<1>1. UNCHANGED <<disk, late>> /\ worker \in [Workers -> Job \cup {NoJob}]
  BY DEF JobHashed, TInv, WorkerOK
<1>2. worker[v] \in Job /\ k \in Ids /\ worker[v].pc = "hashed"
  BY JobForm DEF JobHashed, TInv
<1>3. ASSUME NEW w \in Workers, worker'[w].id \in Ids PROVE worker'[w] = worker[w]
  BY <1>1, <1>3 DEF JobHashed, Ends, NoJob
<1>4. files' = IF Present(k) THEN [files EXCEPT ![k].sha = sha] ELSE files
  BY DEF JobHashed
<1>5. ASSUME NEW i \in Ids, Present(i)'
      PROVE  /\ Present(i) /\ files'[i].path = files[i].path /\ files'[i].sig = files[i].sig
             /\ files'[i].sha = files[i].sha \/ (i = k /\ files'[i].sha = sha)
  <2>1. CASE ~Present(k)
    BY <1>4, <1>5, <2>1 DEF Present
  <2>2. CASE Present(k) /\ i = k
    <3>1. files[i] \in Row /\ files'[i] = [files[i] EXCEPT !.sha = sha]
      BY <1>2, <1>4, <2>2, RowForm DEF TInv, FilesOK
    <3>2. QED
      BY <2>2, <3>1 DEF Row
  <2>3. CASE Present(k) /\ i # k
    <3>1. files'[i] = files[i]
      BY <1>4, <2>3 DEF TInv, FilesOK
    <3>2. QED
      BY <1>5, <3>1 DEF Present
  <2>4. QED
    BY <2>1, <2>2, <2>3
<1>6. ASSUME NEW i \in Ids, Present(i)', i \notin late'.rows
      PROVE  RowRight(i)' /\ \A w \in Workers : worker'[w].id = i => JobRight(i, w)'
  <2>1. RowRight(i) /\ \A w \in Workers : worker[w].id = i => JobRight(i, w)
    BY <1>1, <1>5, <1>6 DEF HashesHold
  <2>2. RowRight(i)'
    <3>1. CASE files'[i].sha = files[i].sha
      BY <1>1, <1>5, <1>6, <2>1, <3>1 DEF RowRight
    <3>2. CASE i = k /\ files'[i].sha = sha
      <4>1. sha = files[i].sig \/ disk[files[i].path] # files[i].sig
        BY <1>2, <2>1, <3>2 DEF JobRight
      <4>2. QED
        BY <1>1, <1>5, <1>6, <3>2, <4>1 DEF RowRight
    <3>3. QED
      BY <1>5, <1>6, <3>1, <3>2
  <2>3. ASSUME NEW w \in Workers, worker'[w].id = i PROVE JobRight(i, w)'
    BY <1>1, <1>3, <1>5, <1>6, <2>1, <2>3 DEF JobRight
  <2>4. QED
    BY <2>2, <2>3
<1>7. QED
  BY <1>6 DEF HashesHold

LEMMA HashesStep == TInv /\ HashesHold /\ [Next]_vars => HashesHold'
<1> SUFFICES ASSUME TInv, HashesHold, [Next]_vars PROVE HashesHold'
  OBVIOUS
<1> DEFINE Idle == UNCHANGED <<worker, files, disk, late>>
<1>1. CASE UNCHANGED vars
  BY <1>1, HashesStill DEF vars
<1>2. CASE Next
  <2>1. CASE Scan
    <3>1. CASE ScanStart
      BY <3>1, HashesStill DEF ScanStart
    <3>2. CASE ScanReconcile
      BY <3>2, ScanReconcileHashes
    <3>3. CASE \E p \in Paths : ScanVisit(p)
      BY <3>3, ScanVisitHashes
    <3>4. QED
      BY <2>1, <3>1, <3>2, <3>3 DEF Scan
  <2>2. ASSUME NEW r \in Requests, Serve(r) PROVE HashesHold'
    <3>1. CASE UploadWrite(r) \/ TransferFile(r) \/ FolderTransfer(r)
      BY <3>1, UploadWriteHashes, TransferFileHashes, FolderTransferHashes
    <3>2. CASE \E i \in Ids : DeleteFile(r, i)
      BY <3>2, DeleteFileHashes
    <3>3. CASE TransferCommit(r) \/ UploadCommit(r) \/ DeleteCommit(r)
      BY <3>3, CommitHashes, UploadCommitHashes, DeleteCommitHashes
    <3>4. CASE \/ \E f \in Folders, n \in Names : UploadStart(r, f, n)
               \/ \E i \in Ids, p \in Paths : RenameStart(r, i, p)
               \/ \E S \in SUBSET Ids : \/ BatchStart(r, "delete", S, <<>>)
                       \/ \E op \in {"move", "copy"}, f \in Folders : BatchStart(r, op, S, f)
               \/ \E op \in Whole, f, g \in Folders : FolderStart(r, op, f, g)
               \/ \E i \in Ids : TransferNext(r, i)
      <4>1. Idle
        BY <3>4 DEF UploadStart, RenameStart, BatchStart, FolderStart, TransferNext
      <4>2. QED
        BY <4>1, HashesStill
    <3>5. QED
      BY <2>2, <3>1, <3>2, <3>3, <3>4 DEF Serve, Whole
  <2>3. ASSUME NEW w \in Workers, Index(w) PROVE HashesHold'
    BY <2>3, JobStartHashes, JobLookHashes, JobHashHashes, JobHashedHashes DEF Index
  <2>4. CASE \E p \in Paths : Edit(p)
    BY <2>4, EditHashes
  <2>5. CASE Crash
    BY <2>5, HashesStill DEF Crash
  <2>6. QED
    BY <1>2, <2>1, <2>2, <2>3, <2>4, <2>5 DEF Next
<1>3. QED
  BY <1>1, <1>2

\* The hash and the text of a document are of the content its signature names whenever that
\* is the content on disk, however uploads, moves, scans, outside edits and index jobs cross:
\* but for the rows that a request moved, or put a file to, while their hash was doubtful.
THEOREM HashesAreCurrent == Spec => []IndexedIsCurrent
<1>1. Init => HashesHold
  BY DEF Init, HashesHold, Present
<1>2. QED
  BY <1>1, HashesStep, CurrentFollows, DocumentTypes, PTL DEF Spec

-------------------------------------------------------------------------------
(***************************************************************************)
(* What an undisturbed scan has done by the time it ends: of the paths it  *)
(* has yet to see, every active row is on its list; where it found no file *)
(* the rows are, and where it found one an active row names it and is not. *)
(***************************************************************************)
Listed(p)  == \A i \in Ids : Active(i) /\ files[i].path = p => i \in scan.unseen
Matched(p) == \E i \in Ids : /\ Active(i) /\ files[i].path = p /\ files[i].sig = disk[p]
                             /\ i \notin scan.unseen

ScanKnows ==
  scan.pc = "walk" /\ calm =>
    \A p \in Paths : /\ p \in scan.left \/ disk[p] = None => Listed(p)
                     /\ p \in scan.left \/ disk[p] = None \/ Matched(p)

LEMMA ScanStartKnows ==
  ASSUME TInv, ScanStart
  PROVE  ScanKnows'
<1>1. scan'.left = Paths /\ scan'.unseen = {i \in Ids : Present(i) /\ Active(i)} /\ files' = files
  BY DEF ScanStart
<1>2. \A i \in Ids : Active(i)' => i \in scan'.unseen
  BY <1>1, RowForm DEF TInv, Active
<1>3. QED
  BY <1>1, <1>2 DEF ScanKnows, Listed

LEMMA ScanVisitKnows ==
  ASSUME TInv, ScanKnows, NEW p \in Paths, ScanVisit(p), calm' = calm
  PROVE  ScanKnows'
<1> DEFINE S == Taken(p)
<1>1. /\ scan.pc = "walk" /\ p \in scan.left /\ disk' = disk
      /\ scan \in [pc : {"idle", "walk"}, left : SUBSET Paths, unseen : SUBSET Ids]
  BY DEF ScanVisit, TInv, ScanOK
<1> SUFFICES ASSUME calm, NEW q \in Paths
             PROVE  /\ q \in scan'.left \/ disk[q] = None => Listed(q)'
                    /\ q \in scan'.left \/ disk[q] = None \/ Matched(q)'
  BY <1>1 DEF ScanKnows
<1>2. /\ q \in scan.left \/ disk[q] = None => Listed(q)
      /\ q \in scan.left \/ disk[q] = None \/ Matched(q)
  BY <1>1 DEF ScanKnows
<1>3. CASE disk[p] = None
  <2>1. files' = files /\ scan'.left = scan.left \ {p} /\ scan'.unseen = scan.unseen
    BY <1>1, <1>3 DEF ScanVisit
  <2>2. (Listed(q) => Listed(q)') /\ (Matched(q) => Matched(q)')
    BY <1>1, <2>1 DEF Listed, Matched, Active
  <2>3. QED
    BY <1>1, <1>2, <1>3, <2>1, <2>2
<1>4. CASE disk[p] # None
  <2>1. /\ S # {}
        /\ files' = [i \in Ids |->
             IF i \notin S THEN files[i]
             ELSE IF Present(i) THEN Rescanned(files[i], disk[p]) ELSE New(p, disk[p])]
        /\ scan' = [scan EXCEPT !.left = @ \ {p}, !.unseen = @ \ S]
    BY <1>4 DEF ScanVisit, Taken
  <2>2. scan'.left = scan.left \ {p} /\ scan'.unseen = scan.unseen \ S
    BY <1>1, <2>1
  <2>3. S \subseteq Ids /\ \A i \in Ids : Present(i) /\ files[i].path = p => i \in S
    BY OneTaken
  <2>4. ASSUME NEW i \in S
        PROVE  files'[i].status = "active" /\ files'[i].path = p /\ files'[i].sig = disk[p]
    <3>1. CASE ~Present(i)
      BY <2>1, <2>3, <3>1 DEF New
    <3>2. CASE Present(i)
      <4>1. i \in At(p)
        BY <2>4, <3>2, NewIds DEF Taken
      <4>2. files[i] \in Row /\ files[i].path = p
        BY <2>3, <3>2, <4>1, RowForm DEF At, TInv
      <4>3. files'[i] = Rescanned(files[i], disk[p])
        BY <2>1, <2>3, <3>2
      <4>4. QED
        BY <4>2, <4>3 DEF Rescanned, New, Row
    <3>3. QED
      BY <3>1, <3>2
  <2>5. \A i \in Ids : i \notin S => files'[i] = files[i]
    BY <2>1
  <2> HIDE DEF S
  <2>6. CASE q = p
    <3>1. Matched(q)'
      <4>1. PICK i \in S : TRUE
        BY <2>1
      <4>2. i \in Ids /\ i \notin scan'.unseen
        BY <2>2, <2>3, <4>1
      <4>3. QED
        BY <1>1, <2>4, <2>6, <4>1, <4>2 DEF Matched, Active
    <3>2. q \notin scan'.left /\ disk[q] # None
      BY <1>4, <2>2, <2>6
    <3>3. QED
      BY <3>1, <3>2
  <2>7. CASE q # p
    <3>1. Listed(q) => Listed(q)'
      <4>1. SUFFICES ASSUME Listed(q), NEW i \in Ids, files'[i].status = "active",
                            files'[i].path = q
                     PROVE  i \in scan'.unseen
        BY DEF Listed, Active
      <4>2. i \notin S
        BY <2>4, <2>7, <4>1
      <4>3. QED
        BY <2>2, <2>5, <4>1, <4>2 DEF Listed, Active
    <3>2. Matched(q) => Matched(q)'
      <4>1. SUFFICES ASSUME Matched(q) PROVE Matched(q)'
        OBVIOUS
      <4>2. PICK i \in Ids : /\ Active(i) /\ files[i].path = q /\ files[i].sig = disk[q]
                             /\ i \notin scan.unseen
        BY <4>1 DEF Matched
      <4>3. i \notin S
        <5>1. Present(i)
          BY <4>2, RowForm DEF TInv
        <5>2. QED
          BY <2>7, <4>2, <5>1, NewIds DEF S, Taken, At
      <4>4. files'[i] = files[i] /\ i \notin scan'.unseen
        BY <2>2, <2>5, <4>2, <4>3
      <4>5. QED
        BY <1>1, <4>2, <4>4 DEF Matched, Active
    <3>3. q \in scan'.left <=> q \in scan.left
      BY <2>2, <2>7
    <3>4. QED
      BY <1>2, <3>1, <3>2, <3>3
  <2>8. QED
    BY <2>6, <2>7
<1>5. QED
  BY <1>3, <1>4

LEMMA KnowsStep == TInv /\ ScanKnows /\ [Next]_vars => ScanKnows'
<1> SUFFICES ASSUME TInv, ScanKnows, [Next]_vars PROVE ScanKnows'
  OBVIOUS
<1>1. CASE UNCHANGED vars
  BY <1>1 DEF vars, ScanKnows, Listed, Matched, Active
<1>2. CASE ScanStart
  BY <1>2, ScanStartKnows
<1>3. CASE ScanReconcile
  BY <1>3 DEF ScanReconcile, NoScan, ScanKnows
<1>4. CASE (\E p \in Paths : ScanVisit(p)) /\ calm' = (calm \/ scan.pc = "idle")
  <2>1. calm' = calm
    BY <1>4 DEF ScanVisit, TInv, HistoryOK
  <2>2. QED
    BY <1>4, <2>1, ScanVisitKnows
<1>5. CASE calm' = FALSE
  BY <1>5 DEF ScanKnows
<1>6. QED
  BY <1>1, <1>2, <1>3, <1>4, <1>5 DEF Next, Scan

\* The scan ends.
LEMMA ReconcileRepairs ==
  ASSUME TInv, ScanKnows, ScanReconcile, calm, NEW p \in Paths
  PROVE  LET active == {files'[i] : i \in {j \in Ids : Active(j)' /\ files'[j].path = p}}
         IN IF disk[p] = None THEN active = {} ELSE \E row \in active : row.sig = disk[p]
<1> DEFINE active == {files'[i] : i \in {j \in Ids : Active(j)' /\ files'[j].path = p}}
<1>1. /\ scan.pc = "walk" /\ scan.left = {}
      /\ files' = [i \in Ids |-> IF i \in Vanished
                                   THEN [files[i] EXCEPT !.status = "missing"] ELSE files[i]]
  BY DEF ScanReconcile
<1>2. \A i \in Ids : i \notin scan.unseen => files'[i] = files[i]
  BY <1>1 DEF Vanished
<1>3. ASSUME NEW i \in Ids, i \in scan.unseen PROVE ~Active(i)'
  <2>1. CASE Present(i)
    <3>1. files[i] \in Row /\ files'[i] = [files[i] EXCEPT !.status = "missing"]
      BY <1>1, <1>3, <2>1, RowForm DEF Vanished, TInv
    <3>2. files'[i].status = "missing"
      BY <3>1 DEF Row
    <3>3. QED
      BY <3>2 DEF Active
  <2>2. CASE ~Present(i)
    BY <1>1, <2>2 DEF Vanished, Active, Present, NoRow
  <2>3. QED
    BY <2>1, <2>2
<1>4. CASE disk[p] = None
  <2>1. Listed(p)
    BY <1>1, <1>4 DEF ScanKnows
  <2>2. \A i \in Ids : ~(Active(i)' /\ files'[i].path = p)
    BY <1>2, <1>3, <2>1 DEF Listed, Active
  <2>3. QED
    BY <1>4, <2>2
<1>5. CASE disk[p] # None
  <2>1. Matched(p)
    BY <1>1, <1>5 DEF ScanKnows
  <2>2. PICK i \in Ids : /\ Active(i) /\ files[i].path = p /\ files[i].sig = disk[p]
                         /\ i \notin scan.unseen
    BY <2>1 DEF Matched
  <2>3. files'[i] = files[i] /\ Active(i)'
    BY <1>2, <2>2 DEF Active
  <2>4. files'[i] \in active
    BY <2>2, <2>3
  <2>5. QED
    BY <1>5, <2>2, <2>3, <2>4
<1>6. QED
  BY <1>4, <1>5

\* Whatever failed requests, crashes and other programs left behind, for any root and any
\* number of rows: a scan that nothing disturbs ends with the active rows naming the files on
\* disk, and no others.
THEOREM ScansRepair == Spec => ScanRepairs
<1>1. Init => ScanKnows
  BY DEF Init, ScanKnows
<1>2. Spec => []ScanKnows
  BY <1>1, KnowsStep, DocumentTypes, PTL DEF Spec
<1>3. TInv /\ ScanKnows /\ [Next]_vars =>
        [scan.pc = "walk" /\ scan'.pc = "idle" /\ calm =>
           \A p \in Paths :
             LET active == {files'[i] : i \in {j \in Ids : Active(j)' /\ files'[j].path = p}}
             IN IF disk[p] = None THEN active = {} ELSE \E row \in active : row.sig = disk[p]]_vars
  <2> SUFFICES ASSUME TInv, ScanKnows, [Next]_vars, scan.pc = "walk", scan'.pc = "idle", calm,
                      NEW p \in Paths
               PROVE  LET active == {files'[i] : i \in {j \in Ids : Active(j)' /\ files'[j].path = p}}
                      IN IF disk[p] = None THEN active = {}
                         ELSE \E row \in active : row.sig = disk[p]
    OBVIOUS
  <2>1. CASE ScanReconcile
    BY <2>1, ReconcileRepairs
  <2>2. CASE ~ScanReconcile
    <3>1. ASSUME NEW r \in Requests, Serve(r) PROVE scan' = scan
      <4>1. CASE UploadWrite(r) \/ TransferFile(r) \/ FolderTransfer(r)
        BY <4>1 DEF UploadWrite, TransferFile, FolderTransfer
      <4>2. CASE TransferCommit(r) \/ UploadCommit(r) \/ DeleteCommit(r)
        BY <4>2 DEF TransferCommit, UploadCommit, DeleteCommit
      <4>3. CASE \E i \in Ids : TransferNext(r, i) \/ DeleteFile(r, i)
        BY <4>3 DEF TransferNext, DeleteFile
      <4>4. CASE \/ \E f \in Folders, n \in Names : UploadStart(r, f, n)
                 \/ \E i \in Ids, q \in Paths : RenameStart(r, i, q)
                 \/ \E S \in SUBSET Ids : \/ BatchStart(r, "delete", S, <<>>)
                       \/ \E op \in {"move", "copy"}, f \in Folders : BatchStart(r, op, S, f)
                 \/ \E op \in Whole, f, g \in Folders : FolderStart(r, op, f, g)
        BY <4>4 DEF UploadStart, RenameStart, BatchStart, FolderStart
      <4>5. QED
        BY <3>1, <4>1, <4>2, <4>3, <4>4 DEF Serve, Whole
    <3>2. ASSUME NEW w \in Workers, Index(w) PROVE scan' = scan
      BY <3>2 DEF Index, JobStart, JobLook, JobHash, JobHashed
    <3>3. Crash \/ (\E q \in Paths : Edit(q)) \/ UNCHANGED vars => scan' = scan
      BY DEF Crash, Edit, vars
    <3>4. scan' = scan \/ ScanStart \/ \E q \in Paths : ScanVisit(q)
      BY <2>2, <3>1, <3>2, <3>3 DEF Next, Scan
    <3>5. QED
      BY <3>4 DEF ScanStart, ScanVisit, TInv, ScanOK
  <2>3. QED
    BY <2>1, <2>2
<1>4. QED
  BY <1>2, <1>3, DocumentTypes, PTL DEF Spec, ScanRepairs

===============================================================================
