----------------------------- MODULE CatalogProofs -----------------------------
(***************************************************************************)
(* Proofs about Catalog for every number of paths, contents, ids, index    *)
(* threads and requests, and with the ingest dedup on or off.              *)
(***************************************************************************)
EXTENDS Catalog, TLAPS

USE CatalogAssumption DEF Ids, File, Present

-------------------------------------------------------------------------------
(***************************************************************************)
(* The inductive invariant.  TypeOK is not inductive as it stands: that no *)
(* two rows have one path rests on what a scan has staged and not yet      *)
(* committed.                                                              *)
(***************************************************************************)
\* A scan stages a path once, and a new row only for a path that no row has: rows
\* are added by scans alone, which commit all they have staged.
StagedOnce ==
  /\ \A e \in scan.staged :
       /\ e.path \notin scan.left
       /\ e.id = 0 => \A i \in Ids : rows[i].path # e.path
  /\ \A d, e \in scan.staged : d.id = 0 /\ e.id = 0 /\ d.path = e.path => d = e

\* A thread of the index stage has a row, which was not trashed when it loaded it.
IndexesUntrashed ==
  \A x \in Indexers : indexer[x].pc # "idle" =>
    indexer[x].id \in Ids /\ indexer[x].status # "trashed"

NoneIsEmpty == \A u \in Users : user[u].op = "none" => user[u].ids = {}

\* A photo whose file a session has moved to the trash, and not marked yet, has it there.
MovedHasCopy == \A i \in Ids : InFlight(i) => bin[i] # <<>> \/ i \in cut

\* A request that restores or purges a photo.
TakesOut(u, i) == user[u].op \in {"restore", "purge"} /\ i \in user[u].ids

\* TrashedHasCopy with the requests that excuse it: only one that takes the file out of
\* the trash does, and if it fails, the photo is in `cut'.
KeepsCopy ==
  \A i \in Ids : rows[i].status = "trashed" =>
    bin[i] # <<>> \/ i \in cut \/ \E u \in Users : TakesOut(u, i)

CInv == /\ TypeOK
        /\ StagedOnce /\ IndexesUntrashed /\ NoneIsEmpty
        /\ MovedHasCopy /\ KeepsCopy

\* The parts of TypeOK.
RowsOK ==
  /\ rows \in [Ids -> Row]
  /\ \A i \in Ids : IF Present(i) THEN rows[i].path \in Paths ELSE rows[i] = NoRow
  /\ \A i, j \in Ids : Present(i) /\ Present(j) /\ i # j => rows[i].path # rows[j].path
DiskOK    == disk \in [Paths -> File]
BinOK     == bin \in [Ids -> Seq(Contents)]
ScanOK    == scan \in [pc : {"idle", "walk"}, unseen : SUBSET Ids, left : SUBSET Paths,
                       staged : SUBSET Staged]
Pcs       == {"idle", "exists", "mark", "hash", "dup", "trash", "commit"}
IndexerOK == indexer \in [Indexers -> [pc : Pcs, id : Ids \cup {0}, status : Status]]
Ops       == {"none", "trash", "restore", "purge", "repair"}
UserOK    == user \in [Users -> [op : Ops, ids : SUBSET Ids]]
HistoryOK == upsets \in 0..MaxUpsets /\ cut \subseteq Ids

LEMMA TypeParts ==
  TypeOK <=> /\ DiskOK /\ BinOK /\ RowsOK /\ ScanOK /\ IndexerOK /\ UserOK /\ HistoryOK
  BY DEF TypeOK, DiskOK, BinOK, RowsOK, ScanOK, IndexerOK, UserOK, HistoryOK, Pcs, Ops

LEMMA CatalogInit == Init => CInv
<1> SUFFICES ASSUME Init PROVE CInv
  OBVIOUS
<1>1. NoRow \in Row /\ NoRow.status = "absent"
  BY DEF NoRow, Row, Status
<1>2. TypeOK
  BY <1>1 DEF Init, TypeOK, Idle, NoScan, NoBatch, Status, Staged
<1>3. StagedOnce
  BY DEF Init, StagedOnce, NoScan
<1>4. IndexesUntrashed /\ NoneIsEmpty
  BY DEF Init, IndexesUntrashed, NoneIsEmpty, Idle, NoBatch
<1>5. MovedHasCopy
  BY DEF Init, MovedHasCopy, InFlight, Moved, Idle, NoBatch
<1>6. KeepsCopy
  BY <1>1 DEF Init, KeepsCopy
<1>7. QED
  BY <1>2, <1>3, <1>4, <1>5, <1>6 DEF CInv

-------------------------------------------------------------------------------
(***************************************************************************)
(* Facts about steps.                                                      *)
(***************************************************************************)
\* Rows that stay where they are, or go.
Settled(i) ==
  \/ rows'[i] = NoRow
  \/ Present(i) /\ rows'[i].status # "absent" /\ rows'[i].path = rows[i].path

\* Such a step keeps the paths apart, and what a scan has staged has still no row.
LEMMA RowsStay ==
  ASSUME RowsOK, rows' \in [Ids -> Row], \A i \in Ids : Settled(i)
  PROVE  /\ RowsOK'
         /\ ScanOK /\ StagedOnce /\ scan' = scan => StagedOnce'
<1>1. NoRow.status = "absent" /\ NoRow.path = Nothing
  BY DEF NoRow
<1>2. \A i \in Ids : rows'[i].path \in {rows[i].path, Nothing}
  BY <1>1 DEF Settled
<1>3. RowsOK'
  BY <1>1 DEF RowsOK, Settled
<1>4. ASSUME ScanOK, StagedOnce, scan' = scan PROVE StagedOnce'
  <2>1. \A e \in scan.staged : e.path \in Paths
    BY <1>4 DEF ScanOK, Staged
  <2>2. QED
    BY <1>2, <1>4, <2>1 DEF StagedOnce
<1>5. QED
  BY <1>3, <1>4

\* A thread of the index stage that settles its row.
LEMMA DoneStays ==
  ASSUME RowsOK, IndexerOK, NEW x \in Indexers, NEW row \in Row, Done(x, row),
         indexer[x].id \in Ids, Present(indexer[x].id),
         row.path = rows[indexer[x].id].path, row.status # "absent"
  PROVE  /\ rows' \in [Ids -> Row] /\ \A i \in Ids : Settled(i)
         /\ IndexerOK'
         /\ \A i \in Ids : rows'[i].status =
              IF i = indexer[x].id THEN row.status ELSE rows[i].status
<1>1. Idle \in [pc : Pcs, id : Ids \cup {0}, status : Status]
  BY DEF Idle, Pcs, Status
<1>2. IndexerOK'
  BY <1>1 DEF Done, IndexerOK
<1>3. [row EXCEPT !.todo = FALSE] \in Row
  BY DEF Row
<1>4. /\ [row EXCEPT !.todo = FALSE].path = row.path
      /\ [row EXCEPT !.todo = FALSE].status = row.status
  BY DEF Row
<1>5. rows' = [rows EXCEPT ![indexer[x].id] = [row EXCEPT !.todo = FALSE]]
  BY DEF Done
<1>6. rows' \in [Ids -> Row]
  BY <1>3, <1>5 DEF RowsOK
<1>7. \A i \in Ids : Settled(i)
  BY <1>4, <1>5 DEF RowsOK, Settled
<1>8. QED
  BY <1>2, <1>4, <1>5, <1>6, <1>7 DEF RowsOK

-------------------------------------------------------------------------------
(***************************************************************************)
(* The steps of a scan.                                                    *)
(***************************************************************************)
\* What a scan's steps leave alone, but for the rows.
LEMMA ScanFrame ==
  ASSUME CInv, RowsOK', ScanOK', StagedOnce',
         UNCHANGED <<disk, bin, indexer, user, upsets, cut>>,
         \A i \in Ids : rows'[i].status = "trashed" => rows[i].status = "trashed"
  PROVE  CInv'
<1>1. TypeOK'
  BY TypeParts DEF CInv, TypeOK, RowsOK, ScanOK
<1>2. IndexesUntrashed' /\ NoneIsEmpty'
  BY DEF CInv, IndexesUntrashed, NoneIsEmpty
<1>3. MovedHasCopy'
  BY DEF CInv, MovedHasCopy, InFlight, Moved
<1>4. KeepsCopy'
  BY DEF CInv, KeepsCopy, TakesOut
<1>5. QED
  BY <1>1, <1>2, <1>3, <1>4 DEF CInv

\* Steps that change the scan only.
LEMMA ScanMoves ==
  ASSUME CInv, ScanOK', UNCHANGED <<disk, bin, rows, indexer, user, upsets, cut>>
  PROVE  StagedOnce' => CInv'
<1>1. RowsOK'
  BY TypeParts DEF CInv, RowsOK
<1>2. QED
  BY <1>1, ScanFrame

LEMMA NoScanTyped ==
  ASSUME scan' = NoScan
  PROVE  ScanOK' /\ StagedOnce'
  BY DEF NoScan, ScanOK, StagedOnce

LEMMA ScanStartStep == CInv /\ ScanStart => CInv'
<1> SUFFICES ASSUME CInv, ScanStart PROVE CInv'
  OBVIOUS
<1>1. ScanOK' /\ StagedOnce'
  BY DEF ScanStart, NoScan, ScanOK, StagedOnce
<1>2. QED
  BY <1>1, ScanMoves DEF ScanStart

\* What a visit stages for a path is of the right form, and new for one without a row.
LEMMA VisitStages ==
  ASSUME RowsOK, DiskOK, NEW p \in Paths, disk[p] # Nothing
  PROVE  /\ Visited(p) \cup Added(p) \subseteq Staged
         /\ \A e \in Visited(p) \cup Added(p) : e.path = p
         /\ \A e \in Visited(p) : e.id # 0
         /\ \A d, e \in Added(p) : d = e
         /\ \A e \in Added(p) : \A i \in Ids : rows[i].path # p
<1>1. disk[p] \in Contents
  BY DEF DiskOK
<1>2. "absent" \in Status /\ \A i \in Ids : rows[i].status \in Status
  BY DEF RowsOK, Row, Status
<1>3. Visited(p) \subseteq Staged /\ \A e \in Visited(p) : e.path = p /\ e.id # 0
  BY <1>1, <1>2 DEF Visited, Staged
<1>4. Added(p) \subseteq Staged /\ \A e \in Added(p) : e.path = p
  BY <1>1, <1>2 DEF Added, Staged
<1>5. \A d, e \in Added(p) : d = e
  BY DEF Added
<1>6. \A e \in Added(p) : \A i \in Ids : rows[i].path # p
  BY DEF Added
<1>7. QED
  BY <1>3, <1>4, <1>5, <1>6

LEMMA ScanVisitStep == \A p \in Paths : CInv /\ ScanVisit(p) => CInv'
<1> SUFFICES ASSUME NEW p \in Paths, CInv, ScanVisit(p) PROVE CInv'
  OBVIOUS
<1>1. RowsOK /\ DiskOK /\ ScanOK
  BY TypeParts DEF CInv
<1>2. UNCHANGED <<disk, bin, rows, indexer, user, upsets, cut>>
  BY DEF ScanVisit
<1>3. CASE disk[p] = Nothing
  <2>1. ScanOK' /\ StagedOnce'
    BY <1>1, <1>3 DEF ScanVisit, ScanOK, StagedOnce, CInv
  <2>2. QED
    BY <1>2, <2>1, ScanMoves
<1>4. CASE disk[p] # Nothing
  <2> DEFINE new == Visited(p) \cup Added(p)
  <2>1. /\ scan'.pc = scan.pc /\ scan'.left = scan.left \ {p}
        /\ scan'.staged = scan.staged \cup new
    BY <1>1, <1>4 DEF ScanVisit, ScanOK
  <2>2. p \in scan.left
    BY DEF ScanVisit
  <2>3. /\ new \subseteq Staged
        /\ \A e \in new : e.path = p
        /\ \A d, e \in new : d.id = 0 /\ e.id = 0 => d = e
        /\ \A e \in new : e.id = 0 => \A i \in Ids : rows[i].path # p
    BY <1>1, <1>4, VisitStages
  <2> HIDE DEF new
  <2>4. ScanOK'
    <3>1. scan' = [scan EXCEPT !.left = @ \ {p}, !.unseen = {i \in @ : rows[i].path # p},
                               !.staged = @ \cup new]
      BY <1>4 DEF ScanVisit, new
    <3>2. QED
      BY <1>1, <2>3, <3>1 DEF ScanOK
  <2>5. \A d \in scan.staged : d.path # p
    BY <2>2 DEF CInv, StagedOnce
  <2>6. StagedOnce'
    <3>1. \A e \in scan'.staged : e.path \notin scan'.left
      BY <2>1, <2>3 DEF CInv, StagedOnce
    <3>2. \A e \in scan'.staged : e.id = 0 => \A i \in Ids : rows'[i].path # e.path
      BY <1>2, <2>1, <2>3 DEF CInv, StagedOnce
    <3>3. \A d, e \in scan'.staged : d.id = 0 /\ e.id = 0 /\ d.path = e.path => d = e
      BY <2>1, <2>3, <2>5 DEF CInv, StagedOnce
    <3>4. QED
      BY <3>1, <3>2, <3>3 DEF StagedOnce
  <2>7. QED
    BY <1>2, <2>4, <2>6, ScanMoves
<1>5. QED
  BY <1>3, <1>4

LEMMA ScanFailsStep == CInv /\ ScanFails => CInv'
  BY NoScanTyped, ScanMoves DEF ScanFails

LEMMA ScanReconcileStep == CInv /\ ScanReconcile => CInv'
<1> SUFFICES ASSUME CInv, ScanReconcile PROVE CInv'
  OBVIOUS
<1>1. RowsOK
  BY TypeParts DEF CInv
<1>2. rows' \in [Ids -> Row] /\ \A i \in Ids : Settled(i)
  BY <1>1 DEF ScanReconcile, RowsOK, Settled, Row, Status
<1>3. RowsOK'
  BY <1>1, <1>2, RowsStay
<1>4. ScanOK' /\ StagedOnce'
  BY NoScanTyped DEF ScanReconcile
<1>5. \A i \in Ids : rows'[i].status = "trashed" => rows[i].status = "trashed"
  BY <1>1 DEF ScanReconcile, RowsOK, Row
<1>6. QED
  BY <1>3, <1>4, <1>5, ScanFrame DEF ScanReconcile

\* The commit: rows that were there stay in their places, and the new ones take paths
\* that had none, each its own.
LEMMA ScanCommitStep == CInv /\ ScanCommit => CInv'
<1> SUFFICES ASSUME CInv, ScanCommit PROVE CInv'
  OBVIOUS
<1> DEFINE new == {e \in scan.staged : e.id = 0}
           old == scan.staged \ new
           Entry(i) == CHOOSE e \in old : e.id = i
           Fresh(e) == [status |-> "active", path |-> e.path, sig |-> e.sig,
                        sha |-> Nothing, todo |-> TRUE]
<1>1. RowsOK /\ ScanOK /\ StagedOnce
  BY TypeParts DEF CInv
<1>2. PICK f \in [new -> Ids] :
        /\ NewIds(new, f)
        /\ rows' = [i \in Ids |->
             IF \E e \in old : e.id = i THEN Rescanned(rows[i], Entry(i))
             ELSE IF \E e \in new : f[e] = i THEN Fresh(CHOOSE d \in new : f[d] = i)
             ELSE rows[i]]
        /\ scan' = [scan EXCEPT !.staged = {}]
  BY DEF ScanCommit
<1>3. \A e \in old : Present(e.id)
  BY DEF ScanCommit
<1>4. new \subseteq Staged /\ old \subseteq Staged
  BY <1>1 DEF ScanOK
<1>5. \A e, d \in new : e # d => f[e] # f[d]
  BY <1>2 DEF NewIds
<1>6. \A e \in new : f[e] \in Ids /\ ~Present(f[e])
  BY <1>2 DEF NewIds
<1>7. \A e \in new : \A i \in Ids : rows[i].path # e.path
  BY <1>1 DEF StagedOnce
<1>8. \A d, e \in new : d.path = e.path => d = e
  BY <1>1 DEF StagedOnce
<1> HIDE DEF new, old, Fresh, Entry
<1>9. ASSUME NEW i \in Ids, \E e \in old : e.id = i
      PROVE  /\ rows'[i] \in Row /\ Settled(i)
             /\ rows'[i].status = "trashed" => rows[i].status = "trashed"
  <2>1. Entry(i) \in old /\ Entry(i).id = i
    BY <1>9 DEF Entry
  <2>2. Entry(i).sig \in Contents /\ Present(i)
    BY <1>3, <1>4, <2>1 DEF Staged
  <2>3. rows'[i] = Rescanned(rows[i], Entry(i))
    BY <1>2, <1>9
  <2>4. rows[i] \in Row
    BY <1>1 DEF RowsOK
  <2>5. QED
    BY <2>2, <2>3, <2>4 DEF Rescanned, Row, Settled, Status
<1>10. ASSUME NEW i \in Ids, ~ \E e \in old : e.id = i, NEW e \in new, f[e] = i
       PROVE  rows'[i] = Fresh(e)
  <2>1. (CHOOSE d \in new : f[d] = i) = e
    BY <1>5, <1>10
  <2>2. QED
    BY <1>2, <1>10, <2>1
<1>11. ASSUME NEW e \in new
       PROVE  /\ Fresh(e) \in Row /\ Fresh(e).path = e.path /\ Fresh(e).status = "active"
              /\ e.path \in Paths
  BY <1>4 DEF Fresh, Row, Status, Staged
<1>12. \A e \in new : ~ \E d \in old : d.id = f[e]
  BY <1>3, <1>6
<1>13. ASSUME NEW i \in Ids, ~ \E e \in old : e.id = i, ~ \E e \in new : f[e] = i
       PROVE  rows'[i] = rows[i]
  BY <1>2, <1>13
<1> DEFINE Kept(i) == ~ \E e \in new : f[e] = i
<1>14. ASSUME NEW i \in Ids
       PROVE  /\ Kept(i) => /\ rows'[i] \in Row
                            /\ rows'[i] = rows[i] \/ Settled(i)
                            /\ rows'[i].status = "trashed" => rows[i].status = "trashed"
              /\ ~Kept(i) => \E e \in new : f[e] = i /\ rows'[i] = Fresh(e)
  <2>1. rows[i] \in Row
    BY <1>1 DEF RowsOK
  <2>2. CASE \E e \in old : e.id = i
    BY <1>9, <1>12, <2>2
  <2>3. CASE ~ \E e \in old : e.id = i
    BY <1>10, <1>13, <2>1, <2>3
  <2>4. QED
    BY <2>2, <2>3
<1>15. rows' \in [Ids -> Row]
  <2>1. \A i \in Ids : rows'[i] \in Row
    BY <1>11, <1>14
  <2>2. QED
    BY <1>2, <2>1
<1>16. NoRow.status = "absent" /\ NoRow.path = Nothing
  BY DEF NoRow
<1>17. \A i \in Ids : Kept(i) =>
         /\ Present(i)' => Present(i) /\ rows'[i].path = rows[i].path
         /\ ~Present(i)' => rows'[i] = NoRow
  BY <1>1, <1>14, <1>16 DEF RowsOK, Settled
<1> HIDE DEF Kept
<1>18. RowsOK'
  <2>1. \A i \in Ids : IF Present(i)' THEN rows'[i].path \in Paths ELSE rows'[i] = NoRow
    BY <1>1, <1>11, <1>14, <1>17 DEF RowsOK
  <2>2. ASSUME NEW i \in Ids, NEW j \in Ids, Present(i)', Present(j)', i # j
        PROVE  rows'[i].path # rows'[j].path
    <3>1. CASE Kept(i) /\ Kept(j)
      BY <1>1, <1>17, <2>2, <3>1 DEF RowsOK
    <3>2. CASE Kept(i) /\ ~Kept(j)
      BY <1>7, <1>11, <1>14, <1>17, <2>2, <3>2
    <3>3. CASE ~Kept(i) /\ Kept(j)
      BY <1>7, <1>11, <1>14, <1>17, <2>2, <3>3
    <3>4. CASE ~Kept(i) /\ ~Kept(j)
      BY <1>8, <1>11, <1>14, <2>2, <3>4
    <3>5. QED
      BY <3>1, <3>2, <3>3, <3>4
  <2>3. QED
    BY <1>15, <2>1, <2>2 DEF RowsOK
<1>19. ScanOK' /\ StagedOnce'
  BY <1>1, <1>2 DEF ScanOK, StagedOnce
<1>20. \A i \in Ids : rows'[i].status = "trashed" => rows[i].status = "trashed"
  BY <1>11, <1>14
<1>21. QED
  BY <1>18, <1>19, <1>20, ScanFrame DEF ScanCommit

-------------------------------------------------------------------------------
(***************************************************************************)
(* The steps of the index stage.                                           *)
(***************************************************************************)
\* What they leave alone; each shows the rest.
LEMMA IndexFrame ==
  ASSUME CInv, RowsOK', StagedOnce', DiskOK', BinOK', IndexerOK', HistoryOK',
         IndexesUntrashed', MovedHasCopy', KeepsCopy', UNCHANGED <<scan, user>>
  PROVE  CInv'
<1>1. ScanOK' /\ UserOK' /\ NoneIsEmpty'
  BY TypeParts DEF CInv, ScanOK, UserOK, NoneIsEmpty
<1>2. TypeOK'
  BY <1>1 DEF TypeOK, DiskOK, BinOK, RowsOK, ScanOK, IndexerOK, UserOK, HistoryOK, Pcs, Ops
<1>3. QED
  BY <1>1, <1>2 DEF CInv

\* A step of one thread that touches no file and adds nothing to what was moved: the row
\* it works on may be rewritten, not trashed.
LEMMA IndexQuiet ==
  ASSUME CInv, NEW x \in Indexers,
         rows' \in [Ids -> Row], \A i \in Ids : Settled(i),
         \A i \in Ids : rows'[i].status = "trashed" => rows[i].status = "trashed",
         IndexerOK', \A y \in Indexers \ {x} : indexer'[y] = indexer[y],
         indexer'[x].pc # "idle" => indexer'[x].id \in Ids /\ indexer'[x].status # "trashed",
         indexer'[x].pc # "commit",
         UNCHANGED <<disk, bin, scan, user, upsets, cut>>
  PROVE  CInv'
<1>1. RowsOK /\ ScanOK /\ StagedOnce /\ DiskOK /\ BinOK /\ HistoryOK
  BY TypeParts DEF CInv
<1>2. RowsOK' /\ StagedOnce'
  BY <1>1, RowsStay
<1>3. DiskOK' /\ BinOK' /\ HistoryOK'
  BY <1>1 DEF DiskOK, BinOK, HistoryOK
<1>4. IndexesUntrashed'
  BY DEF CInv, IndexesUntrashed
<1>5. MovedHasCopy'
  <2>1. ASSUME NEW i \in Ids, InFlight(i)' PROVE InFlight(i)
    BY <2>1 DEF InFlight, Moved
  <2>2. QED
    BY <2>1 DEF CInv, MovedHasCopy
<1>6. KeepsCopy'
  BY DEF CInv, KeepsCopy, TakesOut
<1>7. QED
  BY <1>2, <1>3, <1>4, <1>5, <1>6, IndexFrame

\* Rows that do not change.
LEMMA SameRows ==
  ASSUME RowsOK, rows' = rows
  PROVE  rows' \in [Ids -> Row] /\ \A i \in Ids : Settled(i)
  BY DEF RowsOK, Settled

LEMMA IndexBeginStep == \A x \in Indexers, i \in Ids : CInv /\ IndexBegin(x, i) => CInv'
<1> SUFFICES ASSUME NEW x \in Indexers, NEW i \in Ids, CInv, IndexBegin(x, i) PROVE CInv'
  OBVIOUS
<1>1. RowsOK /\ IndexerOK /\ rows[i] \in Row
  BY TypeParts DEF CInv, RowsOK
<1>2. UNCHANGED <<disk, bin, scan, user, upsets, cut>>
  BY DEF IndexBegin
<1>3. CASE rows[i].status = "trashed"
  <2>1. rows' = [rows EXCEPT ![i].todo = FALSE] /\ indexer' = indexer
    BY <1>3 DEF IndexBegin
  <2>2. rows' \in [Ids -> Row] /\ \A j \in Ids : Settled(j)
    BY <1>1, <2>1 DEF IndexBegin, RowsOK, Row, Settled
  <2>3. \A j \in Ids : rows'[j].status = rows[j].status
    BY <1>1, <2>1 DEF RowsOK, Row
  <2>4. indexer[x].pc = "idle"
    BY DEF IndexBegin
  <2>5. QED
    BY <1>1, <1>2, <2>1, <2>2, <2>3, <2>4, IndexQuiet DEF IndexerOK
<1>4. CASE rows[i].status # "trashed"
  <2>1. /\ rows' = rows
        /\ indexer' = [indexer EXCEPT ![x] = [pc |-> "exists", id |-> i, status |-> rows[i].status]]
    BY <1>4 DEF IndexBegin
  <2>2. IndexerOK' /\ \A y \in Indexers \ {x} : indexer'[y] = indexer[y]
    BY <1>1, <2>1 DEF IndexerOK, Pcs, Row
  <2>3. indexer'[x] = [pc |-> "exists", id |-> i, status |-> rows[i].status]
    BY <1>1, <2>1 DEF IndexerOK
  <2>4. QED
    BY <1>1, <1>2, <1>4, <2>1, <2>2, <2>3, SameRows, IndexQuiet
<1>5. QED
  BY <1>3, <1>4

\* A thread goes on to its next step, with nothing else changed.
LEMMA IndexGoesOn ==
  ASSUME CInv, NEW x \in Indexers, NEW pc \in Pcs \ {"commit"}, indexer[x].pc # "idle",
         indexer' = [indexer EXCEPT ![x].pc = pc],
         UNCHANGED <<disk, bin, rows, scan, user, upsets, cut>>
  PROVE  CInv'
<1>1. RowsOK /\ IndexerOK
  BY TypeParts DEF CInv
<1>2. /\ IndexerOK' /\ indexer'[x].pc = pc
      /\ \A y \in Indexers \ {x} : indexer'[y] = indexer[y]
      /\ indexer'[x].id = indexer[x].id /\ indexer'[x].status = indexer[x].status
  BY <1>1 DEF IndexerOK
<1>3. QED
  BY <1>1, <1>2, SameRows, IndexQuiet DEF CInv, IndexesUntrashed

\* A thread settles its row, and does not trash it.
LEMMA IndexSettles ==
  ASSUME CInv, NEW x \in Indexers, NEW row \in Row, Done(x, row),
         indexer[x].pc # "idle", Present(indexer[x].id),
         row.path = rows[indexer[x].id].path, row.status # "absent",
         row.status = "trashed" => rows[indexer[x].id].status = "trashed",
         UNCHANGED <<disk, bin, scan, user, upsets, cut>>
  PROVE  CInv'
<1>1. RowsOK /\ IndexerOK /\ indexer[x].id \in Ids
  BY TypeParts DEF CInv, IndexesUntrashed
<1>2. /\ rows' \in [Ids -> Row] /\ \A i \in Ids : Settled(i)
      /\ IndexerOK'
      /\ \A i \in Ids : rows'[i].status =
           IF i = indexer[x].id THEN row.status ELSE rows[i].status
  BY <1>1, DoneStays
<1>3. indexer'[x] = Idle /\ \A y \in Indexers \ {x} : indexer'[y] = indexer[y]
  BY <1>1 DEF Done, IndexerOK
<1>4. QED
  BY <1>2, <1>3, IndexQuiet DEF Idle

LEMMA IndexExistsStep == \A x \in Indexers : CInv /\ IndexExists(x) => CInv'
<1> SUFFICES ASSUME NEW x \in Indexers, CInv, IndexExists(x) PROVE CInv'
  OBVIOUS
<1>1. PICK pc \in Pcs \ {"commit"} : indexer' = [indexer EXCEPT ![x].pc = pc]
  BY DEF IndexExists, Pcs
<1>2. QED
  BY <1>1, IndexGoesOn DEF IndexExists

LEMMA IndexRow ==
  ASSUME CInv, NEW x \in Indexers, indexer[x].pc # "idle", Present(indexer[x].id)
  PROVE  /\ indexer[x].id \in Ids /\ rows[indexer[x].id] \in Row
         /\ rows[indexer[x].id].path \in Paths /\ indexer[x].status # "trashed"
  BY TypeParts DEF CInv, IndexesUntrashed, RowsOK

LEMMA IndexMarkStep == \A x \in Indexers : CInv /\ IndexMark(x) => CInv'
<1> SUFFICES ASSUME NEW x \in Indexers, CInv, IndexMark(x) PROVE CInv'
  OBVIOUS
<1> DEFINE row == rows[indexer[x].id]
           next == IF indexer[x].status = "missing" THEN row
                   ELSE [row EXCEPT !.status = "missing"]
<1>1. row \in Row /\ Present(indexer[x].id) /\ indexer[x].pc = "mark"
  BY IndexRow DEF IndexMark
<1>2. /\ next \in Row /\ next.path = row.path /\ next.status # "absent"
      /\ next.status = "trashed" => row.status = "trashed"
  BY <1>1 DEF Row, Status
<1>3. Done(x, next)
  BY DEF IndexMark
<1>4. QED
  BY <1>1, <1>2, <1>3, IndexSettles DEF IndexMark

LEMMA IndexHashStep == \A x \in Indexers : CInv /\ IndexHash(x) => CInv'
<1> SUFFICES ASSUME NEW x \in Indexers, CInv, IndexHash(x) PROVE CInv'
  OBVIOUS
<1> DEFINE i == indexer[x].id
           row == rows[i]
           hashed == [row EXCEPT !.sha = disk[row.path]]
<1>1. /\ i \in Ids /\ row \in Row /\ row.path \in Paths /\ Present(i)
      /\ indexer[x].pc = "hash" /\ indexer[x].status # "trashed"
  BY IndexRow DEF IndexHash
<1>2. DiskOK /\ RowsOK /\ IndexerOK
  BY TypeParts DEF CInv
<1>3. /\ hashed \in Row /\ hashed.path = row.path /\ hashed.status = row.status
  BY <1>1, <1>2 DEF Row, DiskOK
<1>4. CASE row.sha # Nothing \/ ~OnDisk(i) \/ ~SkipIngest
  <2> DEFINE next == IF row.sha # Nothing THEN row ELSE hashed
  <2>1. Done(x, next)
    BY <1>4 DEF IndexHash
  <2>2. next \in Row /\ next.path = row.path /\ next.status = row.status
    BY <1>1, <1>3
  <2>3. QED
    BY <1>1, <2>1, <2>2, IndexSettles DEF IndexHash
<1>5. CASE ~(row.sha # Nothing \/ ~OnDisk(i) \/ ~SkipIngest)
  <2>1. /\ rows' = [rows EXCEPT ![i].sha = disk[row.path]]
        /\ indexer' = [indexer EXCEPT ![x].pc = "dup"]
    BY <1>5 DEF IndexHash
  <2>2. rows' = [rows EXCEPT ![i] = hashed]
    BY <2>1
  <2>3. rows' \in [Ids -> Row] /\ \A j \in Ids : Settled(j) /\ rows'[j].status = rows[j].status
    BY <1>1, <1>2, <1>3, <2>2 DEF RowsOK, Settled
  <2>4. /\ IndexerOK' /\ indexer'[x].pc = "dup"
        /\ \A y \in Indexers \ {x} : indexer'[y] = indexer[y]
        /\ indexer'[x].id = i /\ indexer'[x].status = indexer[x].status
    BY <1>2, <2>1 DEF IndexerOK, Pcs
  <2>5. QED
    BY <1>1, <2>3, <2>4, IndexQuiet DEF IndexHash
<1>6. QED
  BY <1>4, <1>5

LEMMA IndexDupStep == \A x \in Indexers : CInv /\ IndexDup(x) => CInv'
<1> SUFFICES ASSUME NEW x \in Indexers, CInv, IndexDup(x) PROVE CInv'
  OBVIOUS
<1> DEFINE row == rows[indexer[x].id]
<1>1. row \in Row /\ Present(indexer[x].id) /\ indexer[x].pc = "dup"
  BY IndexRow DEF IndexDup
<1>2. CASE EarlierCopies(indexer[x].id) # {}
  BY <1>1, <1>2, IndexGoesOn DEF IndexDup, Pcs
<1>3. CASE EarlierCopies(indexer[x].id) = {}
  BY <1>1, <1>3, IndexSettles DEF IndexDup
<1>4. QED
  BY <1>2, <1>3

\* Appending to a photo's folder in the trash.
LEMMA BinGrows ==
  ASSUME BinOK, NEW i \in Ids, NEW c \in Contents, bin' = [bin EXCEPT ![i] = Append(@, c)]
  PROVE  BinOK' /\ bin'[i] # <<>> /\ \A j \in Ids : bin[j] # <<>> => bin'[j] # <<>>
<1>1. bin[i] \in Seq(Contents)
  BY DEF BinOK
<1>2. Append(bin[i], c) \in Seq(Contents) /\ Append(bin[i], c) # <<>>
  BY <1>1
<1>3. QED
  BY <1>2 DEF BinOK

\* A file is moved to the trash.
LEMMA FileBinned ==
  ASSUME DiskOK, BinOK, NEW i \in Ids, rows[i].path \in Paths, OnDisk(i),
         disk' = [disk EXCEPT ![rows[i].path] = Nothing],
         bin' = [bin EXCEPT ![i] = Append(@, disk[rows[i].path])]
  PROVE  DiskOK' /\ BinOK' /\ bin'[i] # <<>> /\ \A j \in Ids : bin[j] # <<>> => bin'[j] # <<>>
<1>1. disk[rows[i].path] \in Contents
  BY DEF DiskOK, OnDisk
<1>2. QED
  BY <1>1, BinGrows DEF DiskOK

LEMMA IndexTrashStep == \A x \in Indexers : CInv /\ IndexTrash(x) => CInv'
<1> SUFFICES ASSUME NEW x \in Indexers, CInv, IndexTrash(x) PROVE CInv'
  OBVIOUS
<1> DEFINE i == indexer[x].id
<1>1. /\ i \in Ids /\ rows[i] \in Row /\ rows[i].path \in Paths /\ Present(i)
      /\ indexer[x].pc = "trash" /\ indexer[x].status # "trashed"
  BY IndexRow DEF IndexTrash
<1>2. DiskOK /\ BinOK /\ RowsOK /\ ScanOK /\ IndexerOK /\ HistoryOK
  BY TypeParts DEF CInv
<1>3. CASE OnDisk(i)
  <2>1. /\ disk' = [disk EXCEPT ![rows[i].path] = Nothing]
        /\ bin' = [bin EXCEPT ![i] = Append(@, disk[rows[i].path])]
        /\ indexer' = [indexer EXCEPT ![x].pc = "commit"]
        /\ UNCHANGED <<rows, scan, user, upsets, cut>>
    BY <1>3 DEF IndexTrash
  <2>2. DiskOK' /\ BinOK' /\ bin'[i] # <<>> /\ \A j \in Ids : bin[j] # <<>> => bin'[j] # <<>>
    BY <1>1, <1>2, <1>3, <2>1, FileBinned
  <2>3. /\ IndexerOK' /\ indexer'[x].id = i /\ indexer'[x].status = indexer[x].status
        /\ \A y \in Indexers \ {x} : indexer'[y] = indexer[y]
    BY <1>2, <2>1 DEF IndexerOK, Pcs
  <2>4. IndexesUntrashed'
    BY <1>1, <2>3 DEF CInv, IndexesUntrashed
  <2>5. MovedHasCopy'
    <3>1. ASSUME NEW j \in Ids, InFlight(j)' PROVE j = i \/ InFlight(j)
      BY <2>1, <2>3, <3>1 DEF InFlight, Moved
    <3>2. QED
      BY <2>1, <2>2, <3>1 DEF CInv, MovedHasCopy
  <2>6. KeepsCopy'
    BY <2>1, <2>2 DEF CInv, KeepsCopy, TakesOut
  <2>7. RowsOK' /\ StagedOnce' /\ HistoryOK'
    BY <1>2, <2>1, SameRows, RowsStay DEF CInv, HistoryOK
  <2>8. QED
    BY <2>1, <2>2, <2>3, <2>4, <2>5, <2>6, <2>7, IndexFrame
<1>4. CASE ~OnDisk(i)
  BY <1>1, <1>4, IndexSettles DEF IndexTrash
<1>5. QED
  BY <1>3, <1>4

LEMMA IndexCommitStep == \A x \in Indexers : CInv /\ IndexCommit(x) => CInv'
<1> SUFFICES ASSUME NEW x \in Indexers, CInv, IndexCommit(x) PROVE CInv'
  OBVIOUS
<1> DEFINE i == indexer[x].id
           next == [rows[i] EXCEPT !.status = "trashed"]
<1>1. i \in Ids /\ rows[i] \in Row /\ Present(i) /\ indexer[x].pc = "commit"
  BY IndexRow DEF IndexCommit
<1>2. DiskOK /\ BinOK /\ RowsOK /\ ScanOK /\ IndexerOK /\ HistoryOK
  BY TypeParts DEF CInv
<1>3. next \in Row /\ next.path = rows[i].path /\ next.status = "trashed"
  BY <1>1 DEF Row, Status
<1>4. Done(x, next) /\ UNCHANGED <<disk, bin, scan, user, upsets, cut>>
  BY DEF IndexCommit
<1>5. /\ rows' \in [Ids -> Row] /\ \A j \in Ids : Settled(j)
      /\ IndexerOK'
      /\ \A j \in Ids : rows'[j].status = IF j = i THEN "trashed" ELSE rows[j].status
  BY <1>1, <1>2, <1>3, <1>4, DoneStays
<1>6. indexer'[x] = Idle /\ \A y \in Indexers \ {x} : indexer'[y] = indexer[y]
  BY <1>2, <1>4 DEF Done, IndexerOK
<1>7. InFlight(i)
  BY <1>1 DEF InFlight, Moved
<1>8. MovedHasCopy'
  <2>1. ASSUME NEW j \in Ids, InFlight(j)' PROVE InFlight(j)
    BY <1>4, <1>6, <2>1 DEF InFlight, Moved, Idle
  <2>2. QED
    BY <1>4, <2>1 DEF CInv, MovedHasCopy
<1>9. KeepsCopy'
  BY <1>1, <1>4, <1>5, <1>7 DEF CInv, KeepsCopy, MovedHasCopy, TakesOut
<1>10. IndexesUntrashed'
  BY <1>6 DEF CInv, IndexesUntrashed, Idle
<1>11. RowsOK' /\ StagedOnce' /\ DiskOK' /\ BinOK' /\ HistoryOK'
  BY <1>2, <1>4, <1>5, RowsStay DEF CInv, DiskOK, BinOK, HistoryOK
<1>12. QED
  BY <1>4, <1>5, <1>8, <1>9, <1>10, <1>11, IndexFrame

LEMMA IndexLostStep == \A x \in Indexers : CInv /\ IndexLost(x) => CInv'
<1> SUFFICES ASSUME NEW x \in Indexers, CInv, IndexLost(x) PROVE CInv'
  OBVIOUS
<1>1. DiskOK /\ BinOK /\ RowsOK /\ ScanOK /\ IndexerOK /\ HistoryOK
  BY TypeParts DEF CInv
<1>2. /\ cut' = cut \cup Moved({x}) /\ indexer' = [indexer EXCEPT ![x] = Idle]
      /\ UNCHANGED <<disk, bin, rows, scan, user, upsets>>
  BY DEF IndexLost
<1>3. IndexerOK' /\ indexer'[x] = Idle /\ \A y \in Indexers \ {x} : indexer'[y] = indexer[y]
  BY <1>1, <1>2 DEF IndexerOK, Idle, Pcs, Status
<1>4. Moved({x}) \subseteq Ids
  BY DEF CInv, IndexesUntrashed, Moved
<1>5. RowsOK' /\ StagedOnce' /\ DiskOK' /\ BinOK' /\ HistoryOK'
  BY <1>1, <1>2, <1>4, SameRows, RowsStay DEF CInv, DiskOK, BinOK, HistoryOK
<1>6. IndexesUntrashed'
  BY <1>3 DEF CInv, IndexesUntrashed, Idle
<1>7. MovedHasCopy'
  <2>1. ASSUME NEW j \in Ids, InFlight(j)' PROVE InFlight(j)
    BY <1>2, <1>3, <2>1 DEF InFlight, Moved, Idle
  <2>2. QED
    BY <1>2, <2>1 DEF CInv, MovedHasCopy
<1>8. KeepsCopy'
  BY <1>2 DEF CInv, KeepsCopy, TakesOut
<1>9. QED
  BY <1>2, <1>3, <1>5, <1>6, <1>7, <1>8, IndexFrame

-------------------------------------------------------------------------------
(***************************************************************************)
(* The steps of a request.                                                 *)
(***************************************************************************)
\* What they leave alone; each shows the rest.
LEMMA RequestFrame ==
  ASSUME CInv, rows' \in [Ids -> Row], \A i \in Ids : Settled(i),
         DiskOK', BinOK', UserOK', NoneIsEmpty', HistoryOK', MovedHasCopy', KeepsCopy',
         UNCHANGED <<scan, indexer>>
  PROVE  CInv'
<1>1. ScanOK' /\ IndexerOK' /\ IndexesUntrashed'
  BY TypeParts DEF CInv, ScanOK, IndexerOK, IndexesUntrashed
<1>2. RowsOK' /\ StagedOnce'
  BY TypeParts, RowsStay DEF CInv
<1>3. TypeOK'
  BY <1>1, <1>2 DEF TypeOK, DiskOK, BinOK, RowsOK, ScanOK, IndexerOK, UserOK, HistoryOK, Pcs, Ops
<1>4. QED
  BY <1>1, <1>2, <1>3 DEF CInv

\* A request takes up one more photo.
LEMMA TakesUp ==
  ASSUME UserOK, NoneIsEmpty, NEW u \in Users, NEW i \in Ids,
         NEW op \in Ops \ {"none"}, Does(u, op), user' = With(u, op, i)
  PROVE  /\ UserOK' /\ NoneIsEmpty'
         /\ user'[u].op = op /\ user'[u].ids = user[u].ids \cup {i}
         /\ \A v \in Users \ {u} : user'[v] = user[v]
         /\ user[u].ids # {} => user[u].op = op
<1>1. [op |-> op, ids |-> user[u].ids \cup {i}] \in [op : Ops, ids : SUBSET Ids]
  BY DEF UserOK
<1>2. user' = [user EXCEPT ![u] = [op |-> op, ids |-> user[u].ids \cup {i}]]
  BY DEF With
<1>3. UserOK' /\ user'[u] = [op |-> op, ids |-> user[u].ids \cup {i}]
  BY <1>1, <1>2 DEF UserOK
<1>4. \A v \in Users \ {u} : user'[v] = user[v]
  BY <1>2 DEF UserOK
<1>5. QED
  BY <1>3, <1>4 DEF NoneIsEmpty, Does

LEMMA TrashMoveStep == \A u \in Users, i \in Ids : CInv /\ TrashMove(u, i) => CInv'
<1> SUFFICES ASSUME NEW u \in Users, NEW i \in Ids, CInv, TrashMove(u, i) PROVE CInv'
  OBVIOUS
<1>1. DiskOK /\ BinOK /\ RowsOK /\ UserOK /\ HistoryOK /\ NoneIsEmpty
  BY TypeParts DEF CInv
<1>2. /\ Present(i) /\ OnDisk(i)
      /\ disk' = [disk EXCEPT ![rows[i].path] = Nothing]
      /\ bin' = [bin EXCEPT ![i] = Append(@, disk[rows[i].path])]
      /\ Does(u, "trash") /\ user' = With(u, "trash", i)
      /\ UNCHANGED <<rows, scan, indexer, upsets, cut>>
  BY DEF TrashMove
<1>3. DiskOK' /\ BinOK' /\ bin'[i] # <<>> /\ \A j \in Ids : bin[j] # <<>> => bin'[j] # <<>>
  BY <1>1, <1>2, FileBinned DEF RowsOK
<1>4. /\ UserOK' /\ NoneIsEmpty'
      /\ user'[u].op = "trash" /\ user'[u].ids = user[u].ids \cup {i}
      /\ \A v \in Users \ {u} : user'[v] = user[v]
      /\ user[u].ids # {} => user[u].op = "trash"
  BY <1>1, <1>2, TakesUp DEF Ops
<1>5. MovedHasCopy'
  <2>1. ASSUME NEW j \in Ids, InFlight(j)' PROVE j = i \/ InFlight(j)
    BY <1>2, <1>4, <2>1 DEF InFlight, Moved
  <2>2. QED
    BY <1>2, <1>3, <2>1 DEF CInv, MovedHasCopy
<1>6. KeepsCopy'
  <2>1. \A v \in Users, j \in Ids : TakesOut(v, j) => TakesOut(v, j)'
    BY <1>4 DEF TakesOut
  <2>2. QED
    BY <1>2, <1>3, <2>1 DEF CInv, KeepsCopy
<1>7. QED
  BY <1>1, <1>2, <1>3, <1>4, <1>5, <1>6, SameRows, RequestFrame DEF HistoryOK

\* A file leaves the trash: its photo is the request's now.
LEMMA FileTaken ==
  ASSUME CInv, NEW u \in Users, NEW i \in Ids, NEW op \in {"restore", "purge"},
         Does(u, op), user' = With(u, op, i),
         DiskOK', BinOK', \A j \in Ids \ {i} : bin'[j] = bin[j],
         cut' = IF InFlight(i) THEN cut \cup {i} ELSE cut,
         UNCHANGED <<rows, scan, indexer, upsets>>
  PROVE  CInv'
<1>1. RowsOK /\ UserOK /\ HistoryOK /\ NoneIsEmpty
  BY TypeParts DEF CInv
<1>2. /\ UserOK' /\ NoneIsEmpty'
      /\ user'[u].op = op /\ user'[u].ids = user[u].ids \cup {i}
      /\ \A v \in Users \ {u} : user'[v] = user[v]
      /\ user[u].ids # {} => user[u].op = op
  BY <1>1, TakesUp DEF Ops
<1>3. MovedHasCopy'
  <2>1. ASSUME NEW j \in Ids, InFlight(j)' PROVE InFlight(j)
    BY <1>2, <2>1 DEF InFlight, Moved
  <2>2. QED
    BY <2>1 DEF CInv, MovedHasCopy
<1>4. KeepsCopy'
  <2>1. \A v \in Users, j \in Ids : TakesOut(v, j) => TakesOut(v, j)'
    BY <1>2 DEF TakesOut
  <2>2. TakesOut(u, i)'
    BY <1>2 DEF TakesOut
  <2>3. QED
    BY <2>1, <2>2 DEF CInv, KeepsCopy
<1>5. HistoryOK'
  BY <1>1 DEF HistoryOK
<1>6. QED
  BY <1>1, <1>2, <1>3, <1>4, <1>5, SameRows, RequestFrame

LEMMA RestoreMoveStep == \A u \in Users, i \in Ids : CInv /\ RestoreMove(u, i) => CInv'
<1> SUFFICES ASSUME NEW u \in Users, NEW i \in Ids, CInv, RestoreMove(u, i) PROVE CInv'
  OBVIOUS
<1>1. DiskOK /\ BinOK /\ bin[i] \in Seq(Contents) /\ bin[i] # <<>>
  BY TypeParts DEF CInv, BinOK, RestoreMove
<1>2. /\ disk' = [disk EXCEPT ![rows[i].path] = bin[i][Len(bin[i])]]
      /\ bin' = [bin EXCEPT ![i] = SubSeq(@, 1, Len(bin[i]) - 1)]
      /\ Does(u, "restore") /\ user' = With(u, "restore", i)
      /\ cut' = IF InFlight(i) THEN cut \cup {i} ELSE cut
      /\ UNCHANGED <<rows, scan, indexer, upsets>>
  BY DEF RestoreMove
<1>3. /\ bin[i][Len(bin[i])] \in Contents
      /\ SubSeq(bin[i], 1, Len(bin[i]) - 1) \in Seq(Contents)
  BY <1>1
<1>4. DiskOK' /\ BinOK' /\ \A j \in Ids \ {i} : bin'[j] = bin[j]
  BY <1>1, <1>2, <1>3 DEF DiskOK, BinOK
<1>5. QED
  BY <1>2, <1>4, FileTaken

LEMMA PurgeFilesStep == \A u \in Users, i \in Ids : CInv /\ PurgeFiles(u, i) => CInv'
<1> SUFFICES ASSUME NEW u \in Users, NEW i \in Ids, CInv, PurgeFiles(u, i) PROVE CInv'
  OBVIOUS
<1>1. DiskOK /\ BinOK
  BY TypeParts DEF CInv
<1>2. DiskOK' /\ BinOK' /\ \A j \in Ids \ {i} : bin'[j] = bin[j]
  BY <1>1 DEF PurgeFiles, DiskOK, BinOK
<1>3. QED
  BY <1>2, FileTaken DEF PurgeFiles

\* A request ends: what it was at is not under way any more.
LEMMA RequestEnds ==
  ASSUME CInv, NEW u \in Users, user[u].op # "none",
         user' = [user EXCEPT ![u] = NoBatch],
         UNCHANGED <<disk, bin, scan, indexer>>
  PROVE  /\ UserOK' /\ NoneIsEmpty' /\ DiskOK' /\ BinOK'
         /\ \A i \in Ids : InFlight(i)' => InFlight(i)
         /\ \A v \in Users \ {u}, i \in Ids : TakesOut(v, i) => TakesOut(v, i)'
         /\ user[u].ids \subseteq Ids /\ user[u].op \in Ops
<1>1. DiskOK /\ BinOK /\ UserOK /\ NoneIsEmpty
  BY TypeParts DEF CInv
<1>2. user'[u] = NoBatch /\ \A v \in Users \ {u} : user'[v] = user[v]
  BY <1>1 DEF UserOK
<1>3. UserOK' /\ NoneIsEmpty' /\ DiskOK' /\ BinOK'
  BY <1>1, <1>2 DEF UserOK, NoneIsEmpty, DiskOK, BinOK, NoBatch, Ops
<1>4. \A i \in Ids : InFlight(i)' => InFlight(i)
  BY <1>2 DEF InFlight, Moved, NoBatch
<1>5. QED
  BY <1>1, <1>2, <1>3, <1>4 DEF TakesOut, UserOK

\* A request that takes files out of the trash and does not get to commit leaves its
\* photos in `cut'.
LEMMA CutShortStep ==
  ASSUME CInv, NEW u \in Users, user[u].op # "none", CutShort(u),
         user' = [user EXCEPT ![u] = NoBatch],
         UNCHANGED <<disk, bin, rows, scan, indexer>>, upsets' \in 0..MaxUpsets
  PROVE  CInv'
<1>1. RowsOK /\ HistoryOK
  BY TypeParts DEF CInv
<1>2. /\ UserOK' /\ NoneIsEmpty' /\ DiskOK' /\ BinOK'
      /\ \A i \in Ids : InFlight(i)' => InFlight(i)
      /\ \A v \in Users \ {u}, i \in Ids : TakesOut(v, i) => TakesOut(v, i)'
      /\ user[u].ids \subseteq Ids
  BY RequestEnds
<1>3. HistoryOK' /\ cut \subseteq cut'
  BY <1>1, <1>2 DEF CutShort, HistoryOK
<1>4. \A i \in Ids : TakesOut(u, i) => i \in cut'
  BY DEF CutShort, TakesOut
<1>5. MovedHasCopy'
  BY <1>2, <1>3 DEF CInv, MovedHasCopy
<1>6. KeepsCopy'
  BY <1>2, <1>3, <1>4 DEF CInv, KeepsCopy
<1>7. QED
  BY <1>1, <1>2, <1>3, <1>5, <1>6, SameRows, RequestFrame

LEMMA OutcomeRow ==
  ASSUME NEW op \in Ops \ {"none"}, NEW row \in Row, row.status # "absent"
  PROVE  /\ Outcome(op, row) \in Row
         /\ \/ Outcome(op, row) = NoRow
            \/ Outcome(op, row).status # "absent" /\ Outcome(op, row).path = row.path
         /\ op \in {"trash", "repair"} <=> Outcome(op, row).status = "trashed"
<1>1. NoRow \in Row /\ NoRow.status = "absent"
  BY DEF NoRow, Row, Status
<1>2. CASE op \in {"trash", "repair"}
  <2>1. Outcome(op, row) = [row EXCEPT !.status = "trashed"]
    BY <1>2 DEF Outcome
  <2>2. /\ [row EXCEPT !.status = "trashed"] \in Row
        /\ [row EXCEPT !.status = "trashed"].status = "trashed"
        /\ [row EXCEPT !.status = "trashed"].path = row.path
    BY DEF Row, Status
  <2>3. QED
    BY <1>2, <2>1, <2>2
<1>3. CASE op = "restore"
  <2>1. Outcome(op, row) = [row EXCEPT !.status = "active"]
    BY <1>3 DEF Outcome
  <2>2. /\ [row EXCEPT !.status = "active"] \in Row
        /\ [row EXCEPT !.status = "active"].status = "active"
        /\ [row EXCEPT !.status = "active"].path = row.path
    BY DEF Row, Status
  <2>3. op \notin {"trash", "repair"} /\ "active" # "absent" /\ "active" # "trashed"
    BY <1>3
  <2>4. QED
    BY <2>1, <2>2, <2>3
<1>4. CASE op = "purge"
  <2>1. Outcome(op, row) = NoRow
    BY <1>4 DEF Outcome
  <2>2. QED
    BY <1>1, <1>4, <2>1
<1>5. QED
  BY <1>2, <1>3, <1>4 DEF Ops

LEMMA UserCommitStep == \A u \in Users : CInv /\ UserCommit(u) => CInv'
<1> SUFFICES ASSUME NEW u \in Users, CInv, UserCommit(u) PROVE CInv'
  OBVIOUS
<1> DEFINE op == user[u].op
           S == user[u].ids
<1>1. op # "none" /\ user' = [user EXCEPT ![u] = NoBatch]
      /\ UNCHANGED <<disk, bin, scan, indexer, upsets>>
  BY DEF UserCommit
<1>2. RowsOK /\ HistoryOK
  BY TypeParts DEF CInv
<1>3. /\ UserOK' /\ NoneIsEmpty' /\ DiskOK' /\ BinOK'
      /\ \A i \in Ids : InFlight(i)' => InFlight(i)
      /\ \A v \in Users \ {u}, i \in Ids : TakesOut(v, i) => TakesOut(v, i)'
      /\ S \subseteq Ids /\ op \in Ops
  BY <1>1, RequestEnds
<1>4. CASE op = "purge" \/ \A i \in S : Present(i)
  <2>1. /\ rows' = [i \in Ids |-> IF i \in S THEN Outcome(op, rows[i]) ELSE rows[i]]
        /\ cut' = cut \cup Overtaken(u)
    BY <1>4 DEF UserCommit
  <2>2. ASSUME NEW i \in S, Present(i)
        PROVE  /\ rows'[i] \in Row /\ Settled(i)
               /\ rows'[i].status = "trashed" => op \in {"trash", "repair"}
    <3>1. rows[i] \in Row /\ i \in Ids
      BY <1>2, <1>3 DEF RowsOK
    <3>2. rows'[i] = Outcome(op, rows[i])
      BY <2>1, <3>1
    <3>3. QED
      BY <1>1, <1>3, <2>2, <3>1, <3>2, OutcomeRow DEF Settled
  <2>3. ASSUME NEW i \in S, ~Present(i)
        PROVE  rows'[i] = NoRow /\ rows'[i] \in Row /\ rows'[i].status # "trashed"
    <3>1. rows'[i] = NoRow
      BY <1>3, <1>4, <2>1, <2>3 DEF Outcome
    <3>2. QED
      BY <3>1 DEF NoRow, Row, Status
  <2>4. \A i \in Ids \ S : rows'[i] = rows[i]
    BY <2>1
  <2>5. rows' \in [Ids -> Row]
    <3>1. \A i \in Ids : rows'[i] \in Row
      BY <1>2, <2>2, <2>3, <2>4 DEF RowsOK
    <3>2. QED
      BY <2>1, <3>1
  <2>6. \A i \in Ids : Settled(i)
    BY <1>2, <2>2, <2>3, <2>4 DEF RowsOK, Settled
  <2>7. HistoryOK' /\ cut \subseteq cut'
    BY <1>1, <1>2, <1>3, <2>1 DEF HistoryOK, Overtaken
  <2>8. MovedHasCopy'
    BY <1>1, <1>3, <2>7 DEF CInv, MovedHasCopy
  <2>9. ASSUME NEW i \in Ids, rows'[i].status = "trashed"
        PROVE  bin'[i] # <<>> \/ i \in cut' \/ \E v \in Users : TakesOut(v, i)'
    <3>1. CASE i \in S /\ op = "trash"
      <4>1. InFlight(i)
        BY <3>1 DEF InFlight
      <4>2. QED
        BY <1>1, <2>7, <4>1 DEF CInv, MovedHasCopy
    <3>2. CASE i \in S /\ op = "repair"
      BY <1>1, <2>1, <3>2 DEF Overtaken, Lost
    <3>3. CASE i \in S /\ op \notin {"trash", "repair"}
      BY <2>2, <2>3, <2>9, <3>3
    <3>4. CASE i \notin S
      <4>1. rows[i].status = "trashed" /\ ~TakesOut(u, i)
        BY <2>4, <2>9, <3>4 DEF TakesOut
      <4>2. QED
        BY <1>1, <1>3, <2>7, <4>1 DEF CInv, KeepsCopy
    <3>5. QED
      BY <3>1, <3>2, <3>3, <3>4
  <2>10. KeepsCopy'
    BY <2>9 DEF KeepsCopy
  <2>11. QED
    BY <1>1, <1>3, <2>5, <2>6, <2>7, <2>8, <2>10, RequestFrame
<1>5. CASE ~(op = "purge" \/ \A i \in S : Present(i))
  <2>1. CutShort(u) /\ rows' = rows
    BY <1>5 DEF UserCommit
  <2>2. QED
    BY <1>1, <1>2, <2>1, CutShortStep DEF HistoryOK
<1>6. QED
  BY <1>4, <1>5

LEMMA RepairSelectStep == \A u \in Users : CInv /\ RepairSelect(u) => CInv'
<1> SUFFICES ASSUME NEW u \in Users, CInv, RepairSelect(u) PROVE CInv'
  OBVIOUS
<1>1. DiskOK /\ BinOK /\ RowsOK /\ UserOK /\ HistoryOK /\ NoneIsEmpty
  BY TypeParts DEF CInv
<1>2. /\ user[u].op = "none"
      /\ user' = [user EXCEPT ![u] = [op |-> "repair", ids |-> {i \in Ids : Lost(i)}]]
      /\ UNCHANGED <<disk, bin, rows, scan, indexer, upsets, cut>>
  BY DEF RepairSelect
<1>3. /\ user'[u] = [op |-> "repair", ids |-> {i \in Ids : Lost(i)}]
      /\ \A v \in Users \ {u} : user'[v] = user[v]
  BY <1>1, <1>2 DEF UserOK
<1>4. UserOK' /\ NoneIsEmpty' /\ DiskOK' /\ BinOK' /\ HistoryOK'
  BY <1>1, <1>2, <1>3 DEF UserOK, NoneIsEmpty, DiskOK, BinOK, HistoryOK, Ops
<1>5. MovedHasCopy'
  <2>1. ASSUME NEW i \in Ids, InFlight(i)' PROVE InFlight(i)
    BY <1>2, <1>3, <2>1 DEF InFlight, Moved
  <2>2. QED
    BY <1>2, <2>1 DEF CInv, MovedHasCopy
<1>6. KeepsCopy'
  <2>1. \A v \in Users, i \in Ids : TakesOut(v, i) => TakesOut(v, i)'
    BY <1>2, <1>3 DEF TakesOut
  <2>2. QED
    BY <1>2, <2>1 DEF CInv, KeepsCopy
<1>7. QED
  BY <1>1, <1>2, <1>4, <1>5, <1>6, SameRows, RequestFrame

-------------------------------------------------------------------------------
(***************************************************************************)
(* Crashes and other programs.                                             *)
(***************************************************************************)
LEMMA CrashApiStep == \A u \in Users : CInv /\ CrashApi(u) => CInv'
<1> SUFFICES ASSUME NEW u \in Users, CInv, CrashApi(u) PROVE CInv'
  OBVIOUS
<1>1. upsets' \in 0..MaxUpsets
  BY TypeParts DEF CInv, HistoryOK, CrashApi
<1>2. QED
  BY <1>1, CutShortStep DEF CrashApi

LEMMA CrashWorkerStep == CInv /\ CrashWorker => CInv'
<1> SUFFICES ASSUME CInv, CrashWorker PROVE CInv'
  OBVIOUS
<1>1. RowsOK /\ DiskOK /\ BinOK /\ UserOK /\ NoneIsEmpty /\ HistoryOK
  BY TypeParts DEF CInv
<1>2. /\ upsets > 0 /\ upsets' = upsets - 1 /\ scan' = NoScan
      /\ indexer' = [x \in Indexers |-> Idle] /\ cut' = cut \cup Moved(Indexers)
      /\ UNCHANGED <<disk, bin, rows, user>>
  BY DEF CrashWorker
<1>3. ScanOK' /\ StagedOnce'
  BY <1>2, NoScanTyped
<1>4. Moved(Indexers) \subseteq Ids
  BY DEF CInv, IndexesUntrashed, Moved
<1>5. DiskOK' /\ BinOK' /\ UserOK' /\ NoneIsEmpty' /\ HistoryOK' /\ RowsOK'
  <2>1. DiskOK' /\ BinOK' /\ UserOK' /\ NoneIsEmpty' /\ RowsOK'
    BY <1>1, <1>2 DEF DiskOK, BinOK, UserOK, NoneIsEmpty, RowsOK
  <2>2. upsets' \in 0..MaxUpsets
    BY <1>1, <1>2 DEF HistoryOK
  <2>3. cut' \subseteq Ids
    BY <1>1, <1>2, <1>4 DEF HistoryOK
  <2>4. QED
    BY <2>1, <2>2, <2>3 DEF HistoryOK
<1>6. IndexerOK' /\ IndexesUntrashed'
  BY <1>2 DEF IndexerOK, IndexesUntrashed, Idle, Pcs, Status
<1>7. MovedHasCopy'
  <2>1. ASSUME NEW i \in Ids, InFlight(i)' PROVE InFlight(i)
    BY <1>2, <2>1 DEF InFlight, Moved, Idle
  <2>2. QED
    BY <1>2, <2>1 DEF CInv, MovedHasCopy
<1>8. KeepsCopy'
  BY <1>2 DEF CInv, KeepsCopy, TakesOut
<1>9. TypeOK'
  BY <1>3, <1>5, <1>6 DEF TypeOK, DiskOK, BinOK, RowsOK, ScanOK, IndexerOK, UserOK, HistoryOK,
     Pcs, Ops
<1>10. QED
  BY <1>3, <1>5, <1>6, <1>7, <1>8, <1>9 DEF CInv

\* Other programs change files in the root, and nothing that the invariant speaks of.
LEMMA DiskChanges ==
  ASSUME CInv, DiskOK', upsets' \in 0..MaxUpsets,
         UNCHANGED <<bin, rows, scan, indexer, user, cut>>
  PROVE  CInv'
<1>1. TypeOK'
  BY DEF CInv, TypeOK, DiskOK
<1>2. StagedOnce' /\ IndexesUntrashed' /\ NoneIsEmpty'
  BY DEF CInv, StagedOnce, IndexesUntrashed, NoneIsEmpty
<1>3. MovedHasCopy' /\ KeepsCopy'
  BY DEF CInv, MovedHasCopy, InFlight, Moved, KeepsCopy, TakesOut
<1>4. QED
  BY <1>1, <1>2, <1>3 DEF CInv

LEMMA EditStep == \A p \in Paths, c \in File : CInv /\ Edit(p, c) => CInv'
<1> SUFFICES ASSUME NEW p \in Paths, NEW c \in File, CInv, Edit(p, c) PROVE CInv'
  OBVIOUS
<1>1. DiskOK' /\ upsets' \in 0..MaxUpsets
  BY TypeParts DEF CInv, DiskOK, HistoryOK, Edit
<1>2. QED
  BY <1>1, DiskChanges DEF Edit

LEMMA RenameStep == \A p, q \in Paths : CInv /\ Rename(p, q) => CInv'
<1> SUFFICES ASSUME NEW p \in Paths, NEW q \in Paths, CInv, Rename(p, q) PROVE CInv'
  OBVIOUS
<1>1. DiskOK' /\ upsets' \in 0..MaxUpsets
  BY TypeParts DEF CInv, DiskOK, HistoryOK, Rename
<1>2. QED
  BY <1>1, DiskChanges DEF Rename

-------------------------------------------------------------------------------
LEMMA CatalogStep == CInv /\ [Next]_vars => CInv'
<1> SUFFICES ASSUME CInv, [Next]_vars PROVE CInv'
  OBVIOUS
<1>1. CASE Scan
  BY <1>1, ScanStartStep, ScanCommitStep, ScanFailsStep, ScanReconcileStep, ScanVisitStep DEF Scan
<1>2. ASSUME NEW x \in Indexers, Index(x) PROVE CInv'
  BY <1>2, IndexBeginStep, IndexExistsStep, IndexMarkStep, IndexHashStep, IndexDupStep,
     IndexTrashStep, IndexCommitStep, IndexLostStep DEF Index
<1>3. ASSUME NEW u \in Users, Request(u) PROVE CInv'
  BY <1>3, TrashMoveStep, RestoreMoveStep, PurgeFilesStep, RepairSelectStep, UserCommitStep,
     CrashApiStep DEF Request
<1>4. CASE CrashWorker
  BY <1>4, CrashWorkerStep
<1>5. CASE \E p \in Paths, c \in File : Edit(p, c)
  BY <1>5, EditStep
<1>6. CASE \E p, q \in Paths : Rename(p, q)
  BY <1>6, RenameStep
<1>7. CASE UNCHANGED vars
  <2>1. UNCHANGED <<disk, bin, rows, scan, indexer, user, upsets, cut>>
    BY <1>7 DEF vars
  <2>2. DiskOK' /\ upsets' \in 0..MaxUpsets
    BY <2>1, TypeParts DEF CInv, DiskOK, HistoryOK
  <2>3. QED
    BY <2>1, <2>2, DiskChanges
<1>8. QED
  BY <1>1, <1>2, <1>3, <1>4, <1>5, <1>6, <1>7 DEF Next

THEOREM CatalogHolds == Spec => []CInv
<1>1. Init => CInv
  BY CatalogInit
<1>2. CInv /\ [Next]_vars => CInv'
  BY CatalogStep
<1>3. QED
  BY <1>1, <1>2, PTL DEF Spec

\* The tables keep their types, and no two rows ever have one path, though scans, index
\* threads and requests read rows that others change before they write.
THEOREM CatalogTypes == Spec => []TypeOK
<1>1. CInv => TypeOK
  BY DEF CInv
<1>2. QED
  BY <1>1, CatalogHolds, PTL

\* A photo in the trash can be restored, unless a request is at work on it, or a move and
\* its commit came apart (trash_photos_core, restore_from_trash, purge_trashed).
THEOREM TrashIsKept == Spec => []TrashedHasCopy
<1>1. CInv => TrashedHasCopy
  BY DEF CInv, KeepsCopy, TakesOut, TrashedHasCopy
<1>2. QED
  BY <1>1, CatalogHolds, PTL

\* A trashed photo turns missing in two places only: discover_root's reconciliation of
\* rows it read as active, and an index thread that loaded the row before it was trashed.
THEOREM OnlyStaleReads == Spec => OnlyStaleReadsHide
<1> DEFINE Hides(i) ==
      rows[i].status = "trashed" /\ rows'[i].status = "missing" =>
        \/ i \in scan.unseen /\ scan'.pc = "idle"
        \/ \E x \in Indexers : /\ indexer[x].pc = "mark" /\ indexer[x].id = i
                               /\ indexer[x].status # "trashed"
<1>1. CInv /\ [Next]_vars => [\A i \in Ids : Hides(i)]_rows
  <2> SUFFICES ASSUME CInv, [Next]_vars, rows' # rows, NEW i \in Ids,
                      rows[i].status = "trashed", rows'[i].status = "missing"
               PROVE  \/ i \in scan.unseen /\ scan'.pc = "idle"
                      \/ \E x \in Indexers : /\ indexer[x].pc = "mark" /\ indexer[x].id = i
                                             /\ indexer[x].status # "trashed"
    OBVIOUS
  <2>1. RowsOK /\ rows[i] \in Row /\ rows[i].status # "missing"
    BY TypeParts DEF CInv, RowsOK
  <2>2. CASE ScanReconcile
    BY <2>1, <2>2 DEF ScanReconcile, NoScan
  <2>3. CASE ScanCommit
    <3> DEFINE new == {e \in scan.staged : e.id = 0}
               old == scan.staged \ new
    <3>1. PICK f \in [new -> Ids] :
            rows' = [j \in Ids |->
              IF \E e \in old : e.id = j
                THEN Rescanned(rows[j], CHOOSE e \in old : e.id = j)
              ELSE IF \E e \in new : f[e] = j
                THEN LET e == CHOOSE d \in new : f[d] = j
                     IN [status |-> "active", path |-> e.path, sig |-> e.sig,
                         sha |-> Nothing, todo |-> TRUE]
              ELSE rows[j]]
      BY <2>3 DEF ScanCommit
    <3>2. \A e : Rescanned(rows[i], e).status \in {rows[i].status, "active"}
      BY <2>1 DEF Rescanned, Row
    <3>3. rows'[i].status \in {rows[i].status, "active"}
      BY <3>1, <3>2
    <3>4. QED
      BY <2>1, <3>3
  <2>4. ASSUME NEW x \in Indexers, Index(x)
        PROVE  \E y \in Indexers : /\ indexer[y].pc = "mark" /\ indexer[y].id = i
                                   /\ indexer[y].status # "trashed"
    <3>1. CASE IndexMark(x)
      <4>1. indexer[x].id = i
        BY <2>1, <3>1 DEF IndexMark, Done, RowsOK
      <4>2. QED
        BY <3>1, <4>1 DEF IndexMark, CInv, IndexesUntrashed
    <3>2. CASE \E j \in Ids : IndexBegin(x, j)
      BY <2>1, <3>2 DEF IndexBegin, RowsOK, Row
    <3>3. CASE IndexHash(x) \/ IndexDup(x) \/ IndexTrash(x) \/ IndexCommit(x)
      <4> DEFINE row == rows[indexer[x].id]
      <4>1. indexer[x].pc # "idle" /\ Present(indexer[x].id)
        BY <3>3 DEF IndexHash, IndexDup, IndexTrash, IndexCommit
      <4>2. indexer[x].id \in Ids /\ row \in Row
        BY <4>1, IndexRow
      <4>3. \/ rows' = rows
            \/ rows' = [rows EXCEPT ![indexer[x].id].sha = disk[row.path]]
            \/ Done(x, row) \/ Done(x, [row EXCEPT !.sha = disk[row.path]])
            \/ Done(x, [row EXCEPT !.status = "trashed"])
        BY <3>3 DEF IndexHash, IndexDup, IndexTrash, IndexCommit
      <4>4. CASE rows' = [rows EXCEPT ![indexer[x].id].sha = disk[row.path]]
        BY <2>1, <4>2, <4>4 DEF RowsOK, Row
      <4>5. CASE Done(x, row)
        BY <2>1, <4>2, <4>5 DEF Done, RowsOK, Row
      <4>6. CASE Done(x, [row EXCEPT !.sha = disk[row.path]])
        BY <2>1, <4>2, <4>6 DEF Done, RowsOK, Row
      <4>7. CASE Done(x, [row EXCEPT !.status = "trashed"])
        BY <2>1, <4>2, <4>7 DEF Done, RowsOK, Row
      <4>8. QED
        BY <4>3, <4>4, <4>5, <4>6, <4>7
    <3>4. CASE IndexExists(x) \/ IndexLost(x)
      BY <3>4 DEF IndexExists, IndexLost
    <3>5. QED
      BY <2>4, <3>1, <3>2, <3>3, <3>4 DEF Index
  <2>5. ASSUME NEW u \in Users, Request(u) PROVE FALSE
    <3>1. CASE UserCommit(u)
      <4>1. user[u].op \in Ops \ {"none"}
        BY <3>1, TypeParts DEF CInv, UserOK, UserCommit
      <4>2. rows'[i] \in {rows[i], Outcome(user[u].op, rows[i])}
        BY <3>1 DEF UserCommit
      <4>3. QED
        BY <2>1, <4>1, <4>2 DEF Outcome, Ops, Row, NoRow
    <3>2. QED
      BY <2>5, <3>1 DEF Request, TrashMove, RestoreMove, PurgeFiles, RepairSelect, CrashApi
  <2>6. QED
    BY <2>2, <2>3, <2>4, <2>5 DEF Next, Scan, ScanStart, ScanFails, ScanVisit, CrashWorker, Edit,
       Rename, vars
<1>2. QED
  BY <1>1, CatalogHolds, PTL DEF Spec, OnlyStaleReadsHide

===============================================================================
