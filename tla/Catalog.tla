-------------------------------- MODULE Catalog --------------------------------
(***************************************************************************)
(* The catalogue of one photo root: the rows of `photos', the files on     *)
(* disk and the files in data/trash/<id>/, as they are changed by root     *)
(* scans, by the index stage (with its ingest dedup), by users who trash,  *)
(* restore and purge, by the administrator's repair, and by programs that  *)
(* know nothing of the catalogue.                                          *)
(*                                                                         *)
(* A file move and the commit that records it are separate steps, and a    *)
(* session's SELECT is separate from the UPDATE computed from it.          *)
(***************************************************************************)
EXTENDS Integers, FiniteSets, Sequences

CONSTANTS
  Paths,       \* media files' paths below the root
  Contents,    \* what a file may hold; signature and SHA tell contents apart
  Disks,       \* the files the root may hold before its first scan
  MaxId,       \* bound: photo ids are 1..MaxId
  Users,       \* requests that trash, restore, purge or repair
  Indexers,    \* threads of the index stage
  SkipIngest,  \* [dedup] skip_ingest
  MaxUpsets    \* bound: crashes, and changes other programs make to the disk

Nothing == "nothing"
Ids     == 1..MaxId

ASSUME CatalogAssumption ==
  /\ Nothing \notin Contents \cup Paths
  /\ Disks \subseteq [Paths -> Contents \cup {Nothing}]
  /\ MaxId \in Nat /\ MaxId >= Cardinality(Paths)
  /\ MaxUpsets \in Nat
  /\ SkipIngest \in BOOLEAN

VARIABLES
  disk,     \* the file at each path
  bin,      \* bin[i]: the files in data/trash/<i>/, the one its sidecar names last
  rows,     \* the photos table
  scan,     \* discover_root
  indexer,  \* each index thread
  user,     \* each request: the files it moved or deleted, not yet committed
  upsets,   \* how many more crashes and changes by other programs may happen
  cut       \* history: photos for which a file's move and its commit came apart,
            \* or that a repair marked from a stale read

vars == <<disk, bin, rows, scan, indexer, user, upsets, cut>>

File   == Contents \cup {Nothing}
Status == {"absent", "active", "missing", "trashed"}

NoRow == [status |-> "absent", path |-> Nothing, sig |-> Nothing,
          sha |-> Nothing, todo |-> FALSE]
Row   == [status : Status, path : Paths \cup {Nothing}, sig : File, sha : File,
          todo : BOOLEAN]

Present(i) == rows[i].status # "absent"
OnDisk(i)  == disk[rows[i].path] # Nothing

NoScan  == [pc |-> "idle", unseen |-> {}, left |-> {}, staged |-> {}]
Idle    == [pc |-> "idle", id |-> 0, status |-> "absent"]
NoBatch == [op |-> "none", ids |-> {}]

\* What a scan's session will write for a path: id 0 stands for a new row.
Staged == [path : Paths, id : Ids \cup {0}, sig : Contents, was : Status]

TypeOK ==
  /\ disk \in [Paths -> File]
  /\ bin \in [Ids -> Seq(Contents)]
  /\ rows \in [Ids -> Row]
  /\ \A i \in Ids : IF Present(i) THEN rows[i].path \in Paths ELSE rows[i] = NoRow
  /\ \A i, j \in Ids : Present(i) /\ Present(j) /\ i # j => rows[i].path # rows[j].path
  /\ scan \in [pc : {"idle", "walk"}, unseen : SUBSET Ids, left : SUBSET Paths,
               staged : SUBSET Staged]
  /\ indexer \in [Indexers -> [pc : {"idle", "exists", "mark", "hash", "dup",
                                     "trash", "commit"},
                               id : Ids \cup {0}, status : Status]]
  /\ user \in [Users -> [op : {"none", "trash", "restore", "purge", "repair"},
                         ids : SUBSET Ids]]
  /\ upsets \in 0..MaxUpsets
  /\ cut \subseteq Ids

Init ==
  /\ disk \in Disks
  /\ bin = [i \in Ids |-> <<>>]
  /\ rows = [i \in Ids |-> NoRow]
  /\ scan = NoScan
  /\ indexer = [x \in Indexers |-> Idle]
  /\ user = [u \in Users |-> NoBatch]
  /\ upsets = MaxUpsets
  /\ cut = {}

-------------------------------------------------------------------------------
(***************************************************************************)
(* discover_root: a snapshot of the active rows, a walk whose changes are  *)
(* committed in batches, and the reconciliation of what was not seen.      *)
(***************************************************************************)
ScanStart ==
  /\ scan.pc = "idle"
  /\ scan' = [NoScan EXCEPT !.pc = "walk", !.left = Paths,
                            !.unseen = {i \in Ids : rows[i].status = "active"}]
  /\ UNCHANGED <<disk, bin, rows, indexer, user, upsets, cut>>

\* The changes a visit to p stages on the row p has.
Visited(p) ==
  {[path |-> p, id |-> i, sig |-> disk[p], was |-> rows[i].status] :
     i \in {j \in Ids : /\ rows[j].path = p
                        /\ rows[j].sig # disk[p] \/ rows[j].status = "missing"}}

\* Mutant of Added: a path is added whether or not it has a row.
AddedAlways(p) == {[path |-> p, id |-> 0, sig |-> disk[p], was |-> "absent"]}

\* A path that no row has, whatever its status, gets a new one.
Added(p) ==
  IF \E i \in Ids : rows[i].path = p THEN {}
  ELSE {[path |-> p, id |-> 0, sig |-> disk[p], was |-> "absent"]}

ScanVisit(p) ==
  /\ scan.pc = "walk"
  /\ p \in scan.left
  /\ scan' = IF disk[p] = Nothing THEN [scan EXCEPT !.left = @ \ {p}]
             ELSE [scan EXCEPT !.left = @ \ {p},
                               !.unseen = {i \in @ : rows[i].path # p},
                               !.staged = @ \cup Visited(p) \cup Added(p)]
  /\ UNCHANGED <<disk, bin, rows, indexer, user, upsets, cut>>

\* The columns that changed in the session are written, status among them only
\* if the row was loaded with another one.
Rescanned(row, e) ==
  [row EXCEPT !.status = IF e.was = "active" THEN @ ELSE "active",
              !.sig = e.sig, !.todo = @ \/ row.sig # e.sig]

\* New rows get an id each: the ones after the largest present, in order, or any
\* unused ones when those run out.
NewIds(new, f) ==
  LET above == {i \in Ids : \A j \in Ids : Present(j) => j < i}
      used  == {f[e] : e \in new}
  IN /\ \A e, d \in new : e # d => f[e] # f[d]
     /\ \A i \in used : ~Present(i)
     /\ Cardinality(new) <= Cardinality(above) =>
          used \subseteq above /\ \A i \in used : \A j \in above : j < i => j \in used

ScanCommit ==
  LET new == {e \in scan.staged : e.id = 0}
      old == scan.staged \ new
  IN /\ scan.staged # {}
     /\ \A e \in old : Present(e.id)
     /\ \E f \in [new -> Ids] :
          /\ NewIds(new, f)
          /\ rows' = [i \in Ids |->
               IF \E e \in old : e.id = i
                 THEN Rescanned(rows[i], CHOOSE e \in old : e.id = i)
               ELSE IF \E e \in new : f[e] = i
                 THEN LET e == CHOOSE d \in new : f[d] = i
                      IN [status |-> "active", path |-> e.path, sig |-> e.sig,
                          sha |-> Nothing, todo |-> TRUE]
               ELSE rows[i]]
          /\ scan' = [scan EXCEPT !.staged = {}]
  /\ UNCHANGED <<disk, bin, indexer, user, upsets, cut>>

\* A row purged since its visit fails the commit, and the scan with it.
ScanFails ==
  /\ \E e \in scan.staged : e.id # 0 /\ ~Present(e.id)
  /\ scan' = NoScan
  /\ UNCHANGED <<disk, bin, rows, indexer, user, upsets, cut>>

\* Whatever the status of an unseen row is by now.
ScanReconcile ==
  /\ scan.pc = "walk" /\ scan.left = {} /\ scan.staged = {}
  /\ rows' = [i \in Ids |-> IF i \in scan.unseen /\ Present(i)
                              THEN [rows[i] EXCEPT !.status = "missing"] ELSE rows[i]]
  /\ scan' = NoScan
  /\ UNCHANGED <<disk, bin, indexer, user, upsets, cut>>

-------------------------------------------------------------------------------
(***************************************************************************)
(* index_file.run, called by a thread of the index stage for a row that    *)
(* waits for it.  Each step but the file move is one SELECT or commit.     *)
(***************************************************************************)
NotIndexing(i) == \A x \in Indexers : indexer[x].id # i

\* Mutant of IndexBegin: trashed rows are indexed like any other.
IndexBeginAny(x, i) ==
  /\ indexer[x].pc = "idle"
  /\ Present(i) /\ rows[i].todo /\ NotIndexing(i)
  /\ indexer' = [indexer EXCEPT ![x] = [pc |-> "exists", id |-> i,
                                        status |-> rows[i].status]]
  /\ UNCHANGED <<disk, bin, rows, scan, user, upsets, cut>>

IndexBegin(x, i) ==
  /\ indexer[x].pc = "idle"
  /\ Present(i) /\ rows[i].todo /\ NotIndexing(i)
  /\ IF rows[i].status = "trashed"
       THEN rows' = [rows EXCEPT ![i].todo = FALSE] /\ UNCHANGED indexer
       ELSE /\ indexer' = [indexer EXCEPT ![x] = [pc |-> "exists", id |-> i,
                                                  status |-> rows[i].status]]
            /\ UNCHANGED rows
  /\ UNCHANGED <<disk, bin, scan, user, upsets, cut>>

\* The thread is done with its row: the stage is settled.
Done(x, row) == /\ rows' = [rows EXCEPT ![indexer[x].id] = [row EXCEPT !.todo = FALSE]]
                /\ indexer' = [indexer EXCEPT ![x] = Idle]

IndexExists(x) ==
  /\ indexer[x].pc = "exists" /\ Present(indexer[x].id)
  /\ indexer' = [indexer EXCEPT ![x].pc = IF OnDisk(indexer[x].id) THEN "hash" ELSE "mark"]
  /\ UNCHANGED <<disk, bin, rows, scan, user, upsets, cut>>

IndexMark(x) ==
  LET row == rows[indexer[x].id]
  IN /\ indexer[x].pc = "mark" /\ Present(indexer[x].id)
     /\ Done(x, IF indexer[x].status = "missing" THEN row
                ELSE [row EXCEPT !.status = "missing"])
  /\ UNCHANGED <<disk, bin, scan, user, upsets, cut>>

\* A file is hashed once: a row that has a SHA keeps it.
IndexHash(x) ==
  LET row == rows[indexer[x].id]
  IN /\ indexer[x].pc = "hash" /\ Present(indexer[x].id)
     /\ IF row.sha # Nothing \/ ~OnDisk(indexer[x].id) \/ ~SkipIngest
          THEN Done(x, IF row.sha # Nothing THEN row
                       ELSE [row EXCEPT !.sha = disk[row.path]])
          ELSE /\ rows' = [rows EXCEPT ![indexer[x].id].sha = disk[row.path]]
               /\ indexer' = [indexer EXCEPT ![x].pc = "dup"]
  /\ UNCHANGED <<disk, bin, scan, user, upsets, cut>>

EarlierCopies(i) == {j \in Ids : j < i /\ rows[j].status = "active" /\ rows[j].sha = rows[i].sha}

IndexDup(x) ==
  /\ indexer[x].pc = "dup" /\ Present(indexer[x].id)
  /\ IF EarlierCopies(indexer[x].id) # {}
       THEN indexer' = [indexer EXCEPT ![x].pc = "trash"] /\ UNCHANGED rows
       ELSE Done(x, rows[indexer[x].id])
  /\ UNCHANGED <<disk, bin, scan, user, upsets, cut>>

IndexTrash(x) ==
  LET i == indexer[x].id  p == rows[i].path
  IN /\ indexer[x].pc = "trash" /\ Present(i)
     /\ IF OnDisk(i)
          THEN /\ disk' = [disk EXCEPT ![p] = Nothing]
               /\ bin' = [bin EXCEPT ![i] = Append(@, disk[p])]
               /\ indexer' = [indexer EXCEPT ![x].pc = "commit"]
               /\ UNCHANGED rows
          ELSE Done(x, rows[i]) /\ UNCHANGED <<disk, bin>>
  /\ UNCHANGED <<scan, user, upsets, cut>>

IndexCommit(x) ==
  /\ indexer[x].pc = "commit" /\ Present(indexer[x].id)
  /\ Done(x, [rows[indexer[x].id] EXCEPT !.status = "trashed"])
  /\ UNCHANGED <<disk, bin, scan, user, upsets, cut>>

\* The photos of T's threads that were moved and not yet marked.
Moved(T) == {indexer[x].id : x \in {y \in T : indexer[y].pc = "commit"}}

\* The row is purged under the thread: the next read or write raises.
IndexLost(x) ==
  /\ indexer[x].pc # "idle" /\ ~Present(indexer[x].id)
  /\ cut' = cut \cup Moved({x})
  /\ indexer' = [indexer EXCEPT ![x] = Idle]
  /\ UNCHANGED <<disk, bin, rows, scan, user, upsets>>

-------------------------------------------------------------------------------
(***************************************************************************)
(* Requests work through a list of photos and commit once, at its end.     *)
(***************************************************************************)
Does(u, op) == user[u].op \in {"none", op}

\* A session moved i's file to the trash and has not marked i yet.
InFlight(i) == i \in Moved(Indexers) \/ \E u \in Users : user[u].op = "trash" /\ i \in user[u].ids

With(u, op, i) == [user EXCEPT ![u] = [op |-> op, ids |-> @.ids \cup {i}]]

\* trash_photos_core and delete_photo: photos that are on disk.
TrashMove(u, i) ==
  LET p == rows[i].path
  IN /\ Does(u, "trash") /\ i \notin user[u].ids
     /\ Present(i) /\ OnDisk(i)
     /\ disk' = [disk EXCEPT ![p] = Nothing]
     /\ bin' = [bin EXCEPT ![i] = Append(@, disk[p])]
     /\ user' = With(u, "trash", i)
  /\ UNCHANGED <<rows, scan, indexer, upsets, cut>>

\* Nothing is overwritten at the photo's old place.
RestoreMove(u, i) ==
  /\ Does(u, "restore") /\ i \notin user[u].ids
  /\ rows[i].status = "trashed" /\ ~OnDisk(i)
  /\ bin[i] # <<>>
  /\ LET last == Len(bin[i])
     IN /\ disk' = [disk EXCEPT ![rows[i].path] = bin[i][last]]
        /\ bin' = [bin EXCEPT ![i] = SubSeq(@, 1, last - 1)]
  /\ user' = With(u, "restore", i)
  /\ cut' = IF InFlight(i) THEN cut \cup {i} ELSE cut
  /\ UNCHANGED <<rows, scan, indexer, upsets>>

PurgeFiles(u, i) ==
  /\ Does(u, "purge") /\ i \notin user[u].ids
  /\ rows[i].status = "trashed"
  /\ bin' = [bin EXCEPT ![i] = <<>>]
  /\ user' = With(u, "purge", i)
  /\ cut' = IF InFlight(i) THEN cut \cup {i} ELSE cut
  /\ UNCHANGED <<disk, rows, scan, indexer, upsets>>

\* Mutant of Lost: every missing row is taken for a trashed one.
LostAny(i) == rows[i].status = "missing"

\* A row that repair takes for a trashed one.
Lost(i) == rows[i].status = "missing" /\ bin[i] # <<>>

RepairSelect(u) ==
  /\ user[u].op = "none"
  /\ \E i \in Ids : Lost(i)
  /\ user' = [user EXCEPT ![u] = [op |-> "repair", ids |-> {i \in Ids : Lost(i)}]]
  /\ UNCHANGED <<disk, bin, rows, scan, indexer, upsets, cut>>

Outcome(op, row) ==
  CASE op \in {"trash", "repair"} -> [row EXCEPT !.status = "trashed"]
    [] op = "restore"             -> [row EXCEPT !.status = "active"]
    [] op = "purge"               -> NoRow

\* The files of the request's photos stay where they are, nothing is committed.
CutShort(u) ==
  cut' = IF user[u].op = "repair" THEN cut ELSE cut \cup user[u].ids

\* The photos of a repair that have changed by the time it commits.
Overtaken(u) == {i \in user[u].ids : user[u].op = "repair" /\ ~Lost(i)}

\* Deleting a row that is gone does no harm; updating one fails the commit, for
\* every photo of the request.
UserCommit(u) ==
  /\ user[u].op # "none"
  /\ IF user[u].op = "purge" \/ \A i \in user[u].ids : Present(i)
       THEN /\ rows' = [i \in Ids |-> IF i \in user[u].ids
                                       THEN Outcome(user[u].op, rows[i]) ELSE rows[i]]
            /\ cut' = cut \cup Overtaken(u)
       ELSE CutShort(u) /\ UNCHANGED rows
  /\ user' = [user EXCEPT ![u] = NoBatch]
  /\ UNCHANGED <<disk, bin, scan, indexer, upsets>>

-------------------------------------------------------------------------------
(***************************************************************************)
(* Crashes, and programs that write to the root's folder.                  *)
(***************************************************************************)
CrashApi(u) ==
  /\ upsets > 0 /\ user[u].op # "none"
  /\ upsets' = upsets - 1
  /\ CutShort(u)
  /\ user' = [user EXCEPT ![u] = NoBatch]
  /\ UNCHANGED <<disk, bin, rows, scan, indexer>>

CrashWorker ==
  /\ upsets > 0
  /\ upsets' = upsets - 1
  /\ scan' = NoScan
  /\ indexer' = [x \in Indexers |-> Idle]
  /\ cut' = cut \cup Moved(Indexers)
  /\ UNCHANGED <<disk, bin, rows, user>>

Edit(p, c) ==
  /\ upsets > 0 /\ disk[p] # c
  /\ upsets' = upsets - 1
  /\ disk' = [disk EXCEPT ![p] = c]
  /\ UNCHANGED <<bin, rows, scan, indexer, user, cut>>

Rename(p, q) ==
  /\ upsets > 0 /\ disk[p] # Nothing /\ disk[q] = Nothing
  /\ upsets' = upsets - 1
  /\ disk' = [disk EXCEPT ![p] = Nothing, ![q] = disk[p]]
  /\ UNCHANGED <<bin, rows, scan, indexer, user, cut>>

-------------------------------------------------------------------------------
Scan == ScanStart \/ ScanCommit \/ ScanFails \/ ScanReconcile
          \/ \E p \in Paths : ScanVisit(p)

Index(x) ==
  \/ \E i \in Ids : IndexBegin(x, i)
  \/ IndexExists(x) \/ IndexMark(x) \/ IndexHash(x) \/ IndexDup(x)
  \/ IndexTrash(x) \/ IndexCommit(x) \/ IndexLost(x)

Request(u) ==
  \/ \E i \in Ids : TrashMove(u, i) \/ RestoreMove(u, i) \/ PurgeFiles(u, i)
  \/ RepairSelect(u) \/ UserCommit(u) \/ CrashApi(u)

Next ==
  \/ Scan
  \/ \E x \in Indexers : Index(x)
  \/ \E u \in Users : Request(u)
  \/ CrashWorker
  \/ \E p \in Paths, c \in File : Edit(p, c)
  \/ \E p, q \in Paths : Rename(p, q)

Spec == Init /\ [][Next]_vars

-------------------------------------------------------------------------------
(***************************************************************************)
(* Properties.                                                             *)
(***************************************************************************)
\* A photo in the trash can be restored: its file is in its trash folder,
\* unless a request is at work on it, or one came to it too late (`cut').
TrashedHasCopy ==
  \A i \in Ids : rows[i].status = "trashed" =>
    bin[i] # <<>> \/ i \in cut \/ \E u \in Users : i \in user[u].ids

\* A trashed photo never turns missing, which would hide it from the trash
\* list: the bug repair_trash's comment calls fixed.
TrashedNeverMissing ==
  [][\A i \in Ids : rows[i].status = "trashed" => rows'[i].status # "missing"]_rows

\* Only a scan or an index thread that loaded the row before it was trashed
\* turns it missing.
OnlyStaleReadsHide ==
  [][\A i \in Ids :
       rows[i].status = "trashed" /\ rows'[i].status = "missing" =>
         \/ i \in scan.unseen /\ scan'.pc = "idle"
         \/ \E x \in Indexers : /\ indexer[x].pc = "mark" /\ indexer[x].id = i
                                /\ indexer[x].status # "trashed"]_rows

\* Ingest dedup never takes the last copy of a picture off the disk: the
\* earliest copy survives, and a later one trashes itself.
EarliestCopySurvives ==
  [][\A x \in Indexers :
       indexer[x].pc = "trash" /\ indexer'[x].pc = "commit" =>
         LET p == rows[indexer[x].id].path
         IN \E q \in Paths \ {p} : disk[q] = disk[p]]_vars

===============================================================================
