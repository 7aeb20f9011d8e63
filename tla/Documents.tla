------------------------------- MODULE Documents -------------------------------
(***************************************************************************)
(* The documents of a root: the `files' table, the files on disk and in    *)
(* the trash, as users upload, rename, copy, move and delete them, as the  *)
(* scanner walks the root and as the index job hashes what it found.       *)
(*                                                                         *)
(* There is no directory table.  A request looks for a free name, changes  *)
(* the disk, and commits the rows last; the scanner and other requests see *)
(* the disk and the table in between.                                      *)
(***************************************************************************)
EXTENDS Integers, FiniteSets, SequencesExt

CONSTANTS
  Paths,      \* the files' paths: sequences of names
  Folders,    \* the folders a request may name
  MaxId,      \* bound: file ids are 1..MaxId
  MaxMade,    \* bound: contents ever written
  Disks,      \* the files the root may hold before its first scan
  Requests,   \* requests; each is made once
  Workers     \* threads that run index_file_generic

\* A path is a sequence of names, and the folder it is in may be named.
ASSUME DocumentsAssumption ==
  /\ Paths \subseteq Seq(STRING) \ {<<>>}
  /\ Folders \subseteq Seq(STRING)
  /\ \A p \in Paths : Front(p) \in Folders
  /\ MaxId \in Nat /\ MaxMade \in Nat
  /\ Disks \subseteq [Paths -> 0..MaxMade]

VARIABLES
  disk,      \* the file at each path
  trash,     \* trash[i]: the files in data/trash/files/<i>/, by name
  files,     \* the table
  jobs,      \* ids for which an index_file_generic job waits
  request,   \* each request: what it is at, and the rows it will write
  worker,    \* each index job under way
  scan,      \* discover_files_root
  made,      \* contents written so far; contents are numbered
  gone,      \* contents another program replaced
  calm,      \* history: nothing but the scan moved since it started
  late       \* history: contents lost to a late file or to a reused id, and
             \* rows changed while their hash was doubtful

vars == <<disk, trash, files, jobs, request, worker, scan, made, gone, calm, late>>

Ids     == 1..MaxId
None    == 0
Content == 0..MaxMade
Names   == {Last(p) : p \in Paths}

\* A signature (size and mtime) and a hash tell contents apart, and copies and moves
\* keep both.  `sha' stands for the extracted text too, which is read right after
\* the hash and reset with it.
Row   == [path : Paths, sig : Content, sha : Content, status : {"active", "missing"}]
NoRow == [status |-> "absent"]

Present(i)  == files[i] # NoRow
Active(i)   == files[i].status = "active"
At(p)       == {i \in Ids : Present(i) /\ files[i].path = p}
Below(f, p) == IsStrictPrefix(f, p)

\* What a request is about to move from, and to where; `saw' is history: the file
\* that was there when the name was chosen.
NoStep == [id |-> 0]
Step   == [id : Ids \cup {0}, from : Paths \cup {<<>>}, to : Paths, saw : Content]

\* The row that a request will write: a new one (id 0), or a moved one.
Write == [id : Ids \cup {0}, to : Paths, sig : Content]

NoRequest == [op |-> "none"]
Served    == [op |-> "served"]
Request   == [op : {"upload", "rename", "move", "copy", "delete"}, folder : Folders \cup {<<>>},
              todo : SUBSET Ids, step : Step \cup {NoStep}, writes : SUBSET Write]
Transfer  == [op : {"move-folder", "copy-folder"}, from : Folders, to : Folders,
              rows : SUBSET [id : Ids, path : Paths], writes : SUBSET Write]

NoJob == [pc |-> "idle", id |-> 0]
Job   == [pc : {"look", "hash", "hashed"}, id : Ids, path : Paths, sha : Content]

NoScan == [pc |-> "idle", left |-> {}, unseen |-> {}]

TypeOK ==
  /\ disk \in [Paths -> Content]
  /\ trash \in [Ids -> [Names -> Content]]
  /\ files \in [Ids -> Row \cup {NoRow}]
  /\ \A i, j \in Ids : Present(i) /\ Present(j) /\ i # j => files[i].path # files[j].path
  /\ jobs \subseteq Ids
  /\ request \in [Requests -> Request \cup Transfer \cup {NoRequest, Served}]
  /\ worker \in [Workers -> Job \cup {NoJob}]
  /\ scan \in [pc : {"idle", "walk"}, left : SUBSET Paths, unseen : SUBSET Ids]
  /\ made \in Content /\ gone \subseteq Content
  /\ calm \in BOOLEAN
  /\ late \in [lost : SUBSET Content, rows : SUBSET Ids]

Init ==
  /\ disk \in Disks
  /\ trash = [i \in Ids |-> [n \in Names |-> None]]
  /\ files = [i \in Ids |-> NoRow]
  /\ jobs = {}
  /\ request = [r \in Requests |-> NoRequest]
  /\ worker = [w \in Workers |-> NoJob]
  /\ scan = NoScan
  /\ made \in Content /\ {disk[p] : p \in Paths} \ {None} = 1..made /\ gone = {}
  /\ calm = FALSE
  /\ late = [lost |-> {}, rows |-> {}]

-------------------------------------------------------------------------------
New(path, c) == [path |-> path, sig |-> c, sha |-> None, status |-> "active"]

\* The ids the next n rows get.
NextIds(n) ==
  LET top == {i \in Ids : \A j \in Ids : Present(j) => j < i}
  IN {i \in top : Cardinality({j \in top : j < i}) < n}

\* Rows whose hash is of other than the content they name, or is to be written by an index
\* job that works on what it read before.
Touched(S)  == {i \in S \cap Ids : \E w \in Workers : worker[w].id = i}
Doubtful(S) == Touched(S) \cup {i \in S \cap Ids : Present(i) /\ files[i].sha \notin {None, files[i].sig}}

-------------------------------------------------------------------------------
(***************************************************************************)
(* Choosing a name.                                                        *)
(***************************************************************************)
\* Mutant of IsFree: only the table is asked, where a file that no scan has seen
\* has no row.
IsFreeInTable(p) == \A i \in At(p) : ~Active(i)

\* Neither an active row nor a file has the path.
IsFree(p) == disk[p] = None /\ \A i \in At(p) : ~Active(i)

\* _unique_dest: the name itself, or else a free variant of it.
UniqueDest(folder, name) ==
  LET p == Append(folder, name)
  IN IF p \in Paths /\ IsFree(p) THEN {p}
     ELSE {q \in Paths : Front(q) = folder /\ IsFree(q)}

\* Files the request has put somewhere already are on disk.
Start(r, req) == request[r] = NoRequest /\ request' = [request EXCEPT ![r] = req]

UploadStart(r, folder, name) ==
  /\ made < MaxMade
  /\ \E p \in UniqueDest(folder, name) :
       Start(r, [op |-> "upload", folder |-> folder, todo |-> {}, writes |-> {},
                 step |-> [id |-> 0, from |-> <<>>, to |-> p, saw |-> disk[p]]])
  /\ UNCHANGED <<disk, trash, files, jobs, worker, scan, made, gone, late>>

\* rename_file refuses a name that any row has, whatever its status.
RenameStart(r, i, p) ==
  /\ Present(i) /\ Active(i)
  /\ p # files[i].path /\ Front(p) = Front(files[i].path)
  /\ At(p) = {} /\ IsFree(p)
  /\ Start(r, [op |-> "rename", folder |-> Front(p), todo |-> {}, writes |-> {},
               step |-> [id |-> i, from |-> files[i].path, to |-> p, saw |-> disk[p]]])
  /\ UNCHANGED <<disk, trash, files, jobs, worker, scan, made, gone, late>>

BatchStart(r, op, S, folder) ==
  /\ S # {} /\ \A i \in S : Present(i)
  /\ Start(r, [op |-> op, folder |-> folder, todo |-> S, writes |-> {}, step |-> NoStep])
  /\ UNCHANGED <<disk, trash, files, jobs, worker, scan, made, gone, late>>

\* A file that is not active or not on disk, and one moved to where it is, are
\* skipped; a request looks up its next file once the one before is in place.
TransferNext(r, i) ==
  /\ request[r].op \in {"move", "copy"} /\ request[r].step = NoStep
  /\ i \in request[r].todo
  /\ LET row  == files[i]
         skip == \/ ~Present(i) \/ ~Active(i)
                 \/ request[r].op = "move" /\ Front(row.path) = request[r].folder
                 \/ disk[row.path] = None
     IN IF skip THEN request' = [request EXCEPT ![r].todo = @ \ {i}]
        ELSE \E p \in UniqueDest(request[r].folder, Last(row.path)) :
                request' = [request EXCEPT ![r].todo = @ \ {i},
                  ![r].step = [id |-> i, from |-> row.path, to |-> p, saw |-> disk[p]]]
  /\ UNCHANGED <<disk, trash, files, jobs, worker, scan, made, gone, late>>

-------------------------------------------------------------------------------
(***************************************************************************)
(* Changing the disk.                                                      *)
(***************************************************************************)
\* The request is over.  When no row is written, what it did to the disk stays.
Over(r) == request' = [request EXCEPT ![r] = Served]

\* upload opens the new file with "xb": a file that has come there meanwhile is
\* not overwritten.
UploadWrite(r) ==
  LET p == request[r].step.to
  IN /\ request[r].op = "upload" /\ request[r].step # NoStep
     /\ IF disk[p] # None THEN Over(r) /\ UNCHANGED <<disk, made>>
        ELSE /\ made < MaxMade /\ made' = made + 1
             /\ disk' = [disk EXCEPT ![p] = made']
             /\ request' = [request EXCEPT ![r].step = NoStep,
                              ![r].writes = {[id |-> 0, to |-> p, sig |-> made']}]
     /\ UNCHANGED <<trash, files, jobs, worker, scan, gone, late>>

\* os.rename, shutil.move and copy2 overwrite what is there.
TransferFile(r) ==
  LET s == request[r].step
      copy == request[r].op = "copy"
  IN /\ request[r].op \in {"rename", "move", "copy"} /\ s # NoStep
     /\ IF disk[s.from] = None THEN Over(r) /\ UNCHANGED <<disk, late>>
        ELSE /\ disk' = [disk EXCEPT ![s.to] = disk[s.from],
                                     ![s.from] = IF copy THEN @ ELSE None]
             /\ request' = [request EXCEPT ![r].step = NoStep,
                  ![r].writes = @ \cup {[id |-> IF copy THEN 0 ELSE s.id, to |-> s.to,
                                         sig |-> disk[s.from]]}]
             /\ late' = [late EXCEPT
                  !.lost = IF disk[s.to] # None /\ s.saw = None THEN @ \cup {disk[s.to]} ELSE @,
                  !.rows = @ \cup Doubtful(At(s.to))]
     /\ UNCHANGED <<trash, files, jobs, worker, scan, made, gone>>

\* Mutant of Binned: the file is taken off the disk before there is a place for it.
BinnedNowhere(i, row) == trash[i]

\* The folder of a reused id may hold a file of the same name.
Binned(i, row) == [trash[i] EXCEPT ![Last(row.path)] =
                     IF disk[row.path] = None THEN @ ELSE disk[row.path]]

DeleteFile(r, i) ==
  /\ request[r].op = "delete" /\ i \in request[r].todo
  /\ IF Present(i) /\ Active(i)
       THEN LET row == files[i] IN
            /\ trash' = [trash EXCEPT ![i] = Binned(i, row)]
            /\ disk' = [disk EXCEPT ![row.path] = None]
            /\ request' = [request EXCEPT ![r].todo = @ \ {i},
                 ![r].writes = @ \cup {[id |-> i, to |-> row.path, sig |-> row.sig]}]
            /\ late' = [late EXCEPT !.lost =
                          IF disk[row.path] = None THEN @
                          ELSE @ \cup ({trash[i][Last(row.path)]} \ {None})]
       ELSE /\ request' = [request EXCEPT ![r].todo = @ \ {i}]
            /\ UNCHANGED <<disk, trash, late>>
  /\ UNCHANGED <<files, jobs, worker, scan, made, gone>>

-------------------------------------------------------------------------------
(***************************************************************************)
(* Writing the rows.                                                       *)
(***************************************************************************)
\* Mutant of Refused: the table may hold two rows of one path.
RefusedGone(W) == \E x \in W : x.id # 0 /\ ~Present(x.id)

\* The table refuses two rows of one path; an UPDATE of a row that is gone fails.
Refused(W) ==
  \/ \E x \in W : x.id # 0 /\ ~Present(x.id)
  \/ \E x \in W : At(x.to) \ {x.id} # {}
  \/ \E x, y \in W : x # y /\ x.to = y.to

Ready(r) == request[r].op \in {"rename", "move", "copy"} /\ request[r].step = NoStep
              /\ request[r].todo = {}

\* Moved rows keep their hash, text and status; new ones wait for the index job.
TransferCommit(r) ==
  LET W == request[r].writes
      fresh == {x \in W : x.id = 0}
      new == NextIds(Cardinality(fresh))
  IN /\ \/ Ready(r)
        \/ request[r].op \in {"move-folder", "copy-folder"} /\ W # {}
     /\ Over(r)
     /\ IF Refused(W) THEN UNCHANGED <<files, jobs, late>>
        ELSE /\ \E f \in Bijection(new, fresh) :
                  files' = [i \in Ids |->
                    IF i \in new THEN New(f[i].to, f[i].sig)
                    ELSE IF \E x \in W : x.id = i
                      THEN [files[i] EXCEPT !.path = (CHOOSE x \in W : x.id = i).to]
                    ELSE files[i]]
             /\ jobs' = jobs \cup new
             /\ late' = [late EXCEPT !.rows = (@ \ new) \cup Doubtful(new \cup {x.id : x \in W})]
     /\ UNCHANGED <<disk, trash, worker, scan, made, gone>>

\* A row that has the path already is taken over.
UploadCommit(r) ==
  /\ request[r].op = "upload" /\ request[r].step = NoStep
  /\ LET x == CHOOSE w \in request[r].writes : TRUE
         S == IF At(x.to) = {} THEN NextIds(1) ELSE At(x.to)
     IN /\ S # {}
        /\ files' = [i \in Ids |-> IF i \in S THEN New(x.to, x.sig) ELSE files[i]]
        /\ jobs' = jobs \cup S
        /\ late' = [late EXCEPT !.rows = (@ \ S) \cup Touched(S)]
  /\ Over(r)
  /\ UNCHANGED <<disk, trash, worker, scan, made, gone>>

DeleteCommit(r) ==
  /\ request[r].op = "delete" /\ request[r].todo = {}
  /\ files' = [i \in Ids |-> IF \E x \in request[r].writes : x.id = i THEN NoRow ELSE files[i]]
  /\ Over(r)
  /\ UNCHANGED <<disk, trash, jobs, worker, scan, made, gone, late>>

-------------------------------------------------------------------------------
(***************************************************************************)
(* Whole folders: the directory moves on disk in one step, with whatever   *)
(* is in it; the rows are those that were read before.                     *)
(***************************************************************************)
Moved(src, base, p) == base \o SubSeq(p, Len(src) + 1, Len(p))

FolderStart(r, op, src, dest) ==
  LET base == Append(dest, Last(src))
  IN /\ src # <<>> /\ ~IsPrefix(src, dest) /\ base # src /\ base \in Folders
     /\ \E p \in Paths : Below(src, p) /\ disk[p] # None
     /\ \A p \in Paths : Below(base, p) => IsFree(p)
     /\ Start(r, [op |-> op, from |-> src, to |-> base, writes |-> {},
                  rows |-> {[id |-> i, path |-> files[i].path] :
                    i \in {j \in Ids : Present(j) /\ Active(j) /\ Below(src, files[j].path)}}])
  /\ UNCHANGED <<disk, trash, files, jobs, worker, scan, made, gone, late>>

\* Moving onto a folder that exists by now is left out: the files would land in a
\* folder of its own below it.  A row without a file fails the copy.
FolderTransfer(r) ==
  LET src == request[r].from
      base == request[r].to
      copy == request[r].op = "copy-folder"
      all == {p \in Paths : Below(src, p) /\ disk[p] # None}
      rows == request[r].rows
  IN /\ request[r].op \in {"move-folder", "copy-folder"} /\ request[r].writes = {}
     /\ \A p \in all : Moved(src, base, p) \in Paths
     /\ \A x \in rows : Moved(src, base, x.path) \in Paths
     /\ \A p \in Paths : Below(base, p) => disk[p] = None
     /\ disk' = [p \in Paths |->
          IF \E q \in all : Moved(src, base, q) = p
            THEN disk[CHOOSE q \in all : Moved(src, base, q) = p]
          ELSE IF p \in all /\ ~copy THEN None ELSE disk[p]]
     /\ IF rows = {} \/ (copy /\ \E x \in rows : disk[x.path] = None)
          THEN Over(r)
          ELSE request' = [request EXCEPT ![r].writes =
                 {[id |-> IF copy THEN 0 ELSE x.id, to |-> Moved(src, base, x.path),
                   sig |-> disk[x.path]] : x \in rows}]
     /\ late' = [late EXCEPT !.rows =
                   @ \cup Doubtful(UNION {At(Moved(src, base, p)) : p \in all})]
     /\ UNCHANGED <<trash, files, jobs, worker, scan, made, gone>>

-------------------------------------------------------------------------------
(***************************************************************************)
(* discover_files_root.                                                    *)
(***************************************************************************)
ScanStart ==
  /\ scan.pc = "idle"
  /\ scan' = [pc |-> "walk", left |-> Paths, unseen |-> {i \in Ids : Present(i) /\ Active(i)}]
  /\ UNCHANGED <<disk, trash, files, jobs, request, worker, made, gone, late>>

\* Mutant of Rescanned: the hash of a changed file stays, as it does in discover_root.
RescannedSha(row, c) ==
  IF row.sig # c THEN [row EXCEPT !.sig = c, !.status = "active"]
  ELSE [row EXCEPT !.status = "active"]

\* A changed file is hashed and read again; a missing one is back.
Rescanned(row, c) ==
  IF row.sig # c THEN New(row.path, c) ELSE [row EXCEPT !.status = "active"]

ScanVisit(p) ==
  /\ scan.pc = "walk" /\ p \in scan.left
  /\ LET S == IF At(p) = {} THEN NextIds(1) ELSE At(p)
         queued == {i \in S : ~Present(i) \/ files[i].sig # disk[p]}
     IN IF disk[p] = None
          THEN scan' = [scan EXCEPT !.left = @ \ {p}] /\ UNCHANGED <<files, jobs, late>>
          ELSE /\ S # {}
               /\ files' = [i \in Ids |->
                    IF i \notin S THEN files[i]
                    ELSE IF Present(i) THEN Rescanned(files[i], disk[p]) ELSE New(p, disk[p])]
               /\ jobs' = jobs \cup queued
               /\ late' = [late EXCEPT !.rows = (@ \ queued) \cup Touched(queued)]
               /\ scan' = [scan EXCEPT !.left = @ \ {p}, !.unseen = @ \ S]
  /\ UNCHANGED <<disk, trash, request, worker, made, gone>>

\* Mutant of Vanished: nothing is marked missing.
VanishedNone == {}

\* Active when the scan started, and not seen.
Vanished == {i \in scan.unseen : Present(i)}

ScanReconcile ==
  /\ scan.pc = "walk" /\ scan.left = {}
  /\ files' = [i \in Ids |-> IF i \in Vanished
                               THEN [files[i] EXCEPT !.status = "missing"] ELSE files[i]]
  /\ scan' = NoScan
  /\ UNCHANGED <<disk, trash, jobs, request, worker, made, gone, late>>

-------------------------------------------------------------------------------
(***************************************************************************)
(* index_file_generic.                                                     *)
(***************************************************************************)
JobStart(w, i) ==
  /\ worker[w] = NoJob
  /\ i \in jobs /\ jobs' = jobs \ {i}
  /\ worker' = IF ~Present(i) THEN worker
               ELSE [worker EXCEPT ![w] = [pc |-> "look", id |-> i, path |-> files[i].path,
                                           sha |-> files[i].sha]]
  /\ UNCHANGED <<disk, trash, files, request, scan, made, gone, late>>

Ends(w) == worker' = [worker EXCEPT ![w] = NoJob]

JobLook(w) ==
  LET i == worker[w].id
  IN /\ worker[w].pc = "look"
     /\ IF disk[worker[w].path] = None
          THEN /\ files' = IF Present(i) THEN [files EXCEPT ![i].status = "missing"] ELSE files
               /\ Ends(w)
          ELSE /\ IF worker[w].sha # None THEN Ends(w)
                  ELSE worker' = [worker EXCEPT ![w].pc = "hash"]
               /\ UNCHANGED files
     /\ UNCHANGED <<disk, trash, jobs, request, scan, made, gone, late>>

JobHash(w) ==
  /\ worker[w].pc = "hash"
  /\ IF disk[worker[w].path] = None THEN Ends(w)
     ELSE worker' = [worker EXCEPT ![w].pc = "hashed", ![w].sha = disk[worker[w].path]]
  /\ UNCHANGED <<disk, trash, files, jobs, request, scan, made, gone, late>>

JobHashed(w) ==
  LET i == worker[w].id
  IN /\ worker[w].pc = "hashed"
     /\ files' = IF Present(i) THEN [files EXCEPT ![i].sha = worker[w].sha] ELSE files
     /\ Ends(w)
     /\ UNCHANGED <<disk, trash, jobs, request, scan, made, gone, late>>

-------------------------------------------------------------------------------
\* A program that knows nothing of the catalogue writes a file.
Edit(p) ==
  /\ made < MaxMade /\ made' = made + 1
  /\ gone' = gone \cup ({disk[p]} \ {None})
  /\ disk' = [disk EXCEPT ![p] = made']
  /\ UNCHANGED <<trash, files, jobs, request, worker, scan, late>>

\* The process that serves requests crashes.
Crash ==
  /\ request' = [r \in Requests |-> IF request[r] = NoRequest THEN NoRequest ELSE Served]
  /\ request' # request
  /\ UNCHANGED <<disk, trash, files, jobs, worker, scan, made, gone, late>>

Serve(r) ==
  \/ \E f \in Folders, n \in Names : UploadStart(r, f, n)
  \/ \E i \in Ids, p \in Paths : RenameStart(r, i, p)
  \/ \E S \in SUBSET Ids : \/ BatchStart(r, "delete", S, <<>>)
                           \/ \E op \in {"move", "copy"}, f \in Folders : BatchStart(r, op, S, f)
  \/ \E op \in {"move-folder", "copy-folder"}, f, g \in Folders : FolderStart(r, op, f, g)
  \/ \E i \in Ids : TransferNext(r, i) \/ DeleteFile(r, i)
  \/ UploadWrite(r) \/ TransferFile(r) \/ FolderTransfer(r)
  \/ TransferCommit(r) \/ UploadCommit(r) \/ DeleteCommit(r)

Scan  == ScanStart \/ ScanReconcile \/ \E p \in Paths : ScanVisit(p)
Index(w) == \/ \E i \in Ids : JobStart(w, i)
            \/ JobLook(w) \/ JobHash(w) \/ JobHashed(w)

Next ==
  \/ Scan /\ calm' = (calm \/ scan.pc = "idle")
  \/ /\ \/ \E r \in Requests : Serve(r)
        \/ \E w \in Workers : Index(w)
        \/ \E p \in Paths : Edit(p)
        \/ Crash
     /\ calm' = FALSE

Spec == Init /\ [][Next]_vars

-------------------------------------------------------------------------------
(***************************************************************************)
(* Properties.                                                             *)
(***************************************************************************)
\* No request destroys a document, crash or not: what was once in the root is on
\* disk or in the trash, unless another program replaced it, it came to a name
\* after a request had found it free, or it lay in the trash folder of a reused id.
DocumentsSurvive ==
  \A c \in 1..made :
    \/ \E p \in Paths : disk[p] = c
    \/ \E i \in Ids, n \in Names : trash[i][n] = c
    \/ c \in gone \cup late.lost

\* The hash (and the text) of a document that is on disk as its signature says is of the
\* content the signature names, however often the file changed.  Not so where a request
\* moved the row, or put a file to its path, while the hash was of a change that no scan
\* had seen, and where a row was changed under a running job: no later scan corrects it.
IndexedIsCurrent ==
  \A i \in Ids :
    \/ ~Present(i) \/ i \in late.rows
    \/ disk[files[i].path] # files[i].sig
    \/ files[i].sha \in {None, files[i].sig}

\* A scan that nothing disturbs repairs whatever failed requests, crashes and other
\* programs left: the active rows are then the files on disk, signatures included.
ScanRepairs ==
  [][scan.pc = "walk" /\ scan'.pc = "idle" /\ calm =>
       \A p \in Paths :
         LET active == {files'[i] : i \in {j \in Ids : Active(j)' /\ files'[j].path = p}}
         IN IF disk[p] = None THEN active = {} ELSE \E row \in active : row.sig = disk[p]]_vars
===============================================================================
