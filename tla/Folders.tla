-------------------------------- MODULE Folders --------------------------------
(***************************************************************************)
(* The folders of a photo root: users create, rename and delete them and   *)
(* upload into them, while the scanner walks the root.  A folder is only   *)
(* a directory and the prefix of the photos' paths; a request changes the  *)
(* disk first and commits the rows last.  An upload leaves a note of who   *)
(* sent the file (uploads_pending) for the scan that gives it a row; other *)
(* programs drop files too, and the scan may credit those to the user that *)
(* their folder is named after (owner_from_subfolder).                     *)
(***************************************************************************)
EXTENDS Integers, FiniteSets

CONSTANTS
  Dirs,      \* folders of the root, side by side
  Names,     \* names of files
  Sent,      \* the names users send
  Stamped,   \* Stamped[n]: the name n with the time, to the second, in it
  Users,
  FolderUser, \* FolderUser[d]: the user d is named after, or "nobody"
  Requests,  \* requests; each is made once
  MaxId,     \* bound: photo ids are 1..MaxId
  MaxMade    \* bound: pictures ever written

\* A name with the time in it is another name; nobody is called "nobody".
FoldersConstants ==
  /\ Sent \subseteq Names /\ Stamped \in [Sent -> Names] /\ \A n \in Sent : Stamped[n] # n
  /\ MaxId \in Nat /\ MaxMade \in Nat /\ "nobody" \notin Users
  /\ FolderUser \in [Dirs -> Users \cup {"nobody"}]

VARIABLES
  dirs,      \* the directories
  disk,      \* the picture at each path
  bin,       \* pictures in the trash
  rows,      \* the photos table
  pending,   \* uploads_pending
  request,   \* each request, and how far it is
  scan,      \* discover_root
  by,        \* by[c]: who uploaded picture c, if anyone did
  spent,     \* history: pictures destroyed in a way named below
  strayed    \* history: paths whose note, committed or not, is about a picture that
             \* a folder was renamed or deleted with, or another upload overwrote

vars == <<dirs, disk, bin, rows, pending, request, scan, by, spent, strayed>>

Spots    == Dirs \X Names
Pictures == 1..MaxMade
None     == 0
Nobody   == "nobody"
Ids      == 1..MaxId
Made     == DOMAIN by

NoRow == [status |-> "absent"]
Row   == [path : Spots, sig : Pictures, owner : Users \cup {Nobody},
          status : {"active", "missing", "trashed"}]

Scans  == [pc : {"idle", "walk"}, left : SUBSET Spots, unseen : SUBSET Ids, byFolder : BOOLEAN]
NoScan == [pc |-> "idle", left |-> {}, unseen |-> {}, byFolder |-> FALSE]

NoRequest == [op |-> "none"]
Served    == [op |-> "served"]
Upload == [op : {"upload"}, user : Users, dir : Dirs, todo : SUBSET Sent,
           to : Spots \cup {<<>>}, spares : BOOLEAN, notes : SUBSET (Spots \X BOOLEAN)]
Rename == [op : {"rename"}, dir : Dirs, to : Dirs, pc : {"disk", "rows"}]
Delete == [op : {"delete"}, dir : Dirs, pc : {"select", "trash", "rmtree"},
           todo : SUBSET (Ids \X Spots), moved : SUBSET Ids, failed : BOOLEAN,
           known : SUBSET Pictures]

TypeOK ==
  /\ dirs \subseteq Dirs
  /\ disk \in [Spots -> Pictures \cup {None}]
  /\ bin \subseteq Pictures
  /\ rows \in [Ids -> Row \cup {NoRow}]
  /\ \A i, j \in Ids : rows[i] # NoRow /\ rows[j] # NoRow /\ i # j => rows[i].path # rows[j].path
  /\ pending \in [Spots -> Users \cup {Nobody}]
  /\ request \in [Requests -> Upload \cup Rename \cup Delete \cup {NoRequest, Served}]
  /\ scan \in Scans
  /\ \E n \in 0..MaxMade : by \in [1..n -> Users \cup {Nobody}]
  /\ spent \subseteq Pictures /\ strayed \subseteq Spots

Init ==
  /\ dirs \in SUBSET Dirs
  /\ disk = [p \in Spots |-> None]
  /\ bin = {} /\ rows = [i \in Ids |-> NoRow]
  /\ pending = [p \in Spots |-> Nobody]
  /\ request = [r \in Requests |-> NoRequest]
  /\ scan = NoScan
  /\ by = <<>> /\ spent = {} /\ strayed = {}

-------------------------------------------------------------------------------
In(d)     == {p \in Spots : p[1] = d}
At(p)     == {i \in Ids : rows[i] # NoRow /\ rows[i].path = p}
Active(i) == rows[i].status = "active"

\* The paths of the notes that uploads have yet to commit.
Awaited == UNION {{x[1] : x \in request[r].notes} : r \in {q \in Requests : request[q].op = "upload"}}

\* The pictures at these paths leave, those with a note too; a note is gone.
Leave(S)  == strayed' = strayed \cup {p \in S : pending[p] # Nobody \/ p \in Awaited}
Forget(p) == strayed' = IF p \in Awaited THEN strayed ELSE strayed \ {p}

Over(r) == request' = [request EXCEPT ![r] = Served]
Start(r, req) == request[r] = NoRequest /\ request' = [request EXCEPT ![r] = req]
Set(r, req) == request' = [request EXCEPT ![r] = req]

Write(p, c, u) == /\ c = Cardinality(Made) + 1 /\ c <= MaxMade
                  /\ disk' = [disk EXCEPT ![p] = c]
                  /\ by' = [d \in 1..c |-> IF d = c THEN u ELSE by[d]]

-------------------------------------------------------------------------------
(***************************************************************************)
(* create_folder, upload_files, and the last part of upload_auto, which    *)
(* moves each file it has received into a folder it creates.               *)
(***************************************************************************)
CreateFolder(d) ==
  /\ d \notin dirs /\ dirs' = dirs \cup {d}
  /\ UNCHANGED <<disk, bin, rows, pending, request, scan, by, spent, strayed>>

UploadStart(r, u, d, S) ==
  /\ d \in dirs /\ S # {}
  /\ Start(r, [op |-> "upload", user |-> u, dir |-> d, todo |-> S, to |-> <<>>,
               spares |-> TRUE, notes |-> {}])
  /\ UNCHANGED <<dirs, disk, bin, rows, pending, scan, by, spent, strayed>>

\* Mutant of Chosen: a name that is taken is used all the same.
ChosenTaken(d, n) == <<d, n>>

\* A name that is taken gets the time in it; that name is not looked up.  `spares' is
\* history: nothing that was there when the name was chosen is at its path, unless it
\* has the time in its name.
Chosen(d, n) == IF disk[<<d, n>>] = None THEN <<d, n>> ELSE <<d, Stamped[n]>>

UploadName(r, n) ==
  /\ request[r].op = "upload" /\ request[r].to = <<>> /\ n \in request[r].todo
  /\ LET p == Chosen(request[r].dir, n)
     IN Set(r, [request[r] EXCEPT !.todo = @ \ {n}, !.to = p,
                           !.spares = disk[p] = None \/ p[2] # n])
  /\ UNCHANGED <<dirs, disk, bin, rows, pending, scan, by, spent, strayed>>

\* The file is opened for writing, and truncated; one that does not decode is
\* removed again.  Whether the path has a note is looked up now.
UploadWrite(r) ==
  LET q == request[r]
      p == q.to
  IN /\ q.op = "upload" /\ p # <<>>
     /\ IF p[1] \notin dirs
          THEN Set(r, [q EXCEPT !.to = <<>>]) /\ UNCHANGED <<disk, by, spent, strayed>>
        ELSE
          /\ \/ /\ \E c \in Pictures : Write(p, c, q.user)
                /\ Set(r, [q EXCEPT !.to = <<>>,
                             !.notes = @ \cup {<<p, pending[p] # Nobody>>}])
             \/ /\ disk' = [disk EXCEPT ![p] = None] /\ UNCHANGED by
                /\ Set(r, [q EXCEPT !.to = <<>>])
          /\ IF disk[p] # None /\ q.spares
               THEN spent' = spent \cup {disk[p]} /\ strayed' = strayed \cup {p}
               ELSE UNCHANGED <<spent, strayed>>
     /\ UNCHANGED <<dirs, bin, rows, pending, scan>>

\* Notes that the session will insert, and that are there by now, or that it will
\* update, and are gone, fail the whole commit.
UploadCommit(r) ==
  LET q == request[r]
      noted == {x[1] : x \in q.notes}
  IN /\ q.op = "upload" /\ q.to = <<>> /\ q.todo = {}
     /\ IF \E x \in q.notes : x[2] # (pending[x[1]] # Nobody)
          THEN UNCHANGED pending
        ELSE pending' = [p \in Spots |-> IF p \in noted THEN q.user ELSE pending[p]]
     /\ Over(r)
     /\ UNCHANGED <<dirs, disk, bin, rows, scan, by, spent, strayed>>

\* Another program puts a picture into a folder, where no file is.
Drop(p) ==
  /\ p[1] \in dirs /\ disk[p] = None
  /\ \E c \in Pictures : Write(p, c, Nobody)
  /\ UNCHANGED <<dirs, bin, rows, pending, request, scan, spent, strayed>>

-------------------------------------------------------------------------------
(***************************************************************************)
(* rename_folder.                                                          *)
(***************************************************************************)
RenameStart(r, d, e) ==
  /\ d \in dirs /\ e \notin dirs
  /\ Start(r, [op |-> "rename", dir |-> d, to |-> e, pc |-> "disk"])
  /\ UNCHANGED <<dirs, disk, bin, rows, pending, scan, by, spent, strayed>>

\* History: a delete under way no longer answers for pictures that leave their folder.
Unwatched(q, d) ==
  IF request[q].op = "delete"
    THEN [request[q] EXCEPT !.known = @ \ {disk[p] : p \in In(d)}] ELSE request[q]

\* A directory may take the place of an empty one that has come meanwhile.
RenameDisk(r) ==
  LET d == request[r].dir
      e == request[r].to
  IN /\ request[r].op = "rename" /\ request[r].pc = "disk"
     /\ IF d \notin dirs \/ \E p \in In(e) : disk[p] # None
          THEN Over(r) /\ UNCHANGED <<dirs, disk, strayed>>
        ELSE /\ dirs' = (dirs \ {d}) \cup {e}
             /\ disk' = [p \in Spots |-> IF p[1] = e THEN disk[<<d, p[2]>>]
                                         ELSE IF p[1] = d THEN None ELSE disk[p]]
             /\ Leave(In(d))
             /\ request' = [q \in Requests |-> IF q = r THEN [request[q] EXCEPT !.pc = "rows"]
                                               ELSE Unwatched(q, d)]
     /\ UNCHANGED <<bin, rows, pending, scan, by, spent>>

\* One UPDATE rewrites the prefix of every row, trashed ones included; the table
\* refuses two rows of one path, and none is then rewritten.
RenameRows(r) ==
  LET d == request[r].dir
      e == request[r].to
      clash == \E n \in Names : At(<<d, n>>) # {} /\ At(<<e, n>>) # {}
  IN /\ request[r].op = "rename" /\ request[r].pc = "rows"
     /\ rows' = IF clash THEN rows
                ELSE [i \in Ids |-> IF rows[i] # NoRow /\ rows[i].path[1] = d
                                      THEN [rows[i] EXCEPT !.path = <<e, @[2]>>] ELSE rows[i]]
     /\ Over(r)
     /\ UNCHANGED <<dirs, disk, bin, pending, scan, by, spent, strayed>>

-------------------------------------------------------------------------------
(***************************************************************************)
(* delete_folder.                                                          *)
(***************************************************************************)
ActiveIn(d) == {i \in Ids : Active(i) /\ rows[i].path[1] = d}

\* With photos in it the folder is deleted only recursively.
DeleteStart(r, d, recursive) ==
  /\ d \in dirs
  /\ ActiveIn(d) # {} => recursive
  /\ Start(r, [op |-> "delete", dir |-> d, todo |-> {}, moved |-> {}, failed |-> FALSE,
               pc |-> IF ActiveIn(d) = {} THEN "rmtree" ELSE "select",
               known |-> {}])
  /\ UNCHANGED <<dirs, disk, bin, rows, pending, scan, by, spent, strayed>>

DeleteSelect(r) ==
  /\ request[r].op = "delete" /\ request[r].pc = "select"
  /\ Set(r, [request[r] EXCEPT !.pc = "trash",
               !.todo = {<<i, rows[i].path>> : i \in ActiveIn(request[r].dir)},
               !.known = {disk[rows[i].path] : i \in ActiveIn(request[r].dir)} \ {None}])
  /\ UNCHANGED <<dirs, disk, bin, rows, pending, scan, by, spent, strayed>>

\* _move_to_trash fails when the file is not there, or there is no room.
DeleteTrash(r, x) ==
  /\ request[r].op = "delete" /\ x \in request[r].todo
  /\ \/ /\ disk[x[2]] # None
        /\ bin' = bin \cup {disk[x[2]]} /\ disk' = [disk EXCEPT ![x[2]] = None]
        /\ Leave({x[2]})
        /\ Set(r, [request[r] EXCEPT !.todo = @ \ {x}, !.moved = @ \cup {x[1]}])
     \/ /\ Set(r, [request[r] EXCEPT !.todo = @ \ {x}, !.failed = TRUE])
        /\ UNCHANGED <<disk, bin, strayed>>
  /\ UNCHANGED <<dirs, rows, pending, scan, by, spent>>

\* Mutant of Aborts: the folder is removed whatever could not be moved.
AbortsNever(r) == FALSE

Aborts(r) == request[r].failed

DeleteCommit(r) ==
  /\ request[r].op = "delete" /\ request[r].pc = "trash" /\ request[r].todo = {}
  /\ rows' = [i \in Ids |-> IF i \in request[r].moved
                              THEN [rows[i] EXCEPT !.status = "trashed"] ELSE rows[i]]
  /\ IF Aborts(r) THEN Over(r) ELSE Set(r, [request[r] EXCEPT !.pc = "rmtree"])
  /\ UNCHANGED <<dirs, disk, bin, pending, scan, by, spent, strayed>>

\* rmtree destroys what is in the folder by now, photos that have no active row too.
Rmtree(r) ==
  LET d == request[r].dir
  IN /\ request[r].op = "delete" /\ request[r].pc = "rmtree"
     /\ Over(r)
     /\ dirs' = dirs \ {d}
     /\ disk' = [p \in Spots |-> IF p[1] = d THEN None ELSE disk[p]]
     /\ spent' = spent \cup ({disk[p] : p \in In(d)} \ (request[r].known \cup {None}))
     /\ Leave(In(d))
     /\ UNCHANGED <<bin, rows, pending, scan, by>>

-------------------------------------------------------------------------------
(***************************************************************************)
(* The scan, as far as it concerns the rows of these folders, and the      *)
(* worker's tick that drops old notes.                                     *)
(***************************************************************************)
\* The root's flag is read once, and may have changed since the last scan.
ScanStart ==
  /\ scan.pc = "idle"
  /\ \E flag \in BOOLEAN :
       scan' = [pc |-> "walk", left |-> Spots, unseen |-> {i \in Ids : Active(i)},
                byFolder |-> flag]
  /\ UNCHANGED <<dirs, disk, bin, rows, pending, request, by, spent, strayed>>

\* _owner_for, and who gets a new photo: the user of the note comes first.
FromFolder(p) == IF scan.byFolder THEN FolderUser[p[1]] ELSE Nobody
Owner(p) == IF pending[p] # Nobody THEN pending[p] ELSE FromFolder(p)

\* The file of a row: a row without an owner gets the folder's user, note or not.
Revisited(i, p) ==
  LET row == IF rows[i].owner = Nobody THEN [rows[i] EXCEPT !.owner = FromFolder(p)]
             ELSE rows[i]
  IN IF row.sig # disk[p] \/ row.status = "missing"
       THEN [row EXCEPT !.sig = disk[p], !.status = "active"] ELSE row

ScanVisit(p) ==
  /\ scan.pc = "walk" /\ p \in scan.left
  /\ IF disk[p] = None THEN UNCHANGED <<rows, pending, strayed>>
     ELSE IF At(p) # {}
       THEN /\ rows' = [i \in Ids |-> IF i \in At(p) THEN Revisited(i, p) ELSE rows[i]]
            /\ UNCHANGED <<pending, strayed>>
     ELSE /\ \E i \in Ids :
               /\ rows[i] = NoRow /\ \A j \in 1..(i - 1) : rows[j] # NoRow
               /\ rows' = [rows EXCEPT ![i] = [path |-> p, sig |-> disk[p],
                             owner |-> Owner(p), status |-> "active"]]
          /\ pending' = [pending EXCEPT ![p] = Nobody] /\ Forget(p)
  /\ scan' = [scan EXCEPT !.left = @ \ {p},
                          !.unseen = IF disk[p] = None THEN @ ELSE @ \ At(p)]
  /\ UNCHANGED <<dirs, disk, bin, request, by, spent>>

ScanReconcile ==
  /\ scan.pc = "walk" /\ scan.left = {}
  /\ rows' = [i \in Ids |-> IF i \in scan.unseen
                              THEN [rows[i] EXCEPT !.status = "missing"] ELSE rows[i]]
  /\ scan' = NoScan
  /\ UNCHANGED <<dirs, disk, bin, pending, request, by, spent, strayed>>

Expire(p) ==
  /\ pending[p] # Nobody /\ pending' = [pending EXCEPT ![p] = Nobody] /\ Forget(p)
  /\ UNCHANGED <<dirs, disk, bin, rows, request, scan, by, spent>>

-------------------------------------------------------------------------------
Serve(r) ==
  \/ \E u \in Users, d \in Dirs, S \in SUBSET Sent : UploadStart(r, u, d, S)
  \/ \E n \in Sent : UploadName(r, n)
  \/ UploadWrite(r) \/ UploadCommit(r)
  \/ \E d, e \in Dirs : RenameStart(r, d, e)
  \/ RenameDisk(r) \/ RenameRows(r)
  \/ \E d \in Dirs, b \in BOOLEAN : DeleteStart(r, d, b)
  \/ \E x \in Ids \X Spots : DeleteTrash(r, x)
  \/ DeleteSelect(r) \/ DeleteCommit(r) \/ Rmtree(r)

Scan == ScanStart \/ ScanReconcile \/ \E p \in Spots : ScanVisit(p)

Next ==
  \/ \E r \in Requests : Serve(r)
  \/ Scan
  \/ \E d \in Dirs : CreateFolder(d)
  \/ \E p \in Spots : Expire(p) \/ Drop(p)

Spec == Init /\ [][Next]_vars

-------------------------------------------------------------------------------
\* Folder deletes destroy no photo they have loaded, however their moves to the
\* trash fail: each picture is on disk or in the trash, unless an upload came to
\* its path after finding it free (or with a time that was taken), or no active
\* row knew of it when the folder's delete loaded the rows, or it had left the folder
\* since then and come back.
PicturesSurvive ==
  \A c \in Made : c \in bin \cup spent \/ \E p \in Spots : disk[p] = c

Owned(i) == IF rows[i] = NoRow THEN Nobody ELSE rows[i].owner

\* A photo is given to the user who uploaded it, or to the one its folder is named
\* after: never the latter when its row is made with an upload's note at its path, and
\* never to anyone once it has an owner.  Only a note whose picture a folder was renamed
\* or deleted with, or another upload overwrote, may be taken for another picture's.
OwnersUploaded ==
  [][\A i \in Ids :
       /\ Owned(i) # Nobody => Owned(i)' = Owned(i)
       /\ LET p == rows'[i].path
          IN (rows[i] = NoRow /\ rows'[i] # NoRow) \/ Owned(i)' # Owned(i) =>
               \/ Owned(i)' = by[disk[p]]
               \/ /\ Owned(i)' \in {Nobody, FolderUser[p[1]]}
                  /\ rows[i] = NoRow => pending[p] = Nobody
               \/ p \in strayed]_vars
===============================================================================
