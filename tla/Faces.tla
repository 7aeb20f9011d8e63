--------------------------------- MODULE Faces ---------------------------------
(***************************************************************************)
(* People: the faces the ML worker finds (worker_ml/jobs.py), the clusters *)
(* they are put into one by one and rebuilt from time to time              *)
(* (worker_ml/faces.py), and an administrator's corrections                *)
(* (admin/routes_ml.py), with the row of the full-text index each photo    *)
(* has (fts.py).  An embedding is the person it shows: two are alike if    *)
(* and only if they show the same one.                                     *)
(*                                                                         *)
(* A session reads before its first write and holds the database from then *)
(* to its commit: every request is a step that reads (`seen') and a step   *)
(* that writes what it works out from that.  Nothing is flushed before a   *)
(* query (autoflush is off): what a rebuild of the index reads is the      *)
(* database without the rows the session has only changed in memory.       *)
(***************************************************************************)
EXTENDS Integers, FiniteSets, FiniteSetsExt, Functions

CONSTANTS
  Photos,
  Shown,       \* of each photo: the people in it, one box each
  Small,       \* of each photo: those whose box is too narrow for a rebuild
  Names,       \* labels
  FirstFaces, FirstClusters,  \* the two tables once every photo has been looked at
  MaxFace,     \* bound: face rows
  MaxCluster,  \* bound: cluster rows
  MaxTurns     \* bound: requests, detections, rebuilds, photos trashed and restored

VARIABLES
  status,      \* of each photo: active, trashed or purged
  faces,       \* table photo_faces
  clusters,    \* table face_clusters
  index,       \* of each photo: the labels in its row of photo_fts
  request,     \* the administrator's request under way
  detector,    \* a detection under way
  rebuild,     \* the rebuild under way
  turns,       \* how many of those there were
  drifted      \* history: clusters whose count was worked out from a stale read, that
               \* lost faces with a purged photo, or that a rebuild has begun to replace
vars == <<status, faces, clusters, index, request, detector, rebuild, turns, drifted>>

FaceIds == 1..MaxFace
ClusterIds == 1..MaxCluster
Persons == UNION {Shown[p] : p \in Photos}
None == "none"
NoCluster == [label |-> None, who |-> None, count |-> -1]
NoFace == [photo |-> None, who |-> None, cluster |-> 0, source |-> None]
Cluster == [label : Names \cup {None}, who : Persons \cup {None}, count : Nat]
Face == [photo : Photos, who : Persons, cluster : 0..MaxCluster, source : {"detector", "user"}]

Tables == [faces |-> faces, clusters |-> clusters]
NewId == 0
NoRequest == [op |-> None, seen |-> <<>>]
NoDetection == [photo |-> None, seen |-> <<>>]
NoRebuild == [pc |-> "idle", groups |-> {}, gated |-> {}, old |-> {}, disturbed |-> FALSE]

Exists(c) == clusters[c] # NoCluster
In(table, c) == {f \in FaceIds : table[f] # NoFace /\ table[f].cluster = c}
Members(c) == In(faces, c)
Turn == turns < MaxTurns /\ turns' = turns + 1

NextFree(table, empty) ==
  {i \in DOMAIN table : /\ i = 1 \/ table[i - 1] # empty
                        /\ \A j \in DOMAIN table : j >= i => table[j] = empty}

\* A photo shows finitely many people; the first tables agree with each other.
FacesConstants ==
  /\ MaxFace \in Nat /\ MaxCluster \in Nat /\ \A p \in Photos : IsFiniteSet(Shown[p])
  /\ FirstFaces \in [FaceIds -> Face \cup {NoFace}]
  /\ FirstClusters \in [ClusterIds -> Cluster \cup {NoCluster}]
  /\ \A f \in FaceIds : FirstFaces[f].cluster # 0 =>
       FirstClusters[FirstFaces[f].cluster] # NoCluster
  /\ \A c \in ClusterIds : FirstClusters[c] # NoCluster =>
       FirstClusters[c].count = Cardinality(In(FirstFaces, c))

\* The people of a photo as a query finds them in two tables.
Labels(fs, cs, p) ==
  {cs[fs[f].cluster].label : f \in {g \in FaceIds : fs[g].photo = p /\ fs[g].cluster # 0}} \ {None}

TypeOK ==
  /\ status \in [Photos -> {"active", "trashed", "purged"}]
  /\ faces \in [FaceIds -> Face \cup {NoFace}]
  /\ clusters \in [ClusterIds -> Cluster \cup {NoCluster}]
  /\ index \in [Photos -> SUBSET Names]
  /\ \A f \in FaceIds : faces[f] # NoFace /\ faces[f].cluster # 0 => Exists(faces[f].cluster)
  /\ rebuild.pc \in {"idle", "create", "assign", "null", "drop"}
  /\ drifted \subseteq ClusterIds

Init ==
  /\ status = [p \in Photos |-> "active"]
  /\ faces = FirstFaces /\ clusters = FirstClusters
  /\ index = [p \in Photos |-> {}]
  /\ request = NoRequest /\ detector = NoDetection /\ rebuild = NoRebuild
  /\ turns = 0 /\ drifted = {}
--------------------------------------------------------------------------------
(***************************************************************************)
(* What a commit does to the history.                                      *)
(***************************************************************************)
\* A cluster drifts if the commit changes it, or its faces, and the session had read
\* it otherwise than it is, or a rebuild is half way.
Overlapped(seen) ==
  {c \in ClusterIds : seen.clusters[c] # clusters[c] \/ In(seen.faces, c) # Members(c)}
HalfWay == rebuild.pc \notin {"idle", "create"}
Drift(marks) ==
  drifted' = {c \in ClusterIds :
    /\ clusters'[c] # NoCluster
    /\ \/ c \in drifted
       \/ /\ c \in marks \/ HalfWay
          /\ clusters'[c] # clusters[c] \/ In(faces', c) # Members(c)}
Disturb == rebuild' = [rebuild EXCEPT !.disturbed = @ \/ rebuild.pc # "idle"]
--------------------------------------------------------------------------------
(***************************************************************************)
(* The administrator's requests.                                           *)
(***************************************************************************)
Asked(r) ==
  /\ Turn
  /\ request' = r
  /\ UNCHANGED <<status, faces, clusters, index, detector, rebuild, drifted>>

\* scalar_one_or_none: more than one cluster of a name is an error.
Named(label, but) == {c \in ClusterIds \ {but} : Exists(c) /\ clusters[c].label = label}

\* patch_cluster with a name, or an empty one: the cluster of that name takes the faces,
\* if there is one.
RenameBegin(c, label) ==
  LET others == IF label = None THEN {} ELSE Named(label, c) IN
  /\ Exists(c)
  /\ Cardinality(others) <= 1
  /\ \E into \in IF others = {} THEN {NewId} ELSE others :
       Asked([op |-> "rename", c |-> c, label |-> label, into |-> into, seen |-> Tables])

\* patch_cluster with a cluster to merge into, delete_cluster.
MergeBegin(c, into) ==
  /\ Exists(c) /\ Exists(into) /\ c # into
  /\ Asked([op |-> "merge", c |-> c, into |-> into, seen |-> Tables])
DeleteBegin(c) == Exists(c) /\ Asked([op |-> "delete", c |-> c, seen |-> Tables])

\* The cluster add_face and patch_face put a face into: one that is chosen, the one of
\* a name, or a new one.
Target(label, into) ==
  \/ label = None /\ into \in ClusterIds /\ Exists(into)
  \/ label = None /\ into = NewId
  \/ label # None /\ Cardinality(Named(label, NewId)) <= 1
     /\ into \in IF Named(label, NewId) = {} THEN {NewId} ELSE Named(label, NewId)
AddBegin(p, who, label, into) ==
  /\ status[p] # "purged" /\ who \in Shown[p] /\ Target(label, into)
  /\ Asked([op |-> "add", p |-> p, who |-> who, label |-> label, into |-> into,
            seen |-> Tables])
MoveBegin(f, label, into) ==
  /\ faces[f] # NoFace /\ Target(label, into) /\ into # faces[f].cluster
  /\ Asked([op |-> "move", f |-> f, label |-> label, into |-> into, seen |-> Tables])
EraseBegin(f) == faces[f] # NoFace /\ Asked([op |-> "erase", f |-> f, seen |-> Tables])

\* An UPDATE of a row that is gone, or a reference to one, fails, and nothing is written.
Fail ==
  /\ request' = NoRequest
  /\ UNCHANGED <<turns, status, faces, clusters, index, detector, rebuild, drifted>>
Written ==
  /\ request' = NoRequest
  /\ UNCHANGED <<turns, status, detector>>
  /\ Drift(Overlapped(request.seen)) /\ Disturb

Moved(from, into) ==
  [f \in FaceIds |->
     IF faces[f] # NoFace /\ faces[f].cluster = from THEN [faces[f] EXCEPT !.cluster = into]
     ELSE faces[f]]
Affected(c) == {request.seen.faces[f].photo : f \in In(request.seen.faces, c)}
Count(c) == request.seen.clusters[c].count

\* bulk_rebuild, rebuild_photo: the rows of these photos, from these tables.
Baked(photos, fs, cs) ==
  [p \in Photos |-> IF p \in photos THEN Labels(fs, cs, p) ELSE index[p]]

\* Plain renaming: the index is rebuilt before the new label is flushed.
RenameCommit ==
  LET c == request.c IN
  /\ request.op = "rename" /\ request.into = NewId
  /\ IF Exists(c)
       THEN /\ index' = Baked(Affected(c), faces, clusters)
            /\ clusters' = [clusters EXCEPT ![c].label = request.label]
            /\ UNCHANGED faces
            /\ Written
       ELSE Fail

\* The rename of a cluster whose faces go to the one of that name; it is deleted.
AbsorbCommit ==
  LET c == request.c
      into == request.into
      moved == Cardinality(Members(c))
  IN
  /\ request.op = "rename" /\ into # NewId
  /\ IF Exists(into) \/ moved = 0
       THEN /\ faces' = Moved(c, into)
            /\ clusters' = [d \in ClusterIds |->
                 CASE d = c -> NoCluster
                   [] d = into /\ moved > 0 -> [clusters[d] EXCEPT !.count = Count(into) + moved]
                   [] OTHER -> clusters[d]]
            /\ index' = Baked(Affected(c), faces', clusters)
            /\ Written
       ELSE Fail

\* Mutant of Vacated: it is left as it was.
VacatedNever(c) == clusters[c].count
\* The count a merge leaves at its source.
Vacated(c) == IF Count(c) = 0 THEN clusters[c].count ELSE 0

MergeCommit ==
  LET c == request.c
      into == request.into
      moved == Cardinality(Members(c))
  IN
  /\ request.op = "merge"
  /\ IF (Exists(into) \/ moved = 0) /\ (Exists(c) \/ Count(c) = 0)
       THEN /\ faces' = Moved(c, into)
            /\ clusters' = [d \in ClusterIds |->
                 CASE d = c /\ Exists(c) -> [clusters[d] EXCEPT !.count = Vacated(c)]
                   [] d = into /\ moved > 0 -> [clusters[d] EXCEPT !.count = Count(into) + moved]
                   [] OTHER -> clusters[d]]
            /\ index' = Baked(Affected(c), faces', clusters)
            /\ Written
       ELSE Fail

DeleteCommit ==
  LET c == request.c IN
  /\ request.op = "delete"
  /\ faces' = Moved(c, 0)
  /\ clusters' = [clusters EXCEPT ![c] = NoCluster]
  /\ index' = Baked(Affected(c), faces', clusters')
  /\ Written

\* find-or-create; a new row is flushed at once, and given the next id.
Slots(into) == IF into = NewId THEN NextFree(clusters, NoCluster) ELSE {into}
Opened(c, label, into) ==
  IF into = NewId THEN [clusters EXCEPT ![c] = [label |-> label, who |-> None, count |-> 0]]
  ELSE clusters
Joined(into) == (IF into = NewId THEN 0 ELSE Count(into)) + 1

AddCommit ==
  LET into == request.into IN
  /\ request.op = "add"
  /\ IF status[request.p] # "purged" /\ (into # NewId => Exists(into))
       THEN \E c \in Slots(into), f \in NextFree(faces, NoFace) :
              /\ faces' = [faces EXCEPT ![f] = [photo |-> request.p, who |-> request.who,
                                               cluster |-> c, source |-> "user"]]
              /\ clusters' = [Opened(c, request.label, into) EXCEPT ![c].count = Joined(into)]
              /\ index' = Baked({request.p}, faces', clusters')
              /\ Written
       ELSE Fail

\* The index is rebuilt before the face's new cluster is flushed.  The old cluster is
\* read last: after a new one has been made, that is, with the database held.
MoveCommit ==
  LET into == request.into
      face == request.seen.faces[request.f]
      old == face.cluster
      left == IF old = 0 THEN 0 ELSE IF into = NewId THEN clusters[old].count ELSE Count(old)
  IN
  /\ request.op = "move"
  /\ IF /\ faces[request.f] # NoFace /\ (into # NewId => Exists(into))
        /\ left > 0 => Exists(old)
       THEN \E c \in Slots(into) :
              /\ faces' = [faces EXCEPT ![request.f].cluster = c]
              /\ clusters' = [d \in ClusterIds |->
                   CASE d = c -> [Opened(c, request.label, into)[d] EXCEPT !.count = Joined(into)]
                     [] d = old /\ d # c /\ left > 0 -> [clusters[d] EXCEPT !.count = left - 1]
                     [] OTHER -> clusters[d]]
              /\ index' = Baked({face.photo}, faces, Opened(c, request.label, into))
              /\ Written
       ELSE Fail

EraseCommit ==
  LET face == request.seen.faces[request.f]
      old == face.cluster
      counted == old # 0 /\ Count(old) > 0
  IN
  /\ request.op = "erase"
  /\ IF counted => Exists(old)
       THEN /\ faces' = [faces EXCEPT ![request.f] = NoFace]
            /\ clusters' = IF counted THEN [clusters EXCEPT ![old].count = Count(old) - 1]
                           ELSE clusters
            /\ index' = Baked({face.photo}, faces', clusters')
            /\ Written
       ELSE Fail

Ask ==
  \/ \E c \in ClusterIds, label \in Names \cup {None} : RenameBegin(c, label)
  \/ \E c, into \in ClusterIds : MergeBegin(c, into)
  \/ \E c \in ClusterIds : DeleteBegin(c)
  \/ \E label \in Names \cup {None}, into \in 0..MaxCluster :
       \/ \E p \in Photos, who \in Persons : AddBegin(p, who, label, into)
       \/ \E f \in FaceIds : MoveBegin(f, label, into)
  \/ \E f \in FaceIds : EraseBegin(f)
Correct ==
  \/ request = NoRequest /\ turns < MaxTurns /\ Ask
  \/ RenameCommit \/ AbsorbCommit \/ MergeCommit \/ DeleteCommit
  \/ AddCommit \/ MoveCommit \/ EraseCommit
--------------------------------------------------------------------------------
(***************************************************************************)
(* Detection: run_detect_faces with _clear_existing_faces and              *)
(* assign_or_create_cluster.                                               *)
(***************************************************************************)
DetectBegin(p) ==
  /\ detector = NoDetection /\ status[p] # "purged" /\ Turn
  /\ detector' = [photo |-> p, seen |-> Tables]
  /\ UNCHANGED <<status, faces, clusters, index, request, rebuild, drifted>>

\* The faces of a former detection go first, if there are any: from then on the session
\* holds the database, and what it has not read before is current.
Cleared == {f \in FaceIds : LET face == detector.seen.faces[f]
                            IN face.photo = detector.photo /\ face.source = "detector"}
ClearedOf(c) == Cleared \cap In(detector.seen.faces, c)
Loaded(c) ==
  IF Cleared = {} \/ ClearedOf(c) # {} THEN detector.seen.clusters[c] ELSE clusters[c]
CountLeft(c) == LET left == Loaded(c).count - Cardinality(ClearedOf(c))
                IN IF left > 0 THEN left ELSE 0

\* A user's face is kept, and the box it is on is not taken again.
Found ==
  LET kept == IF Cleared = {} THEN detector.seen.faces ELSE faces
  IN {who \in Shown[detector.photo] : \A f \in FaceIds :
        kept[f] # [kept[f] EXCEPT !.photo = detector.photo, !.who = who, !.source = "user"]}

\* The clusters a face may join: alike, and not emptied by a merge.
Alike(who) ==
  {c \in ClusterIds : Loaded(c).who = who /\ CountLeft(c) > 0}

\* The boxes are taken in some order; `old' gives the cluster of a face that joins one.
Last(table, empty) == Max({0} \cup {i \in DOMAIN table : table[i] # empty})
DetectCommit ==
  /\ detector # NoDetection
  /\ \E rank \in [Found -> 1..Cardinality(Found)], old \in [Found -> ClusterIds] :
    LET new == {who \in Found : Alike(who) = {}}
        left == [f \in FaceIds |-> IF f \in Cleared THEN NoFace ELSE faces[f]]
        before(who, set) == Cardinality({w \in set : rank[w] <= rank[who]})
        id == [who \in Found |-> Last(left, NoFace) + rank[who]]
        home == [who \in Found |-> IF who \in new THEN Last(clusters, NoCluster) + before(who, new)
                                    ELSE old[who]]
    IN
    /\ IsInjective(rank)
    /\ \A who \in Found : old[who] \in IF who \in new THEN {1} ELSE Alike(who)
    /\ \A who \in Found : id[who] \in FaceIds /\ home[who] \in ClusterIds
    /\ detector' = NoDetection
    /\ UNCHANGED <<turns, status, index, request>>
    /\ IF /\ status[detector.photo] # "purged"
          /\ \A who \in Found \ new : Exists(home[who])
          /\ \A c \in ClusterIds : Loaded(c).count > CountLeft(c) => Exists(c)
         THEN /\ faces' = [f \in FaceIds |->
                   IF \E who \in Found : id[who] = f
                     THEN LET who == CHOOSE w \in Found : id[w] = f
                          IN [photo |-> detector.photo, who |-> who, cluster |-> home[who],
                              source |-> "detector"]
                   ELSE left[f]]
              /\ clusters' = [c \in ClusterIds |->
                   IF \E who \in new : home[who] = c
                     THEN [label |-> None, who |-> CHOOSE w \in new : home[w] = c, count |-> 1]
                   ELSE IF \E who \in Found : home[who] = c
                     THEN [clusters[c] EXCEPT !.count = CountLeft(c) + 1]
                   ELSE IF Loaded(c).count > CountLeft(c)
                     THEN [clusters[c] EXCEPT !.count = CountLeft(c)]
                   ELSE clusters[c]]
              /\ Drift(Overlapped(detector.seen)) /\ Disturb
         ELSE UNCHANGED <<faces, clusters, rebuild, drifted>>
--------------------------------------------------------------------------------
(***************************************************************************)
(* The rebuild: recluster_all, a commit at a time.                         *)
(***************************************************************************)
\* A group: the faces of one person, and the label of most of them, if any has one.
Votes(fs, label) ==
  Cardinality({f \in fs : faces[f].cluster # 0 /\ clusters[faces[f].cluster].label = label})
Winners(fs) ==
  LET named == {n \in Names : Votes(fs, n) > 0}
  IN IF named = {} THEN {None}
     ELSE {n \in named : \A o \in named : Votes(fs, o) <= Votes(fs, n)}
Active == {f \in FaceIds : faces[f] # NoFace /\ status[faces[f].photo] = "active"}
Eligible == {f \in Active : faces[f].who \notin Small[faces[f].photo]}

RebuildPlan ==
  /\ rebuild.pc = "idle" /\ Turn
  /\ \E label \in [{faces[f].who : f \in Eligible} -> Names \cup {None}] :
       LET of(who) == {f \in Eligible : faces[f].who = who}
       IN /\ \A who \in DOMAIN label : label[who] \in Winners(of(who))
          /\ rebuild' = [pc |-> "create", disturbed |-> FALSE, old |-> {},
               gated |-> Active \ Eligible,
               groups |-> {[who |-> who, label |-> label[who], faces |-> of(who), id |-> 0] :
                             who \in DOMAIN label}]
  /\ UNCHANGED <<status, faces, clusters, index, request, detector, drifted>>

\* Mutant of Old: the list is made when the new ones are there.
OldAndNew == {c \in ClusterIds : clusters'[c] # NoCluster}
\* The clusters to drop in the end.
Old == {c \in ClusterIds : Exists(c)}

\* The old clusters are listed and the new ones made.
RebuildCreate ==
  LET top == {c \in ClusterIds : \A d \in ClusterIds : d >= c => ~Exists(d)}
      n == Cardinality(rebuild.groups)
      ids == {c \in top : Cardinality({d \in top : d < c}) < n}
  IN
  /\ rebuild.pc = "create" /\ Cardinality(ids) = n
  /\ \E id \in [rebuild.groups -> ids] :
       /\ \A g, h \in rebuild.groups : id[g] = id[h] => g = h
       /\ clusters' = [c \in ClusterIds |->
            IF \E g \in rebuild.groups : id[g] = c
              THEN LET g == CHOOSE x \in rebuild.groups : id[x] = c
                   IN [label |-> g.label, who |-> g.who, count |-> Cardinality(g.faces)]
            ELSE clusters[c]]
       /\ rebuild' = [rebuild EXCEPT
            !.pc = "assign", !.old = Old,
            !.groups = {[g EXCEPT !.id = id[g]] : g \in rebuild.groups}]
       /\ drifted' = {c \in ClusterIds : clusters'[c] # NoCluster}
  /\ UNCHANGED <<turns, status, faces, index, request, detector>>

\* The faces of one group; an UPDATE takes whatever has their ids.
RebuildAssign ==
  /\ rebuild.pc = "assign"
  /\ UNCHANGED <<turns, status, clusters, index, request, detector, drifted>>
  /\ \/ /\ rebuild.groups = {}
        /\ rebuild' = [rebuild EXCEPT !.pc = "null"]
        /\ UNCHANGED faces
     \/ \E g \in rebuild.groups :
          IF Exists(g.id) \/ \A f \in g.faces : faces[f] = NoFace
            THEN /\ faces' = [f \in FaceIds |->
                      IF f \in g.faces /\ faces[f] # NoFace THEN [faces[f] EXCEPT !.cluster = g.id]
                      ELSE faces[f]]
                 /\ rebuild' = [rebuild EXCEPT !.groups = @ \ {g}]
            ELSE rebuild' = NoRebuild /\ UNCHANGED faces

RebuildNull ==
  /\ rebuild.pc = "null"
  /\ faces' = [f \in FaceIds |->
       IF f \in rebuild.gated /\ faces[f] # NoFace THEN [faces[f] EXCEPT !.cluster = 0] ELSE faces[f]]
  /\ rebuild' = [rebuild EXCEPT !.pc = "drop"]
  /\ UNCHANGED <<turns, status, clusters, index, request, detector, drifted>>

RebuildDrop ==
  /\ rebuild.pc = "drop"
  /\ faces' = [f \in FaceIds |->
       IF faces[f].cluster \in rebuild.old THEN [faces[f] EXCEPT !.cluster = 0] ELSE faces[f]]
  /\ clusters' = [c \in ClusterIds |-> IF c \in rebuild.old THEN NoCluster ELSE clusters[c]]
  /\ drifted' = IF rebuild.disturbed THEN drifted \ rebuild.old ELSE {}
  /\ rebuild' = NoRebuild
  /\ UNCHANGED <<turns, status, index, request, detector>>

\* The ML worker stops; the job's row is claimed again later.
Crash ==
  /\ rebuild.pc # "idle" \/ detector # NoDetection
  /\ rebuild' = NoRebuild /\ detector' = NoDetection
  /\ UNCHANGED <<turns, status, faces, clusters, index, request, drifted>>

Detect == \/ \E p \in Photos : DetectBegin(p)
          \/ DetectCommit
Rebuild == RebuildPlan \/ RebuildCreate \/ RebuildAssign \/ RebuildNull \/ RebuildDrop
--------------------------------------------------------------------------------
(***************************************************************************)
(* Photos come and go; a purge takes the faces with it (ON DELETE CASCADE).*)
(***************************************************************************)
Trash(p) ==
  /\ Turn
  /\ status[p] \in {"active", "trashed"}
  /\ status' = [status EXCEPT ![p] = IF @ = "active" THEN "trashed" ELSE "active"]
  /\ Disturb
  /\ UNCHANGED <<faces, clusters, index, request, detector, drifted>>

Purge(p) ==
  /\ status[p] = "trashed"
  /\ status' = [status EXCEPT ![p] = "purged"]
  /\ faces' = [f \in FaceIds |-> IF faces[f].photo = p THEN NoFace ELSE faces[f]]
  /\ index' = [index EXCEPT ![p] = {}]
  /\ UNCHANGED <<turns, clusters, request, detector>>
  /\ drifted' = drifted \cup {c \in ClusterIds : In(faces', c) # Members(c)}
  /\ Disturb

Next == Correct \/ Detect \/ Rebuild \/ Crash \/ \E p \in Photos : Trash(p) \/ Purge(p)

Spec == Init /\ [][Next]_vars
--------------------------------------------------------------------------------
(***************************************************************************)
(* Properties.                                                             *)
(***************************************************************************)
\* A cluster's count is that of its faces: merges, splits, corrections and detections
\* keep it, unless two sessions overlapped on the cluster or a photo was purged; and a
\* rebuild nobody disturbed makes all counts right, after a crash half way too.
FacesCounted ==
  \A c \in ClusterIds \ drifted : Exists(c) => clusters[c].count = Cardinality(Members(c))

\* When a rebuild nobody disturbed ends, whatever a crashed or failed one left behind, the
\* faces of one person in active photos are together in a cluster of that person alone,
\* narrow ones are in none, and no cluster is empty.
RebuildRepairs ==
  [][rebuild.pc = "drop" /\ rebuild'.pc = "idle" /\ ~rebuild.disturbed
     /\ <<faces, clusters>>' # <<faces, clusters>> =>
       /\ \A f \in Active : faces'[f].cluster # 0 <=> f \in Eligible
       /\ \A f, g \in Eligible :
            faces'[f].cluster = faces'[g].cluster <=> faces[f].who = faces[g].who
       /\ \A c \in ClusterIds : clusters'[c] # NoCluster => In(faces', c) # {}]_vars

\* patch_cluster: "every photo that references it needs its FTS bag re-baked": after a
\* rename, the photos of the cluster are found by its name.
RenamesSearchable ==
  [][request.op = "rename" /\ request' = NoRequest /\ request.seen = Tables
     /\ request.label # None /\ clusters'[request.c].label = request.label =>
       \A f \in Members(request.c) : request.label \in index'[faces[f].photo]]_vars
================================================================================
