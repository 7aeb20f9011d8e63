------------------------------- MODULE MCLibrary -------------------------------
(***************************************************************************)
(* A small instance of Library.  Its parts share no state, so one run      *)
(* checks them side by side: an execution is of one of them (`focus'), and *)
(* the others stay in their initial states.                                *)
(***************************************************************************)
EXTENDS Library, TLC

CONSTANTS
  r1, r2, w1,   \* Documents; Dedup takes r1 and r2 for administrators
  w2, w3,       \* Dedup
  p1, p2        \* Faces

VARIABLE focus

MCPaths   == {<<"a", "x">>, <<"a", "y">>, <<"b", "a", "x">>}
MCFolders == {<<>>, <<"a">>, <<"b">>, <<"b", "a">>}
MCDisks   == {[p \in Paths |-> IF p = <<"a", "x">> THEN 1 ELSE None]}

MCStamped    == "x" :> "y"
MCFolderUser == "a" :> "u" @@ "b" :> "nobody"

MCCopies == 1..4
MCSha    == 1 :> "A" @@ 2 :> "A" @@ 3 :> "B" @@ 4 :> "B"
MCRank   == "A" :> 1 @@ "B" :> 2

\* Two people in two photos, each looked at once; one of them has a face too narrow for
\* a rebuild.
MCShown == p1 :> {"ann"} @@ p2 :> {"ann", "bo"}
MCSmall == p1 :> {} @@ p2 :> {"bo"}
Seen(photo, who, cluster) ==
  [photo |-> photo, who |-> who, cluster |-> cluster, source |-> "detector"]
MCFirstFaces == <<Seen(p1, "ann", 1), Seen(p2, "ann", 1), Seen(p2, "bo", 2),
                  [photo |-> "none", who |-> "none", cluster |-> 0, source |-> "none"]>>
MCFirstClusters == <<[label |-> "none", who |-> "ann", count |-> 2],
                     [label |-> "none", who |-> "bo", count |-> 1]>>
                   \o [c \in 1..2 |-> [label |-> "none", who |-> "none", count |-> -1]]

MCInit ==
  /\ LibraryInit
  /\ focus \in {"documents", "folders", "dedup", "faces"}
  /\ focus # "folders" => dirs = {}
  /\ focus # "dedup" => taken = [i \in Copies |-> 1]

MCNext ==
  \/ focus = "documents" /\ Next /\ UNCHANGED <<focus, treeVars, cleanupVars, peopleVars>>
  \/ focus = "folders" /\ Tree!Next /\ UNCHANGED <<focus, vars, cleanupVars, peopleVars>>
  \/ focus = "dedup" /\ Cleanup!Next /\ UNCHANGED <<focus, vars, treeVars, peopleVars>>
  \/ focus = "faces" /\ People!Next /\ UNCHANGED <<focus, vars, treeVars, cleanupVars>>

MCSpec == MCInit /\ [][MCNext]_<<focus, libraryVars>>

\* Bounds.  The walk takes the documents in order; requests run beside a scan or an
\* index job, not beside both, nor while more than one job waits; two requests run beside
\* no job and no scan.
Order == << <<"a", "x">>, <<"a", "y">>, <<"b", "a", "x">> >>
Asked == {r \in Requests : request'[r] # NoRequest}
DocumentsBound ==
  /\ scan'.left \in {Range(SubSeq(Order, n, 3)) : n \in 1..4}
  /\ (worker'[w1] # NoJob /\ scan'.pc # "idle") \/ Cardinality(jobs') = 2 => Asked = {}
  /\ Cardinality(Asked) = 2 =>
       jobs' = {} /\ worker'[w1] = NoJob /\ scan'.pc = "idle" /\ gone' \subseteq gone

\* An administrator's request runs beside a detection or beside a rebuild, and no
\* detection after the last turn; one photo of the two is trashed.
FacesBound ==
  /\ faceRequest' # People!NoRequest => detector' = People!NoDetection \/ rebuild'.pc = "idle"
  /\ turns' = MaxTurns => detector' = People!NoDetection
  /\ photoStatus'[p1] = "active"

\* The first picture may be a dropped one, in the folder that is named after a user; then
\* one request is made.  A scan that reads the flag as set runs beside uploads only.
FoldersBound ==
  /\ \A c \in DOMAIN by' : by'[c] = "nobody" => c = 1
  /\ by' # <<>> /\ by'[1] = "nobody" =>
       /\ by = <<>> => photoDisk'[<<"a", "x">>] = 1
       /\ \E r \in Requests : folderRequest'[r] = Tree!NoRequest
  /\ folderScan'.byFolder => \A r \in Requests : folderRequest'[r].op \notin {"rename", "delete"}

Bound ==
  /\ focus = "documents" => DocumentsBound
  /\ focus = "folders" => FoldersBound
  /\ focus = "faces" => FacesBound

\* One photo at a time is dated late.
FewLate == Cardinality({i \in Copies : taken[i] = 2}) <= 1

Symmetry == Permutations(Requests) \cup Permutations({w2, w3})
===============================================================================
