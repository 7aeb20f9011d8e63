------------------------------- MODULE MCCatalog -------------------------------
(***************************************************************************)
(* Small instances of Catalog: two paths of one root and one index thread. *)
(***************************************************************************)
EXTENDS Catalog, TLC

CONSTANTS p1, p2, x1, u1, u2, red, blue

MCPaths    == {p1, p2}
MCUsers    == {u1, u2}
MCContents == {red, blue}

\* One picture, or two copies of it.
OneFile   == {[p \in MCPaths |-> IF p = p1 THEN red ELSE Nothing]}
OneOrTwo  == OneFile \cup {[p \in MCPaths |-> red]}

Contended == user[u1].op # "none" /\ user[u2].op # "none"

\* The files of the root, in their place or in the trash.
Files == {p \in Paths : disk[p] # Nothing} \cup {i \in Ids : bin[i] # <<>>}

OnePhoto == \A i, j \in Ids : Present(i) /\ Present(j) => i = j

\* Bounds: other programs change the disk, and a new picture is there, while
\* there is one photo.  A second request comes while the first is at work, there
\* is one photo with one file, nothing was upset yet or is while it is there, and
\* the worker scans or indexes, not both.  While there are two photos, the scan, the
\* index threads or the users are idle.
Bound ==
  /\ disk' # disk /\ upsets' # upsets => OnePhoto'
  /\ (\E p \in Paths : disk'[p] = blue) => OnePhoto'
  /\ user[u2].op = "none" /\ user'[u2].op # "none" => user[u1].op # "none"
  /\ user'[u2].op # "none" => upsets' = MaxUpsets
  /\ Contended' => /\ OnePhoto' /\ Cardinality(Files') <= 1
                   /\ scan'.pc = "idle" \/ \A x \in Indexers : indexer'[x].pc = "idle"
  /\ ~OnePhoto' => \/ scan'.pc = "idle"
                  \/ \A x \in Indexers : indexer'[x].pc = "idle"
                  \/ \A u \in Users : user'[u].op = "none"

PathSymmetry == Permutations(MCPaths)
===============================================================================
