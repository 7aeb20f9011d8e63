---------------------------------- MODULE Acl ----------------------------------
(***************************************************************************)
(* The access level of one user on the photos of one root (the rules of    *)
(* other users and roots never apply to them).  Three pieces of code       *)
(* compute it: the guard of a single photo and the filter of the lists ask *)
(* SQL, the guard of a batch asks rules it has copied.  Each takes several *)
(* queries, and no transaction spans them: administrators edit the rules   *)
(* in between.                                                             *)
(***************************************************************************)
EXTENDS Integers, FiniteSets, Sequences, SequencesExt

CONSTANTS
  Photos,    \* photos of the root
  Home,      \* Home[p]: the path of photo p, a sequence of names
  Mine,      \* photos the user owns
  Folders,  \* folders that may have a rule
  Levels,    \* levels a rule may give: some of hidden < read < interact < ...
  Similar    \* pairs of names that LIKE takes for one: <<pattern, name>>

VARIABLES
  admin,       \* users.is_admin
  visibility,  \* photos.visibility
  rootRule,    \* the root_acl row, or None
  folderRule,  \* the folder_acl rows: a level or None for each prefix
  check,       \* the computation under way: what it has read, what it answers
  seen,        \* history: levels each photo had since the check began
  moved        \* history: tables edited since the check began

rules == <<admin, visibility, rootRule, folderRule>>
vars == <<admin, visibility, rootRule, folderRule, check, seen, moved>>

None == "none"
Visibility == {"inherit", "private", "public"}
Answers == Levels \cup {"hidden", "read", "interact", "manage"}

\* Paths are sequences.
AclConstants == /\ \A p \in Photos : Home[p] \in Seq(ToSet(Home[p]))
                /\ \A f \in Folders : f \in Seq(ToSet(f))

Idle == [op |-> "idle"]
Check == [op : {"one", "batch", "list"},
          pc : {"folder", "root", "rules", "query", "done"},
          of : SUBSET Photos, admin : BOOLEAN, vis : [Photos -> Visibility],
          root : Levels \cup {None}, plain : BOOLEAN, answer : [Photos -> Answers]]

TypeOK ==
  /\ admin \in BOOLEAN
  /\ visibility \in [Photos -> Visibility]
  /\ rootRule \in Levels \cup {None}
  /\ folderRule \in [Folders -> Levels \cup {None}]
  /\ check \in Check \cup {Idle}
  /\ seen \in [Photos -> SUBSET Answers]
  /\ moved \subseteq {"users", "photos", "root_acl", "folder_acl"}

Init ==
  /\ admin \in BOOLEAN
  /\ visibility = [p \in Photos |-> "inherit"]
  /\ rootRule = None /\ folderRule = [f \in Folders |-> None]
  /\ check = Idle
  /\ seen = [p \in Photos |-> {}] /\ moved = {}

-------------------------------------------------------------------------------
(***************************************************************************)
(* Rules and levels.                                                       *)
(***************************************************************************)
\* (rel_path || '/') LIKE path_prefix || '%': LIKE does not mind case, and a prefix
\* may hold wildcards.
Like(f, path) ==
  Len(f) <= Len(path) /\ \A k \in DOMAIN f : f[k] = path[k] \/ <<f[k], path[k]>> \in Similar

Ruled(f) == folderRule[f] # None

\* ORDER BY length(path_prefix) DESC LIMIT 1: one of the longest rules that match.
MatchingFolderLevels(p) ==
  LET F == {f \in Folders : Ruled(f) /\ Like(f, Home[p])}
  IN IF F = {} THEN {None}
     ELSE {folderRule[f] : f \in {g \in F : \A h \in F : Len(h) <= Len(g)}}

\* Mutant of FolderMatch: the rules are tried shortest first.
FolderMatchShortest(p) ==
  LET F == {f \in Folders : Ruled(f) /\ IsPrefix(f, Home[p])}
  IN IF F = {} THEN None
     ELSE folderRule[CHOOSE f \in F : \A g \in F : Len(f) <= Len(g)]

\* The copy of the rules is searched longest first, name by name.
FolderMatch(p) ==
  LET F == {f \in Folders : Ruled(f) /\ IsPrefix(f, Home[p])}
  IN IF F = {} THEN None
     ELSE folderRule[CHOOSE f \in F : \A g \in F : Len(g) <= Len(f)]

\* The level that follows from what was read.
Resolve(p, isAdmin, vis, folder, root) ==
  LET base == IF folder # None THEN folder ELSE IF root # None THEN root ELSE "interact"
  IN IF isAdmin THEN "manage"
     ELSE IF vis = "private" THEN (IF p \in Mine THEN "manage" ELSE "hidden")
     ELSE IF vis = "public" /\ base = "hidden" THEN "read"
     ELSE base

\* The levels of a photo at one moment: more than one when two rules tie.
LevelsOf(p) ==
  {Resolve(p, admin, visibility[p], m, rootRule) : m \in MatchingFolderLevels(p)}

-------------------------------------------------------------------------------
(***************************************************************************)
(* Checks.                                                                 *)
(***************************************************************************)
Begin(op, pc, S) ==
  /\ check = Idle
  /\ check' = [op |-> op, pc |-> pc, of |-> S, admin |-> admin, vis |-> visibility,
               root |-> None, plain |-> FALSE, answer |-> [p \in Photos |-> "hidden"]]
  /\ UNCHANGED rules

Go(pc) == check' = [check EXCEPT !.pc = pc] /\ UNCHANGED rules

Answer(S, level(_)) ==
  /\ check' = [check EXCEPT !.pc = "done",
                 !.answer = [p \in Photos |-> IF p \in S THEN level(p) ELSE "hidden"]]
  /\ UNCHANGED rules

\* effective_photo_level: the row is loaded; then folder_acl, then root_acl.
OneBegin(p) == Begin("one", "folder", {p})

OneFolder ==
  /\ check.op = "one" /\ check.pc = "folder"
  /\ \E p \in check.of :
       IF check.admin \/ check.vis[p] = "private"
         THEN Answer({p}, LAMBDA q : Resolve(q, check.admin, check.vis[q], None, None))
       ELSE \E m \in MatchingFolderLevels(p) :
              IF m = None THEN Go("root")
              ELSE Answer({p}, LAMBDA q : Resolve(q, FALSE, check.vis[q], m, None))

OneRoot ==
  /\ check.op = "one" /\ check.pc = "root"
  /\ Answer(check.of, LAMBDA q : Resolve(q, FALSE, check.vis[q], None, rootRule))

\* require_photo_ids_level: the rows, then a copy of root_acl, then of folder_acl.
BatchBegin(S) == S # {} /\ Begin("batch", "root", S)

BatchRoot ==
  /\ check.op = "batch" /\ check.pc = "root"
  /\ check' = [check EXCEPT !.pc = "rules", !.root = rootRule]
  /\ UNCHANGED rules

\* Mutant of BatchLevel: the copy knows nothing of the photos' visibility.
BatchLevelPlain(p) == Resolve(p, check.admin, "inherit", FolderMatch(p), check.root)

BatchLevel(p) == Resolve(p, check.admin, check.vis[p], FolderMatch(p), check.root)

BatchRules ==
  /\ check.op = "batch" /\ check.pc = "rules"
  /\ Answer(check.of, BatchLevel)

\* apply_visible_photo_filter: without a folder rule the hidden roots are looked up
\* and the query compares visibility alone.
ListBegin == Begin("list", "rules", Photos)

ListRules ==
  /\ check.op = "list" /\ check.pc = "rules"
  /\ check' = [check EXCEPT !.plain = \A f \in Folders : ~Ruled(f),
                            !.pc = IF \A f \in Folders : ~Ruled(f) THEN "root" ELSE "query"]
  /\ UNCHANGED rules

ListRoot ==
  /\ check.op = "list" /\ check.pc = "root"
  /\ check' = [check EXCEPT !.pc = "query", !.root = rootRule]
  /\ UNCHANGED rules

\* Mutant of Shown: a public photo of a hidden root is left out.
ShownIfReached(p, acl) ==
  \/ visibility[p] = "private" /\ p \in Mine
  \/ visibility[p] # "private" /\ acl # "hidden"

Shown(p, acl) ==
  \/ visibility[p] = "public"
  \/ visibility[p] = "private" /\ p \in Mine
  \/ visibility[p] = "inherit" /\ acl # "hidden"

ListQuery ==
  /\ check.op = "list" /\ check.pc = "query"
  /\ \E choice \in [Photos -> Levels \cup {None}] :
       LET acl(p) == IF check.plain THEN check.root
                     ELSE IF choice[p] # None THEN choice[p] ELSE rootRule
       IN /\ \A p \in Photos : choice[p] \in MatchingFolderLevels(p)
          /\ Answer({p \in Photos : check.admin \/ Shown(p, acl(p))}, LAMBDA p : "read")

End ==
  /\ check # Idle /\ check.pc = "done"
  /\ check' = Idle /\ UNCHANGED rules

-------------------------------------------------------------------------------
(***************************************************************************)
(* Edits.  Those who may make them are checked elsewhere.                  *)
(***************************************************************************)
\* set_root_acl and delete_root_acl (None).
SetRootAcl(l) ==
  /\ rootRule # l /\ rootRule' = l
  /\ UNCHANGED <<admin, visibility, folderRule, check>>

\* set_folder_acl and delete_folder_acl.
SetFolderAcl(f, l) ==
  /\ folderRule[f] # l /\ folderRule' = [folderRule EXCEPT ![f] = l]
  /\ UNCHANGED <<admin, visibility, rootRule, check>>

SetVisibility(p, v) ==
  /\ visibility[p] # v /\ visibility' = [visibility EXCEPT ![p] = v]
  /\ UNCHANGED <<admin, rootRule, folderRule, check>>

SetAdmin ==
  /\ admin' = ~admin
  /\ UNCHANGED <<visibility, rootRule, folderRule, check>>

-------------------------------------------------------------------------------
Steps ==
  \/ ListBegin \/ \E p \in Photos : OneBegin(p)
  \/ \E S \in SUBSET Photos : BatchBegin(S)
  \/ OneFolder \/ OneRoot \/ BatchRoot \/ BatchRules
  \/ ListRules \/ ListRoot \/ ListQuery \/ End

Edits ==
  \/ SetAdmin \/ \E l \in Levels \cup {None} : SetRootAcl(l)
  \/ \E f \in Folders, l \in Levels \cup {None} : SetFolderAcl(f, l)
  \/ \E p \in Photos, v \in Visibility : SetVisibility(p, v)

\* What is history of a check is kept while there is one.
History ==
  IF check' = Idle THEN moved' = {} /\ seen' = [p \in Photos |-> {}]
  ELSE /\ seen' = [p \in Photos |-> seen[p] \cup LevelsOf(p)']
       /\ moved' = moved \cup {t \in {"users"} : admin' # admin}
                         \cup {t \in {"photos"} : visibility' # visibility}
                         \cup {t \in {"root_acl"} : rootRule' # rootRule}
                         \cup {t \in {"folder_acl"} : folderRule' # folderRule}

Next == (Steps \/ Edits) /\ History

Spec == Init /\ [][Next]_vars

-------------------------------------------------------------------------------
\* A rule of a folder whose name only looks like that of the photo's.
Mistaken(p) ==
  \E f \in Folders : Like(f, Home[p]) /\ ~IsPrefix(f, Home[p])

\* The guard of one photo, the guard of a batch and the filter of the lists agree:
\* each answers with a level the photo had at some moment of the check, whatever
\* rule was edited meanwhile.  Only when two tables change under one check (the root
\* is hidden just before a folder's rule goes, say) may it see neither rule.
AnswersHeld ==
  check # Idle /\ check.pc = "done" =>
    \A p \in check.of :
      \/ Cardinality(moved) >= 2
      \/ Mistaken(p)
      \/ IF check.op = "list"
           THEN \E l \in seen[p] : (check.answer[p] = "hidden") <=> (l = "hidden")
           ELSE check.answer[p] \in seen[p]
===============================================================================
