------------------------------- MODULE MCServices -------------------------------
(***************************************************************************)
(* A small instance of Services.  Its parts share no state, so one run     *)
(* checks them side by side: an execution is of one of them (`focus'), and *)
(* the others stay in their initial states.                                *)
(***************************************************************************)
EXTENDS Services, SequencesExt, TLC

CONSTANTS
  v1, v2, pic, film, doc, u, bob,        \* Shares
  b1, b2,                                \* Accounts, and the sessions of the others
  p1, p2                                 \* Acl, and the photo of Metadata and Classify

VARIABLE focus

MCReadable == [x \in Owners |-> Items]
Term(e, c, s, p) == [expiry |-> e, revoked |-> FALSE, pw |-> p, cap |-> c, strip |-> s]
MCOffers == {Term("later", 1, FALSE, FALSE), Term("never", NoCap, TRUE, TRUE)}
MCCaps == {0, 1}

MCPathOf      == p1 :> <<"a", "b", "x">> @@ p2 :> <<"A", "x">>
MCRuleFolders == {<<"a">>, <<"a", "b">>}
MCSimilar     == {<<"a", "A">>, <<"A", "a">>}

Picture(r, f, o, y, l, s) ==
  [root |-> r, folder |-> f, owner |-> o, year |-> y, live |-> l, sha |-> s]
MCOrigin == <<Picture("home", <<"a">>, "kim", 2, FALSE, "s1"),
                 Picture("home", <<"a", "b">>, "me", 1, TRUE, "s2"),
                 Picture("other", <<"a">>, "me", 2, FALSE, "s1"),
                 Picture("home", <<>>, "kim", 0, FALSE, "s3"),
                 Picture("other", <<>>, "kim", 1, FALSE, "s3")>>
Shot(t, x, w, g) ==
  [status |-> "active", vis |-> "inherit", thumb |-> t, place |-> x, text |-> w, tags |-> g]
MCTables ==
  {<<Shot(TRUE, 2, "none", {<<"user", "cat">>}), Shot(TRUE, 1, "none", {}),
     Shot(FALSE, 0, "some", {}), Shot(TRUE, -1, "pending", {<<"auto", "cat">>}),
     [Shot(TRUE, 1, "pending", {<<"auto", "cat">>}) EXCEPT !.status = "trashed"]>>}
Plain == [root |-> {"home", "other"}, folder |-> <<>>, live |-> FALSE, year |-> 0..2,
          owner |-> {"kim", "me"}, gps |-> "all", text |-> "all", tag |-> "all"]
Narrow == [Plain EXCEPT !.gps = "some", !.text = "none", !.live = TRUE, !.root = {"home"},
                        !.folder = <<"a">>]
MCFilters == {Plain, Narrow}

Retry(s, b, f) == [stages |-> s, by |-> b, filter |-> f]
MCWalk == <<"objects", "faces">>
MCRetries == {Retry({"objects"}, "columns", "failed"), Retry({"ocr"}, "columns", "pending"),
              Retry({"objects", "faces"}, "rollup", "all")}

MCInit ==
  /\ ServicesInit
  /\ focus \in {"shares", "accounts", "acl", "metadata", "gallery", "classify"}
  /\ focus # "acl" => ~admin
  /\ focus # "metadata" =>
       photoFile[p1].tags.gps = Tagging!None /\ photoFile[p1].tags.taken = "noon"
  /\ focus # "gallery" => screen.filter = Plain
  /\ focus # "classify" => images = {} /\ hashed = {}

MCNext ==
  \/ focus = "shares" /\ Next
     /\ UNCHANGED <<focus, signingVars, accessVars, taggingVars, browsingVars, visionVars>>
  \/ focus = "accounts" /\ Signing!Next
     /\ UNCHANGED <<focus, vars, accessVars, taggingVars, browsingVars, visionVars>>
  \/ focus = "acl" /\ Access!Next
     /\ UNCHANGED <<focus, vars, signingVars, taggingVars, browsingVars, visionVars>>
  \/ focus = "metadata" /\ Tagging!Next
     /\ UNCHANGED <<focus, vars, signingVars, accessVars, browsingVars, visionVars>>
  \/ focus = "gallery" /\ Browsing!Next
     /\ UNCHANGED <<focus, vars, signingVars, accessVars, taggingVars, visionVars>>
  \/ focus = "classify" /\ Vision!Next
     /\ UNCHANGED <<focus, vars, signingVars, accessVars, taggingVars, browsingVars>>

MCSpec == MCInit /\ [][MCNext]_<<focus, servicesVars>>

\* Bounds.  A response is taken before anything else happens; visits overlap on two links
\* unless one was edited; passwords are guessed at while there is one link, before it was
\* edited or is being purged.
SharesBound ==
  /\ \A v \in Visits : visit[v].pc = "sent" => visit'[v] = NoVisit
  /\ created' = 2 /\ edits' > 0 => \E v \in Visits : visit'[v] = NoVisit
  /\ created' = 2 \/ edits' > 0 \/ purge'[u].pc = "delete" =>
       \A t \in 1..MaxToken : wrong'[t][bob] = 0 /\ t \notin cookie'[bob]

\* A browser's requests are served one at a time, and those of two browsers once a third
\* password was hashed or failed.
AccountsBound ==
  /\ fails' + hashes' <= 3
  /\ fails' + hashes' = 3 => \E r \in Browsers : request'[r] = Signing!NoRequest
  /\ \A r \in Browsers : request'[r] # Signing!NoRequest => request'[r].by = r

\* One table is edited once during a check.
AclBound ==
  /\ check # Access!Idle /\ check' # Access!Idle /\ Access!rules' # Access!rules =>
       moved' # moved /\ Cardinality(moved') <= 1 /\ check.pc # "done"
  /\ visibility'[p2] = "inherit"

\* Sessions overlap on the first two versions of a file, until the row knows the second
\* (unless its time was set) or one of them has gone astray.
MetadataBound ==
  LET version == photoFile'[p1].version
  IN /\ (\A s \in Browsers : editor'[s] # Tagging!Idle) =>
          version <= 1 /\ stale[p1] = {} /\ (photoRow'[p1].sig = 0 \/ photoRow'[p1].original # Tagging!None)
     /\ version = 2 => stale[p1] = {}

\* The library changes in all ways before the timeline is drawn; afterwards photos are
\* trashed and restored, and one root is hidden.  A torn timeline that cannot start anew
\* is not followed.
GalleryBound ==
  /\ ~(screen.torn /\ screen.age = 1)
  /\ screen' # screen \/ calls' # calls =>
       veiled' \subseteq {"home"} /\ \E t \in MCTables :
         \A p \in 1..5 : table'[p] = [t[p] EXCEPT !.status = table'[p].status]

\* One photo is asked for twice, or once with a fault; twice with a fault where one job
\* runs and the retries and photo_work are not in it.
ClassifyBound ==
  asks' + faults' = 3 => /\ \A r \in DOMAIN retry : retry'[r] = Vision!IdleRetry
                         /\ work'[p1] = "none" /\ \E t \in Threads : thread'[t] = Vision!Idle

Bound == CASE focus = "shares" -> SharesBound
           [] focus = "accounts" -> AccountsBound
           [] focus = "acl" -> AclBound
           [] focus = "metadata" -> MetadataBound
           [] focus = "gallery" -> GalleryBound
           [] focus = "classify" -> ClassifyBound

Symmetry == Permutations(Visits) \cup Permutations(Browsers)
===============================================================================
