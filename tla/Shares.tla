--------------------------------- MODULE Shares ---------------------------------
(***************************************************************************)
(* Public share links: their rows, the owners' edits, the purge of links   *)
(* that can no longer be used, and the visits that download through them.  *)
(*                                                                         *)
(* A visit reads the row of its link once.  Between that read, the UPDATE  *)
(* that takes a download slot and the response, owners and other visits    *)
(* work on the same row, and ids of deleted rows are given to new links.   *)
(***************************************************************************)
EXTENDS Integers, FiniteSets

CONSTANTS
  Photos,    \* items whose original may carry a location
  Files,     \* items of the files domain
  Videos,    \* photos whose location cannot be removed
  Proxied,   \* videos that may have a metadata-free proxy: the worker makes and evicts it
  Owners,    \* signed-in users
  Admins,
  Readable,  \* Readable[u]: the items that u's access rules let u read
  Offers,    \* the terms a link may be created with
  Caps,      \* the caps a link may be given later, NoCap among them
  Passwords, \* whether a link may later get a password, or lose it
  Visits,    \* threads that serve requests on links
  Visitors,  \* browsers, each with its session cookie
  MaxId,     \* bound: links have ids 1..MaxId
  MaxToken,  \* bound: links ever created
  MaxEdits,  \* bound: changes to links and items
  MaxCount,  \* bound: downloads of one link
  PerIp,     \* _UNLOCK_MAX_PER_IP
  PerToken   \* _UNLOCK_MAX_PER_TOKEN

Items == Photos \cup Files
Ids   == 1..MaxId
NoCap == 0
None  == "none"
Star  == "*"      \* stands for every browser

Terms    == [expiry : {"never", "later", "past"}, revoked : BOOLEAN, pw : BOOLEAN,
             cap : Nat, strip : BOOLEAN]
ASSUME SharesAssumption ==
  /\ None \notin Items
  /\ Photos \cap Files = {}
  /\ Videos \subseteq Photos /\ Proxied \subseteq Videos
  /\ Admins \subseteq Owners
  /\ Readable \in [Owners -> SUBSET Items]
  /\ Offers \subseteq Terms
  /\ Caps \subseteq Nat /\ Passwords \subseteq BOOLEAN
  /\ IsFiniteSet(Visits) /\ Star \notin Visitors
  /\ {MaxId, MaxToken, MaxEdits, MaxCount, PerIp} \subseteq Nat /\ PerToken \in Nat \ {0}

VARIABLES
  shares,   \* the table, with its items and the legacy photo_id
  item,     \* each item: its row's status, and whether its file is there
  visit,    \* each thread's request
  cookie,   \* the links each browser's session has unlocked
  wrong,    \* _unlock_failures: wrong passwords of each link in the current windows, of
            \* each browser and of all
  purge,    \* each user's purge of inactive links
  created,  \* links created so far; a token is its link's number
  edits     \* changes made so far, for the bound

vars == <<shares, item, visit, cookie, wrong, purge, created, edits>>

\* `steady', `reused' are history: the cap is the one the link was created with,
\* and a visit to an earlier link with this id was under way at the creation.
Link == [token : 1..MaxToken, owner : Owners, items : SUBSET Items,
         legacy : Items \cup {None}, terms : Terms, count : Nat,
         steady : BOOLEAN, reused : BOOLEAN]
NoLink == [token |-> 0]

Routes    == {"original", "file", "zip", "video", "unlock"}
Downloads == {"original", "file", "zip"}

\* `open' is history: the link, or another one its id was given to, did not promise
\* to remove locations at some moment of the visit.
Request == [pc : {"read", "consume", "send"}, route : Routes, by : Visitors,
            id : Ids, terms : Terms, items : SUBSET Items, jar : SUBSET (1..MaxToken),
            token : 1..MaxToken, data : SUBSET (Items \X {"raw", "clean"}),
            open : BOOLEAN]
Answer  == [pc : {"sent"}, id : {0}, data : SUBSET (Items \X {"raw", "clean"}),
            open : BOOLEAN]
NoVisit == [pc |-> "idle", id |-> 0]
NoPurge == [pc |-> "idle"]

Present(i) == shares[i] # NoLink
OnDisk(x)  == item[x] = "active"

TypeOK ==
  /\ shares \in [Ids -> Link \cup {NoLink}]
  /\ \A i, j \in Ids : Present(i) /\ i # j => shares[i].token # shares[j].token
  /\ item \in [Items -> {"active", "lost", "trashed", "gone"}]
  /\ \A i \in Ids : Present(i) => \A x \in shares[i].items : item[x] # "gone"
  /\ visit \in [Visits -> Request \cup Answer \cup {NoVisit}]
  /\ cookie \in [Visitors -> SUBSET (1..MaxToken)]
  /\ wrong \in [1..MaxToken -> [Visitors \cup {Star} -> Nat]]
  /\ purge \in [Owners -> {NoPurge} \cup
                  [pc : {"delete"}, saw : SUBSET (Ids \X (1..MaxToken) \X Terms)]]
  /\ created \in 0..MaxToken
  /\ edits \in 0..MaxEdits

Init ==
  /\ shares = [i \in Ids |-> NoLink]
  /\ item = [x \in Items |-> "active"]
  /\ visit = [v \in Visits |-> NoVisit]
  /\ cookie = [b \in Visitors |-> {}]
  /\ wrong = [t \in 1..MaxToken |-> [b \in Visitors \cup {Star} |-> 0]]
  /\ purge = [u \in Owners |-> NoPurge]
  /\ created = 0
  /\ edits = 0

-------------------------------------------------------------------------------
(***************************************************************************)
(* Owners: create, edit, revoke and delete links.                          *)
(***************************************************************************)
Edited == edits < MaxEdits /\ edits' = edits + 1

\* SQLite gives a new row the id after the largest in use.
NextId(i) == ~Present(i) /\ \A j \in Ids : Present(j) <=> j < i

InFlight(i) == \E v \in Visits : visit[v].id = i

\* Visits in flight live through a link that stops promising to remove locations.
Opened(i, terms) ==
  visit' = [v \in Visits |-> IF visit[v].id = i /\ ~terms.strip
                               THEN [visit[v] EXCEPT !.open = TRUE] ELSE visit[v]]

\* _create_share_for_ids and create_file_share: every item is checked.
Create(u, S, first, terms) ==
  /\ created < MaxToken
  /\ S # {} /\ S \subseteq Readable[u]
  /\ \/ S \subseteq Photos /\ first \in S /\ \A x \in S : item[x] # "gone"
     \/ /\ S \subseteq Files /\ first = None /\ ~terms.strip
        /\ \A x \in S : item[x] \in {"active", "lost"}
  /\ created' = created + 1
  /\ \E i \in Ids :
       /\ NextId(i)
       /\ shares' = [shares EXCEPT ![i] =
            [token |-> created', owner |-> u, items |-> S, legacy |-> first,
             terms |-> terms, count |-> 0, steady |-> TRUE, reused |-> InFlight(i)]]
       /\ Opened(i, terms)
  /\ UNCHANGED <<item, cookie, wrong, purge, edits>>

\* create_share_from_folder: the photos that are active now, the newest first.
CreateFromFolder(u, terms) ==
  LET S == {x \in Photos : item[x] \in {"active", "lost"}}
  IN \E first \in S : Create(u, S, first, terms)

MayEdit(u, i) == Present(i) /\ (u \in Admins \/ shares[i].owner = u)

\* A patch names the fields it changes; a cap of zero lifts the cap.
Patch(u, i, terms) ==
  /\ MayEdit(u, i) /\ ~shares[i].terms.revoked /\ ~terms.revoked
  /\ terms # shares[i].terms
  /\ shares' = [shares EXCEPT ![i].terms = terms,
                              ![i].steady = @ /\ terms.cap = shares[i].terms.cap]
  /\ Opened(i, terms)
  /\ UNCHANGED <<item, cookie, wrong, purge, created>>
  /\ Edited

Revoke(u, i) ==
  /\ MayEdit(u, i) /\ ~shares[i].terms.revoked
  /\ shares' = [shares EXCEPT ![i].terms.revoked = TRUE]
  /\ UNCHANGED <<item, visit, cookie, wrong, purge, created>>
  /\ Edited

HardDelete(u, i) ==
  /\ MayEdit(u, i)
  /\ shares' = [shares EXCEPT ![i] = NoLink]
  /\ UNCHANGED <<item, visit, cookie, wrong, purge, created, edits>>

-------------------------------------------------------------------------------
(***************************************************************************)
(* purge_inactive reads raw columns, decides in Python and deletes by id.  *)
(***************************************************************************)
Live(i)      == ~shares[i].terms.revoked /\ shares[i].terms.expiry # "past"
Exhausted(i) == shares[i].terms.cap # NoCap /\ shares[i].count >= shares[i].terms.cap
Usable(i)    == Live(i) /\ ~Exhausted(i)

\* Mutant of Inactive: a link one download before its cap counts as used up.
InactiveEarly(u) ==
  {i \in Ids : /\ MayEdit(u, i)
               /\ ~Live(i) \/ (shares[i].terms.cap # NoCap
                                 /\ shares[i].count + 1 >= shares[i].terms.cap)}

Inactive(u) == {i \in Ids : MayEdit(u, i) /\ ~Usable(i)}

PurgeSelect(u) ==
  /\ purge[u] = NoPurge /\ Inactive(u) # {}
  /\ purge' = [purge EXCEPT ![u] =
       [pc |-> "delete", saw |-> {<<i, shares[i].token, shares[i].terms>> : i \in Inactive(u)}]]
  /\ UNCHANGED <<shares, item, visit, cookie, wrong, created, edits>>

PurgeDelete(u) ==
  /\ purge[u].pc = "delete"
  /\ shares' = [i \in Ids |-> IF \E e \in purge[u].saw : e[1] = i THEN NoLink ELSE shares[i]]
  /\ purge' = [purge EXCEPT ![u] = NoPurge]
  /\ UNCHANGED <<item, visit, cookie, wrong, created, edits>>

-------------------------------------------------------------------------------
(***************************************************************************)
(* What happens to links and items elsewhere.                              *)
(***************************************************************************)
Expire(i) ==
  /\ Present(i) /\ shares[i].terms.expiry = "later"
  /\ shares' = [shares EXCEPT ![i].terms.expiry = "past"]
  /\ UNCHANGED <<item, visit, cookie, wrong, purge, created>>
  /\ Edited

\* A file is moved away or to the trash, or comes back.
Change(x, s) ==
  /\ <<item[x], s>> \in {<<"active", "lost">>, <<"active", "trashed">>,
                         <<"lost", "active">>, <<"trashed", "active">>}
  /\ item' = [item EXCEPT ![x] = s]
  /\ UNCHANGED <<shares, visit, cookie, wrong, purge, created>>
  /\ Edited

\* Mutant of Erase: the foreign keys do nothing.
EraseAlone(x) ==
  /\ item[x] = "trashed"
  /\ item' = [item EXCEPT ![x] = "gone"]
  /\ UNCHANGED <<shares, visit, cookie, wrong, purge, created, edits>>

\* A row goes: the foreign keys take it off its links, and take the links whose
\* legacy photo_id it is.
Erase(x) ==
  /\ item[x] = "trashed"
  /\ item' = [item EXCEPT ![x] = "gone"]
  /\ shares' = [i \in Ids |->
       IF ~Present(i) \/ shares[i].legacy = x THEN NoLink
       ELSE [shares[i] EXCEPT !.items = @ \ {x}]]
  /\ UNCHANGED <<visit, cookie, wrong, purge, created, edits>>

-------------------------------------------------------------------------------
(***************************************************************************)
(* Visits.                                                                 *)
(***************************************************************************)
Unlocked(b, i) == shares[i].terms.pw => shares[i].token \in cookie[b]

\* The items a route works on: one photo or file of the link, or, for the zip,
\* those of its photos that are not in the trash.
Asked(i, route) ==
  LET live == {x \in shares[i].items \cap Photos : item[x] \in {"active", "lost"}}
  IN CASE route = "original" -> {{x} : x \in live}
       [] route = "video"    -> {{x} : x \in live \cap Videos}
       [] route = "file"     -> {{x} : x \in shares[i].items \cap Files}
       [] route = "zip"      -> {live} \ {{}}
       [] OTHER              -> {{}}

\* _resolve, _is_unlocked and the checks that the item is the link's.
Resolve(v, b, i, route) ==
  /\ visit[v] = NoVisit
  /\ Present(i) /\ Live(i) /\ shares[i].count < MaxCount
  /\ IF route = "unlock" THEN shares[i].terms.pw ELSE Unlocked(b, i)
  /\ \E S \in Asked(i, route) :
       visit' = [visit EXCEPT ![v] =
         [pc |-> IF route = "zip" THEN "consume" ELSE "read", route |-> route, by |-> b,
          id |-> i, terms |-> shares[i].terms, items |-> S, jar |-> cookie[b],
          token |-> shares[i].token, data |-> {},
          open |-> ~shares[i].terms.strip]]
  /\ UNCHANGED <<shares, item, cookie, wrong, purge, created, edits>>

\* The response leaves with the data d.  A refusal sends none; a slot that was
\* taken stays taken.
Sent(v, d) == visit' = [visit EXCEPT ![v] = [pc |-> "sent", id |-> 0, data |-> d,
                                             open |-> visit[v].open]]
Refuse(v) == Sent(v, {})

Kind(x, strip) == IF strip /\ x \in Photos THEN "clean" ELSE "raw"

\* Mutant of Prepared: a video goes out as it is.
PreparedRaw(S, strip) ==
  {<<x, IF x \in Videos THEN "raw" ELSE Kind(x, strip)>> : x \in {y \in S : OnDisk(y)}}

\* The files that are there, scrubbed if the link promises it; a video cannot be
\* and is left out.
Prepared(S, strip) ==
  {<<x, Kind(x, strip)>> : x \in {y \in S : OnDisk(y) /\ ~(strip /\ y \in Videos)}}

\* get_share_original and get_share_file look for the file and scrub it first:
\* a refused file takes no slot.
Prepare(v) ==
  LET d == Prepared(visit[v].items, visit[v].terms.strip)
  IN /\ visit[v].pc = "read" /\ visit[v].route \in {"original", "file"}
     /\ IF d = {} THEN Refuse(v)
        ELSE visit' = [visit EXCEPT ![v].pc = "consume", ![v].data = d]
     /\ UNCHANGED <<shares, item, cookie, wrong, purge, created, edits>>

\* A proxy carries no location; the original is played if it need not be scrubbed.
Play(v) ==
  /\ visit[v].pc = "read" /\ visit[v].route = "video"
  /\ \E x \in visit[v].items :
       \/ x \in Proxied /\ Sent(v, {<<x, "clean">>})
       \/ (visit[v].terms.strip \/ ~OnDisk(x)) /\ Refuse(v)
       \/ ~visit[v].terms.strip /\ OnDisk(x) /\ Sent(v, {<<x, "raw">>})
  /\ UNCHANGED <<shares, item, cookie, wrong, purge, created, edits>>

\* Mutant of Granted: the row's cap is not looked at, as before the fix.
GrantedUnchecked(v) == Present(visit[v].id)

\* The UPDATE of _atomic_consume_download.  Whether it compares with the cap is
\* decided by the row as the visit read it; no count is below a cap that is NULL.
Granted(v) ==
  LET i == visit[v].id
  IN /\ Present(i)
     /\ visit[v].terms.cap # NoCap =>
          shares[i].terms.cap # NoCap /\ shares[i].count < shares[i].terms.cap

Consume(v) ==
  /\ visit[v].pc = "consume"
  /\ IF Granted(v)
       THEN /\ shares' = [shares EXCEPT ![visit[v].id].count = @ + 1]
            /\ visit' = [visit EXCEPT ![v].pc = "send"]
       ELSE Refuse(v) /\ UNCHANGED shares
  /\ UNCHANGED <<item, cookie, wrong, purge, created, edits>>

\* The zip picks its members after it has paid, and reads strip_exif again; a
\* row that is gone by then is an error.
ZipMembers(v) ==
  LET i == visit[v].id
  IN /\ visit[v].pc = "send" /\ visit[v].route = "zip"
     /\ IF ~Present(i) \/ \E x \in visit[v].items : item[x] = "gone" THEN Refuse(v)
        ELSE Sent(v, Prepared(visit[v].items, shares[i].terms.strip))
     /\ UNCHANGED <<shares, item, cookie, wrong, purge, created, edits>>

\* A scrubbed copy is in memory; an original is opened by the response.
Send(v) ==
  /\ visit[v].pc = "send" /\ visit[v].route # "zip"
  /\ IF \A d \in visit[v].data : d[2] = "clean" \/ OnDisk(d[1])
       THEN Sent(v, visit[v].data)
       ELSE Refuse(v)
  /\ UNCHANGED <<shares, item, cookie, wrong, purge, created, edits>>

\* Mutant of Throttled: one attempt more than the limits is let through.
ThrottledLate(t, b) ==
  wrong[t][b] > PerIp \/ wrong[t][Star] > PerToken

\* Two sliding windows: of the link and this browser, and of the link.
Throttled(t, b) ==
  wrong[t][b] >= PerIp \/ wrong[t][Star] >= PerToken

\* The throttle lets the attempt go on to bcrypt, or answers 429.
Attempt(v) ==
  /\ visit[v].pc = "read" /\ visit[v].route = "unlock"
  /\ IF Throttled(visit[v].token, visit[v].by) THEN Refuse(v)
     ELSE visit' = [visit EXCEPT ![v].pc = "send"]
  /\ UNCHANGED <<shares, item, cookie, wrong, purge, created, edits>>

\* A wrong password counts in both windows; a right one is put in the session
\* that came with the request.
Verify(v, right) ==
  LET t == visit[v].token  b == visit[v].by
  IN /\ visit[v].pc = "send" /\ visit[v].route = "unlock"
     /\ IF right
          THEN cookie' = [cookie EXCEPT ![b] = visit[v].jar \cup {t}] /\ UNCHANGED wrong
          ELSE wrong' = [wrong EXCEPT ![t][b] = @ + 1, ![t][Star] = @ + 1] /\ UNCHANGED cookie
     /\ Sent(v, {})
     /\ UNCHANGED <<shares, item, purge, created, edits>>

\* A failure leaves both windows.
Slide(t, b) ==
  /\ wrong[t][b] > 0 /\ wrong[t][Star] > 0
  /\ wrong' = [wrong EXCEPT ![t][b] = @ - 1, ![t][Star] = @ - 1]
  /\ UNCHANGED <<shares, item, visit, cookie, purge, created, edits>>

Leave(v) ==
  /\ visit[v].pc = "sent"
  /\ visit' = [visit EXCEPT ![v] = NoVisit]
  /\ UNCHANGED <<shares, item, cookie, wrong, purge, created, edits>>

-------------------------------------------------------------------------------
\* The terms a patch may leave a link with.
Patched(terms) ==
  {[terms EXCEPT !.cap = c] : c \in Caps} \cup
  {[terms EXCEPT !.strip = b] : b \in BOOLEAN} \cup
  {[terms EXCEPT !.pw = b] : b \in Passwords} \cup {[terms EXCEPT !.expiry = "never"]}

Edit(u) ==
  \/ \E S \in SUBSET Items, first \in Items \cup {None}, terms \in Offers :
       Create(u, S, first, terms)
  \/ \E terms \in Offers : CreateFromFolder(u, terms)
  \/ \E i \in Ids : \/ Revoke(u, i) \/ HardDelete(u, i)
                    \/ Present(i) /\ \E terms \in Patched(shares[i].terms) : Patch(u, i, terms)
  \/ PurgeSelect(u) \/ PurgeDelete(u)

Visiting(v) ==
  \/ \E b \in Visitors, i \in Ids, route \in Routes : Resolve(v, b, i, route)
  \/ Prepare(v) \/ Play(v) \/ Consume(v) \/ ZipMembers(v) \/ Send(v)
  \/ Attempt(v) \/ Leave(v)
  \/ \E right \in BOOLEAN : Verify(v, right)

Elsewhere ==
  \/ \E i \in Ids : Expire(i)
  \/ \E x \in Items : Erase(x) \/ \E s \in {"active", "lost", "trashed"} : Change(x, s)
  \/ \E t \in 1..MaxToken, b \in Visitors : Slide(t, b)

Next ==
  \/ \E u \in Owners : Edit(u)
  \/ \E v \in Visits : Visiting(v)
  \/ Elsewhere

Spec == Init /\ [][Next]_vars

-------------------------------------------------------------------------------
(***************************************************************************)
(* Properties.                                                             *)
(***************************************************************************)
\* A link whose cap nobody changed is downloaded at most that often, however its
\* visits overlap: what _atomic_consume_download is for.  (A visit to a deleted
\* link whose id the new one got may take one of its slots, or more.)
CapHolds ==
  \A i \in Ids : Present(i) /\ shares[i].steady /\ shares[i].terms.cap # NoCap =>
    shares[i].count <= shares[i].terms.cap \/ shares[i].reused

\* However many attempts overlap, the wrong passwords of a link in one window
\* exceed the limit by no more than the attempts that were past the check.
GuessesBounded ==
  \A t \in 1..MaxToken : wrong[t][Star] < PerToken + Cardinality(Visits)

\* Photos leave with their location only if the link did not promise to remove
\* it at some moment of the visit, whatever the route.
LocationsStay ==
  \A v \in Visits : visit[v].pc = "sent" =>
    \A x \in Photos : <<x, "raw">> \in visit[v].data => visit[v].open

\* A purge deletes a link that can be used only if its terms were changed, or its
\* id was given to another link, after the purge read it.
PurgeSpares ==
  [][\A u \in Owners : purge[u].pc = "delete" /\ purge'[u].pc = "idle" =>
       \A e \in purge[u].saw : LET i == e[1] IN
         Present(i) /\ Usable(i) => e # <<i, shares[i].token, shares[i].terms>>]_purge
===============================================================================
