------------------------------ MODULE PartsProofs -------------------------------
(***************************************************************************)
(* Proofs about four parts of Services, for all constants: public links,   *)
(* accounts and sessions, access levels, and what files say about photos.  *)
(* The largest two, classification and the timeline, and the whole are in  *)
(* ServicesProofs.  Of each part there is an inductive invariant, a lemma  *)
(* per action, and what follows.                                           *)
(***************************************************************************)
EXTENDS Services, FiniteSetTheorems, SequenceTheorems, WellFoundedInduction, TLAPS

-------------------------------------------------------------------------------
(***************************************************************************)
(* Links.  One is not downloaded more often than its cap allows, a         *)
(* location does not leave through one that promised to remove it, a purge *)
(* deletes none that can be used, and wrong passwords are bounded.  The    *)
(* invariant: what a visit read of its link is still true of the row under *)
(* that id, unless history says why not.                                   *)
(***************************************************************************)
\* A visit that may be counted knows the cap.
CapMatches ==
  \A v \in Visits, i \in Ids : Present(i) /\ visit[v].id = i =>
    ~shares[i].steady \/ shares[i].reused \/ visit[v].terms.cap = shares[i].terms.cap

\* As long as a visit's link has promised to remove locations, the visit knows it,
\* and so does whoever reads the row again.
PromiseKnown ==
  \A v \in Visits : visit[v].id \in Ids /\ ~visit[v].open =>
    /\ visit[v].terms.strip
    /\ Present(visit[v].id) => shares[visit[v].id].terms.strip

RawIsOpen ==
  \A v \in Visits : visit[v].pc # "idle" =>
    \A x \in Photos : <<x, "raw">> \in visit[v].data => visit[v].open

TokensIssued == \A i \in Ids : shares[i].token <= created

UsedUp(terms, n) ==
  terms.revoked \/ terms.expiry = "past" \/ (terms.cap # NoCap /\ n >= terms.cap)

\* A link a purge has read stays inactive on the terms it was read with.
SawInactive ==
  \A u \in Owners : purge[u].pc = "delete" =>
    \A e \in purge[u].saw :
      /\ e[2] <= created
      /\ Present(e[1]) /\ shares[e[1]].token = e[2] => UsedUp(e[3], shares[e[1]].count)

SInv == /\ TypeOK /\ TokensIssued /\ SawInactive
        /\ CapMatches /\ CapHolds /\ PromiseKnown /\ RawIsOpen

-------------------------------------------------------------------------------
VisitState == Request \cup Answer \cup {NoVisit}
PurgeState == {NoPurge} \cup [pc : {"delete"}, saw : SUBSET (Ids \X (1..MaxToken) \X Terms)]

LinksOK ==
  /\ shares \in [Ids -> Link \cup {NoLink}]
  /\ \A i, j \in Ids : Present(i) /\ i # j => shares[i].token # shares[j].token
  /\ \A i \in Ids : Present(i) => \A x \in shares[i].items : item[x] # "gone"

RestOK ==
  /\ item \in [Items -> {"active", "lost", "trashed", "gone"}]
  /\ cookie \in [Visitors -> SUBSET (1..MaxToken)]
  /\ wrong \in [1..MaxToken -> [Visitors \cup {Star} -> Nat]]
  /\ created \in 0..MaxToken
  /\ edits \in 0..MaxEdits

LEMMA TypeParts ==
  TypeOK <=> /\ LinksOK /\ RestOK
             /\ visit \in [Visits -> VisitState] /\ purge \in [Owners -> PurgeState]
  BY DEF TypeOK, LinksOK, RestOK, VisitState, PurgeState

LEMMA Zero == 0 \notin Ids /\ NoLink \notin Link /\ NoLink.token = 0
  BY DEF Ids, NoLink, Link

\* What a visit is, by its counter.
LEMMA Visited ==
  ASSUME NEW r \in VisitState
  PROVE  /\ r.id \in Ids \cup {0}
         /\ r.id \in Ids => r \in Request
         /\ r.pc \in {"read", "consume", "send"} => r \in Request
         /\ r.pc = "sent" => r \in Answer
  BY Zero DEF VisitState, Request, Answer, NoVisit

-------------------------------------------------------------------------------
(***************************************************************************)
(* Steps of one visit that leave the links alone.                          *)
(***************************************************************************)
LEMMA VisitMoves ==
  ASSUME SInv, NEW v \in Visits, NEW r \in VisitState, visit' = [visit EXCEPT ![v] = r],
         shares' = shares, item' = item, purge' = purge, created' = created,
         RestOK',
         r.id \in Ids => /\ r.id = visit[v].id /\ r.terms = visit[v].terms
                         /\ r.open = visit[v].open,
         r.pc # "idle" => \A x \in Photos : <<x, "raw">> \in r.data => r.open
  PROVE  SInv'
<1>1. LinksOK /\ visit \in [Visits -> VisitState] /\ purge \in [Owners -> PurgeState]
  BY TypeParts DEF SInv
<1>2. visit'[v] = r /\ \A w \in Visits : w # v => visit'[w] = visit[w]
  BY <1>1
<1>3. visit' \in [Visits -> VisitState] /\ LinksOK' /\ purge' \in [Owners -> PurgeState]
  BY <1>1 DEF LinksOK, Present
<1>4. TypeOK'
  BY <1>3 DEF TypeOK, LinksOK, RestOK, VisitState, PurgeState
<1>5. TokensIssued' /\ SawInactive' /\ CapHolds'
  BY DEF SInv, TokensIssued, SawInactive, CapHolds, Present
<1>6. CapMatches'
  BY <1>2 DEF SInv, CapMatches, Present
<1>7. PromiseKnown'
  BY <1>2 DEF SInv, PromiseKnown, Present
<1>8. RawIsOpen'
  BY <1>2 DEF SInv, RawIsOpen
<1>9. QED
  BY <1>4, <1>5, <1>6, <1>7, <1>8 DEF SInv

LEMMA VisitFacts ==
  ASSUME SInv, NEW v \in Visits
  PROVE  /\ RestOK /\ visit[v] \in VisitState
         /\ visit[v].pc \in {"read", "consume", "send"} =>
              /\ visit[v] \in Request /\ visit[v].id \in Ids /\ visit[v].id # 0
              /\ \A x \in Photos : <<x, "raw">> \in visit[v].data => visit[v].open
              /\ ~visit[v].open => visit[v].terms.strip
<1>1. RestOK /\ visit[v] \in VisitState
  BY TypeParts DEF SInv
<1>2. ASSUME visit[v].pc \in {"read", "consume", "send"}
      PROVE  visit[v] \in Request /\ visit[v].id \in Ids /\ visit[v].id # 0
  BY <1>1, <1>2, Visited, Zero DEF Request
<1>3. QED
  BY <1>1, <1>2 DEF SInv, RawIsOpen, PromiseKnown

\* What leaves with a response.
LEMMA SentState ==
  ASSUME SInv, NEW v \in Visits, visit[v].pc \in {"read", "consume", "send"},
         NEW d \in SUBSET (Items \X {"raw", "clean"}), Sent(v, d)
  PROVE  \E r \in VisitState :
           /\ visit' = [visit EXCEPT ![v] = r] /\ r.id \notin Ids
           /\ r.data = d /\ r.open = visit[v].open
<1> DEFINE r == [pc |-> "sent", id |-> 0, data |-> d, open |-> visit[v].open]
<1>1. r \in Answer
  BY VisitFacts DEF Request, Answer
<1>2. r \in VisitState /\ r.id \notin Ids
  BY <1>1, Zero DEF VisitState
<1>3. QED
  BY <1>2 DEF Sent

LEMMA SendsClean ==
  ASSUME SInv, NEW v \in Visits, visit[v].pc \in {"read", "consume", "send"},
         NEW d \in SUBSET (Items \X {"raw", "clean"}), Sent(v, d),
         \A x \in Photos : <<x, "raw">> \in d => visit[v].open,
         shares' = shares, item' = item, purge' = purge, created' = created,
         RestOK'
  PROVE  SInv'
<1>1. PICK r \in VisitState :
        /\ visit' = [visit EXCEPT ![v] = r] /\ r.id \notin Ids
        /\ r.data = d /\ r.open = visit[v].open
  BY SentState
<1>2. QED
  BY <1>1, VisitMoves

LEMMA Refusing ==
  ASSUME SInv, NEW v \in Visits, visit[v].pc \in {"read", "consume", "send"}, Refuse(v),
         shares' = shares, item' = item, purge' = purge, created' = created,
         RestOK'
  PROVE  SInv'
<1>1. {} \in SUBSET (Items \X {"raw", "clean"})
  OBVIOUS
<1>2. QED
  BY <1>1, SendsClean DEF Refuse

\* A scrubbing link sends photos without their locations.
LEMMA PreparedFacts ==
  ASSUME NEW S \in SUBSET Items, NEW strip \in BOOLEAN
  PROVE  /\ Prepared(S, strip) \in SUBSET (Items \X {"raw", "clean"})
         /\ strip => \A x \in Photos : <<x, "raw">> \notin Prepared(S, strip)
  BY DEF Prepared, Kind

LEMMA RestKept ==
  ASSUME RestOK, item' = item, cookie' = cookie, wrong' = wrong, created' = created,
         edits' = edits
  PROVE  RestOK'
  BY DEF RestOK

\* A visit goes on.
LEMMA GoesOn ==
  ASSUME SInv, NEW v \in Visits, visit[v].pc \in {"read", "consume", "send"},
         NEW pc \in {"read", "consume", "send"},
         NEW d \in SUBSET (Items \X {"raw", "clean"}),
         visit' = [visit EXCEPT ![v] = [visit[v] EXCEPT !.pc = pc, !.data = d]],
         \A x \in Photos : <<x, "raw">> \in d => visit[v].open,
         shares' = shares, item' = item, purge' = purge, created' = created,
         RestOK'
  PROVE  SInv'
<1> DEFINE r == [visit[v] EXCEPT !.pc = pc, !.data = d]
<1>1. visit[v] \in Request
  BY VisitFacts
<1>2. /\ r \in Request /\ r.id = visit[v].id /\ r.terms = visit[v].terms
      /\ r.open = visit[v].open /\ r.data = d
  BY <1>1 DEF Request
<1>3. r \in VisitState
  BY <1>2 DEF VisitState
<1> HIDE DEF r
<1>4. visit' = [visit EXCEPT ![v] = r]
  BY DEF r
<1>5. QED
  BY <1>2, <1>3, <1>4, VisitMoves

-------------------------------------------------------------------------------
LEMMA PrepareStep ==
  ASSUME SInv, NEW v \in Visits, Prepare(v)
  PROVE  SInv'
<1> DEFINE d == Prepared(visit[v].items, visit[v].terms.strip)
<1>1. /\ visit[v] \in Request /\ visit[v].pc \in {"read", "consume", "send"}
      /\ ~visit[v].open => visit[v].terms.strip
  BY VisitFacts DEF Prepare
<1>2. visit[v].items \in SUBSET Items /\ visit[v].terms.strip \in BOOLEAN
  BY <1>1 DEF Request, Terms
<1>3. /\ d \in SUBSET (Items \X {"raw", "clean"})
      /\ \A x \in Photos : <<x, "raw">> \in d => visit[v].open
  BY <1>1, <1>2, PreparedFacts
<1>4. RestOK'
  BY VisitFacts, RestKept DEF Prepare
<1>5. CASE Refuse(v)
  BY <1>1, <1>4, <1>5, Refusing DEF Prepare
<1>6. CASE visit' = [visit EXCEPT ![v].pc = "consume", ![v].data = d]
  <2> HIDE DEF d
  <2>1. visit' = [visit EXCEPT ![v] = [visit[v] EXCEPT !.pc = "consume", !.data = d]]
    BY <1>6, <1>1
  <2>2. QED
    BY <1>1, <1>3, <1>4, <2>1, GoesOn DEF Prepare
<1>7. QED
  BY <1>5, <1>6 DEF Prepare

LEMMA PlayStep ==
  ASSUME SInv, NEW v \in Visits, Play(v)
  PROVE  SInv'
<1>1. visit[v] \in Request /\ visit[v].pc \in {"read", "consume", "send"} /\ RestOK
  BY VisitFacts DEF Play
<1>2. visit[v].items \subseteq Items /\ RestOK'
  BY <1>1, RestKept DEF Play, Request
<1>3. CASE Refuse(v)
  BY <1>1, <1>2, <1>3, Refusing DEF Play
<1>4. ASSUME NEW x \in visit[v].items, Sent(v, {<<x, "clean">>})
      PROVE  SInv'
  <2>1. {<<x, "clean">>} \in SUBSET (Items \X {"raw", "clean"})
    BY <1>2, <1>4
  <2>2. \A y \in Photos : <<y, "raw">> \notin {<<x, "clean">>}
    OBVIOUS
  <2>3. QED
    BY <1>1, <1>2, <1>4, <2>1, <2>2, SendsClean DEF Play
<1>5. ASSUME NEW x \in visit[v].items, ~visit[v].terms.strip, Sent(v, {<<x, "raw">>})
      PROVE  SInv'
  <2>1. visit[v].open
    BY <1>1, <1>5, VisitFacts
  <2>2. {<<x, "raw">>} \in SUBSET (Items \X {"raw", "clean"})
    BY <1>2, <1>5
  <2>3. QED
    BY <1>1, <1>2, <1>5, <2>1, <2>2, SendsClean DEF Play
<1>6. QED
  BY <1>3, <1>4, <1>5 DEF Play

LEMMA SendStep ==
  ASSUME SInv, NEW v \in Visits, Send(v) \/ ZipMembers(v)
  PROVE  SInv'
<1>1. visit[v] \in Request /\ visit[v].pc \in {"read", "consume", "send"} /\ RestOK
  BY VisitFacts DEF Send, ZipMembers
<1>2. RestOK'
  BY <1>1, RestKept DEF Send, ZipMembers
<1>3. CASE Refuse(v)
  BY <1>1, <1>2, <1>3, Refusing DEF Send, ZipMembers
<1>4. CASE Send(v) /\ Sent(v, visit[v].data)
  <2>1. visit[v].data \in SUBSET (Items \X {"raw", "clean"})
    BY <1>1 DEF Request
  <2>2. QED
    BY <1>1, <1>2, <1>4, <2>1, SendsClean, VisitFacts DEF Send
<1>5. ASSUME ZipMembers(v), Present(visit[v].id),
             Sent(v, Prepared(visit[v].items, shares[visit[v].id].terms.strip))
      PROVE  SInv'
  <2> DEFINE i == visit[v].id
             d == Prepared(visit[v].items, shares[i].terms.strip)
  <2>1. visit[v].items \in SUBSET Items /\ i \in Ids
    BY <1>1, VisitFacts DEF Request
  <2>2. shares[i] \in Link
    BY <1>5, <2>1, TypeParts DEF SInv, LinksOK, Present
  <2>3. shares[i].terms.strip \in BOOLEAN
    BY <2>2 DEF Link, Terms
  <2>4. ~visit[v].open => shares[i].terms.strip
    BY <1>5, <2>1 DEF SInv, PromiseKnown
  <2>5. /\ d \in SUBSET (Items \X {"raw", "clean"})
        /\ \A x \in Photos : <<x, "raw">> \in d => visit[v].open
    BY <2>1, <2>3, <2>4, PreparedFacts
  <2> HIDE DEF d
  <2>6. Sent(v, d)
    BY <1>5 DEF d
  <2>7. QED
    BY <1>1, <1>2, <1>5, <2>5, <2>6, SendsClean DEF ZipMembers
<1>6. QED
  BY <1>3, <1>4, <1>5 DEF Send, ZipMembers

LEMMA AttemptStep ==
  ASSUME SInv, NEW v \in Visits, Attempt(v)
  PROVE  SInv'
<1>1. /\ visit[v] \in Request /\ visit[v].pc \in {"read", "consume", "send"}
      /\ \A x \in Photos : <<x, "raw">> \in visit[v].data => visit[v].open
  BY VisitFacts DEF Attempt
<1>2. RestOK'
  BY VisitFacts, RestKept DEF Attempt
<1>3. CASE Refuse(v)
  BY <1>1, <1>2, <1>3, Refusing DEF Attempt
<1>4. CASE visit' = [visit EXCEPT ![v].pc = "send"]
  <2> DEFINE d == visit[v].data
  <2>1. d \in SUBSET (Items \X {"raw", "clean"})
    BY <1>1 DEF Request
  <2>2. [visit[v] EXCEPT !.pc = "send"] = [visit[v] EXCEPT !.pc = "send", !.data = d]
    BY <1>1 DEF Request
  <2>3. visit' = [visit EXCEPT ![v] = [visit[v] EXCEPT !.pc = "send", !.data = d]]
    BY <1>4, <2>2
  <2> HIDE DEF d
  <2>4. \A x \in Photos : <<x, "raw">> \in d => visit[v].open
    BY <1>1 DEF d
  <2>5. QED
    BY <1>1, <1>2, <2>1, <2>3, <2>4, GoesOn DEF Attempt
<1>5. QED
  BY <1>3, <1>4 DEF Attempt

\* Both windows of a browser move by one.
LEMMA WindowsMove ==
  ASSUME wrong \in [1..MaxToken -> [Visitors \cup {Star} -> Nat]],
         NEW t \in 1..MaxToken, NEW b \in Visitors, NEW w
  PROVE  /\ w = [wrong EXCEPT ![t][b] = @ + 1, ![t][Star] = @ + 1] =>
              /\ w \in [1..MaxToken -> [Visitors \cup {Star} -> Nat]]
              /\ \A s \in 1..MaxToken :
                   w[s][Star] = IF s = t THEN wrong[s][Star] + 1 ELSE wrong[s][Star]
         /\ wrong[t][b] > 0 /\ wrong[t][Star] > 0
            /\ w = [wrong EXCEPT ![t][b] = @ - 1, ![t][Star] = @ - 1] =>
              /\ w \in [1..MaxToken -> [Visitors \cup {Star} -> Nat]]
              /\ \A s \in 1..MaxToken : w[s][Star] <= wrong[s][Star]
<1>1. b # Star /\ wrong[t] \in [Visitors \cup {Star} -> Nat]
  BY SharesAssumption
<1>2. ASSUME w = [wrong EXCEPT ![t][b] = @ + 1, ![t][Star] = @ + 1]
      PROVE  /\ w \in [1..MaxToken -> [Visitors \cup {Star} -> Nat]]
             /\ \A s \in 1..MaxToken :
                  w[s][Star] = IF s = t THEN wrong[s][Star] + 1 ELSE wrong[s][Star]
  <2> DEFINE g == [[wrong[t] EXCEPT ![b] = @ + 1] EXCEPT ![Star] = @ + 1]
  <2>1. g \in [Visitors \cup {Star} -> Nat] /\ g[Star] = wrong[t][Star] + 1
    BY <1>1
  <2>2. w = [wrong EXCEPT ![t] = g]
    BY <1>2
  <2> HIDE DEF g
  <2>3. QED
    BY <2>1, <2>2
<1>3. ASSUME wrong[t][b] > 0, wrong[t][Star] > 0,
             w = [wrong EXCEPT ![t][b] = @ - 1, ![t][Star] = @ - 1]
      PROVE  /\ w \in [1..MaxToken -> [Visitors \cup {Star} -> Nat]]
             /\ \A s \in 1..MaxToken : w[s][Star] <= wrong[s][Star]
  <2> DEFINE g == [[wrong[t] EXCEPT ![b] = @ - 1] EXCEPT ![Star] = @ - 1]
  <2>1. g \in [Visitors \cup {Star} -> Nat] /\ g[Star] <= wrong[t][Star]
    BY <1>1, <1>3
  <2>2. w = [wrong EXCEPT ![t] = g]
    BY <1>3
  <2> HIDE DEF g
  <2>3. \A s \in 1..MaxToken : wrong[s][Star] \in Nat
    OBVIOUS
  <2>4. QED
    BY <2>1, <2>2, <2>3
<1>4. QED
  BY <1>2, <1>3

LEMMA VerifyStep ==
  ASSUME SInv, NEW v \in Visits, NEW right \in BOOLEAN, Verify(v, right)
  PROVE  SInv'
<1> DEFINE t == visit[v].token
           b == visit[v].by
<1>1. visit[v] \in Request /\ visit[v].pc \in {"read", "consume", "send"} /\ RestOK
  BY VisitFacts DEF Verify
<1>2. t \in 1..MaxToken /\ b \in Visitors /\ visit[v].jar \subseteq 1..MaxToken
  BY <1>1 DEF Request
<1>3. cookie' \in [Visitors -> SUBSET (1..MaxToken)]
  <2>1. CASE cookie' = [cookie EXCEPT ![b] = visit[v].jar \cup {t}]
    BY <1>1, <1>2, <2>1 DEF RestOK
  <2>2. CASE cookie' = cookie
    BY <1>1, <2>2 DEF RestOK
  <2>3. QED
    BY <2>1, <2>2 DEF Verify
<1>4. wrong' \in [1..MaxToken -> [Visitors \cup {Star} -> Nat]]
  <2>1. CASE wrong' = wrong
    BY <1>1, <2>1 DEF RestOK
  <2>2. CASE wrong' = [wrong EXCEPT ![t][b] = @ + 1, ![t][Star] = @ + 1]
    <3> HIDE DEF t, b
    <3>1. wrong \in [1..MaxToken -> [Visitors \cup {Star} -> Nat]]
      BY <1>1 DEF RestOK
    <3>2. QED
      BY <1>2, <2>2, <3>1, WindowsMove
  <2>3. QED
    BY <2>1, <2>2 DEF Verify
<1>5. RestOK'
  BY <1>1, <1>3, <1>4 DEF Verify, RestOK
<1>6. QED
  BY <1>1, <1>5, Refusing DEF Verify, Refuse

LEMMA LeaveStep ==
  ASSUME SInv, NEW v \in Visits, Leave(v)
  PROVE  SInv'
<1>1. NoVisit \in VisitState /\ NoVisit.id \notin Ids /\ NoVisit.pc = "idle"
  BY Zero DEF NoVisit, VisitState
<1>2. RestOK'
  BY VisitFacts, RestKept DEF Leave
<1>3. QED
  BY <1>1, <1>2, VisitMoves DEF Leave

-------------------------------------------------------------------------------
(***************************************************************************)
(* A visit begins, and takes its slot.                                     *)
(***************************************************************************)
LEMMA ResolveStep ==
  ASSUME SInv, NEW v \in Visits, NEW b \in Visitors, NEW i \in Ids, NEW route \in Routes,
         Resolve(v, b, i, route)
  PROVE  SInv'
<1>1. LinksOK /\ RestOK /\ visit \in [Visits -> VisitState] /\ purge \in [Owners -> PurgeState]
  BY TypeParts DEF SInv
<1>2. shares[i] \in Link
  BY <1>1 DEF Resolve, LinksOK, Present
<1>3. PICK S \in Asked(i, route) :
        visit' = [visit EXCEPT ![v] =
          [pc |-> IF route = "zip" THEN "consume" ELSE "read", route |-> route, by |-> b,
           id |-> i, terms |-> shares[i].terms, items |-> S, jar |-> cookie[b],
           token |-> shares[i].token, data |-> {},
           open |-> ~shares[i].terms.strip]]
  BY DEF Resolve
<1> DEFINE r == [pc |-> IF route = "zip" THEN "consume" ELSE "read", route |-> route, by |-> b,
                 id |-> i, terms |-> shares[i].terms, items |-> S, jar |-> cookie[b],
                 token |-> shares[i].token, data |-> {},
                 open |-> ~shares[i].terms.strip]
<1>4. S \subseteq Items
  BY <1>2 DEF Asked, Link
<1>5. r \in Request
  BY <1>1, <1>2, <1>4 DEF Request, Link, RestOK
<1>6. /\ r \in VisitState /\ r.id = i /\ r.terms = shares[i].terms /\ r.data = {}
      /\ r.open = ~shares[i].terms.strip
  BY <1>5 DEF VisitState
<1> HIDE DEF r
<1>7. /\ visit' = [visit EXCEPT ![v] = r]
      /\ UNCHANGED <<shares, item, cookie, wrong, purge, created, edits>>
  BY <1>3 DEF Resolve, r
<1>8. visit'[v] = r /\ \A w \in Visits : w # v => visit'[w] = visit[w]
  BY <1>1, <1>7
<1>9. TypeOK'
  <2>1. LinksOK' /\ RestOK' /\ purge' \in [Owners -> PurgeState]
    BY <1>1, <1>7, RestKept DEF LinksOK, Present
  <2>2. visit' \in [Visits -> VisitState]
    BY <1>1, <1>6, <1>7
  <2>3. QED
    BY <2>1, <2>2 DEF TypeOK, LinksOK, RestOK, VisitState, PurgeState
<1>10. TokensIssued' /\ SawInactive' /\ CapHolds'
  BY <1>7 DEF SInv, TokensIssued, SawInactive, CapHolds, Present
<1>11. CapMatches'
  BY <1>6, <1>7, <1>8 DEF SInv, CapMatches, Present
<1>12. PromiseKnown'
  <2>1. shares[i].terms.strip \in BOOLEAN
    BY <1>2 DEF Link, Terms
  <2>2. QED
    BY <1>6, <1>7, <1>8, <2>1 DEF SInv, PromiseKnown, Present
<1>13. RawIsOpen'
  BY <1>6, <1>8 DEF SInv, RawIsOpen
<1>14. QED
  BY <1>9, <1>10, <1>11, <1>12, <1>13 DEF SInv

LEMMA ConsumeStep ==
  ASSUME SInv, NEW v \in Visits, Consume(v)
  PROVE  SInv'
<1> DEFINE i == visit[v].id
           r == [visit[v] EXCEPT !.pc = "send"]
<1>1. /\ visit[v] \in Request /\ visit[v].pc \in {"read", "consume", "send"}
      /\ i \in Ids /\ RestOK
  BY VisitFacts DEF Consume
<1>2. RestOK'
  BY <1>1, RestKept DEF Consume
<1>3. CASE ~Granted(v)
  BY <1>1, <1>2, <1>3, Refusing DEF Consume
<1>4. CASE Granted(v)
  <2>1. LinksOK /\ visit \in [Visits -> VisitState] /\ purge \in [Owners -> PurgeState]
    BY TypeParts DEF SInv
  <2>2. Present(i) /\ shares[i] \in Link
    BY <1>1, <1>4, <2>1 DEF Granted, LinksOK, Present
  <2> DEFINE link == [shares[i] EXCEPT !.count = @ + 1]
  <2>3. shares' = [shares EXCEPT ![i] = link] /\ visit' = [visit EXCEPT ![v] = r]
    BY <1>4 DEF Consume
  <2>4. /\ link \in Link /\ link.token = shares[i].token /\ link.items = shares[i].items
        /\ link.terms = shares[i].terms /\ link.steady = shares[i].steady
        /\ link.reused = shares[i].reused /\ link.count = shares[i].count + 1
    BY <2>2 DEF Link
  <2>5. /\ r \in VisitState /\ r.id = visit[v].id /\ r.terms = visit[v].terms
        /\ r.open = visit[v].open /\ r.data = visit[v].data /\ r.pc = "send"
    BY <1>1 DEF Request, VisitState
  <2> HIDE DEF link, r
  <2>6. shares'[i] = link /\ \A j \in Ids : j # i => shares'[j] = shares[j]
    BY <1>1, <2>1, <2>3 DEF LinksOK
  <2>7. visit'[v] = r /\ \A w \in Visits : w # v => visit'[w] = visit[w]
    BY <2>1, <2>3
  <2>8. \A j \in Ids : Present(j)' <=> Present(j)
    BY <2>2, <2>4, <2>6, Zero DEF Present
  <2>9. \A j \in Ids : /\ shares'[j].token = shares[j].token
                       /\ Present(j) => /\ shares'[j].items = shares[j].items
                                        /\ shares'[j].terms = shares[j].terms
                                        /\ shares'[j].steady = shares[j].steady
                                        /\ shares'[j].reused = shares[j].reused
    BY <2>4, <2>6
  <2>10. \A w \in Visits : /\ visit'[w].id = visit[w].id
                           /\ visit[w].id \in Ids => /\ visit'[w].terms = visit[w].terms
                                                     /\ visit'[w].open = visit[w].open
    BY <2>5, <2>7
  <2>11. TypeOK'
    <3>1. item' = item /\ purge' = purge
      BY DEF Consume
    <3>2. LinksOK'
      <4>1. shares' \in [Ids -> Link \cup {NoLink}]
        BY <1>1, <2>1, <2>3, <2>4 DEF LinksOK
      <4>2. \A j, k \in Ids : Present(j)' /\ j # k => shares'[j].token # shares'[k].token
        BY <2>1, <2>8, <2>9 DEF LinksOK
      <4>3. \A j \in Ids : Present(j)' => \A x \in shares'[j].items : item'[x] # "gone"
        BY <2>1, <2>8, <2>9, <3>1 DEF LinksOK
      <4>4. QED
        BY <4>1, <4>2, <4>3 DEF LinksOK
    <3>3. visit' \in [Visits -> VisitState]
      BY <2>1, <2>3, <2>5
    <3>4. QED
      BY <1>2, <2>1, <3>1, <3>2, <3>3 DEF TypeOK, LinksOK, RestOK, VisitState, PurgeState
  <2>12. TokensIssued'
    BY <2>9 DEF SInv, TokensIssued, Consume
  <2>13. SawInactive'
    <3>1. purge' = purge /\ created' = created
      BY DEF Consume
    <3>2. SUFFICES ASSUME NEW u \in Owners, purge[u].pc = "delete", NEW e \in purge[u].saw
                   PROVE  /\ e[2] <= created
                          /\ Present(e[1])' /\ shares'[e[1]].token = e[2] =>
                               UsedUp(e[3], shares'[e[1]].count)
      BY <3>1 DEF SawInactive
    <3>3. e[1] \in Ids /\ e[3] \in Terms
      BY <2>1, <3>2 DEF PurgeState, NoPurge
    <3>4. /\ e[2] <= created
          /\ Present(e[1]) /\ shares[e[1]].token = e[2] => UsedUp(e[3], shares[e[1]].count)
      BY <3>2 DEF SInv, SawInactive
    <3>5. Present(e[1]) => /\ shares[e[1]].count \in Nat
                           /\ \/ shares'[e[1]].count = shares[e[1]].count
                              \/ shares'[e[1]].count = shares[e[1]].count + 1
      BY <2>1, <2>4, <2>6, <3>3 DEF LinksOK, Present, Link
    <3>6. QED
      BY <2>8, <2>9, <3>3, <3>4, <3>5 DEF UsedUp, Terms
  <2>14. CapMatches'
    BY <2>8, <2>9, <2>10 DEF SInv, CapMatches
  <2>15. CapHolds'
    <3>1. SUFFICES ASSUME NEW j \in Ids, Present(j)', shares'[j].steady,
                          shares'[j].terms.cap # NoCap
                   PROVE  shares'[j].count <= shares'[j].terms.cap \/ shares'[j].reused
      BY DEF CapHolds
    <3>2. CASE j # i
      BY <2>6, <3>1, <3>2 DEF SInv, CapHolds, Present
    <3>3. CASE j = i
      <4>1. shares[i].count \in Nat /\ shares[i].terms.cap \in Nat
        BY <2>2 DEF Link, Terms
      <4>2. shares[i].reused \/ visit[v].terms.cap = shares[i].terms.cap
        BY <1>1, <2>2, <2>9, <3>1, <3>3 DEF SInv, CapMatches
      <4>3. shares[i].reused \/ shares[i].count < shares[i].terms.cap
        BY <1>4, <2>2, <2>9, <3>1, <3>3, <4>2 DEF Granted
      <4>4. QED
        BY <2>2, <2>4, <2>6, <3>3, <4>1, <4>3
    <3>4. QED
      BY <3>2, <3>3
  <2>16. PromiseKnown'
    BY <2>8, <2>9, <2>10 DEF SInv, PromiseKnown
  <2>17. RawIsOpen'
    BY <1>1, <2>5, <2>7, VisitFacts DEF SInv, RawIsOpen
  <2>18. QED
    BY <2>11, <2>12, <2>13, <2>14, <2>15, <2>16, <2>17 DEF SInv
<1>5. QED
  BY <1>3, <1>4

-------------------------------------------------------------------------------
(***************************************************************************)
(* Steps on the links.                                                     *)
(***************************************************************************)
\* A link under an id is the one that was there, with as many downloads, or gone.
Kept(i) ==
  \/ ~Present(i)'
  \/ /\ Present(i)
     /\ shares'[i].token = shares[i].token /\ shares'[i].count = shares[i].count
     /\ shares'[i].reused = shares[i].reused
     /\ shares'[i].steady =>
          shares[i].steady /\ shares'[i].terms.cap = shares[i].terms.cap

\* Visits stay as they are, but they are told when a link's promise ends.
Told ==
  \A v \in Visits :
    /\ visit'[v].id = visit[v].id /\ visit'[v].pc = visit[v].pc
    /\ visit[v].id \in Ids => visit'[v].terms = visit[v].terms
    /\ visit[v].pc # "idle" =>
         visit'[v].data = visit[v].data /\ (visit[v].open => visit'[v].open)
    /\ visit[v].id \in Ids /\ ~visit'[v].open /\ shares'[visit[v].id] # NoLink =>
         shares'[visit[v].id].terms.strip

LEMMA LinksMove ==
  ASSUME SInv, TypeOK', purge' = purge \/ \E u \in Owners : purge' = [purge EXCEPT ![u] = NoPurge],
         created' = created, \A i \in Ids : Kept(i), Told
  PROVE  SInv'
<1>1. LinksOK /\ visit \in [Visits -> VisitState] /\ purge \in [Owners -> PurgeState]
  BY TypeParts DEF SInv
<1>2. TokensIssued'
  <2>1. created \in Nat /\ LinksOK'
    BY <1>1, SharesAssumption, TypeParts DEF SInv, TypeOK, LinksOK
  <2>2. ASSUME NEW i \in Ids
        PROVE  shares'[i].token <= created
    <3>1. CASE ~Present(i)'
      BY <2>1, <3>1, Zero DEF Present
    <3>2. CASE Present(i)'
      BY <2>2, <3>2 DEF Kept, SInv, TokensIssued
    <3>3. QED
      BY <3>1, <3>2
  <2>3. QED
    BY <2>2 DEF TokensIssued
<1>3. SawInactive'
  <2>1. SUFFICES ASSUME NEW u \in Owners, purge'[u].pc = "delete", NEW e \in purge'[u].saw
                 PROVE  /\ e[2] <= created
                        /\ Present(e[1])' /\ shares'[e[1]].token = e[2] =>
                             UsedUp(e[3], shares'[e[1]].count)
    BY DEF SawInactive
  <2>2. purge'[u] = purge[u]
    BY <1>1, <2>1 DEF NoPurge
  <2>3. e[1] \in Ids
    BY <1>1, <2>1, <2>2 DEF PurgeState, NoPurge
  <2>4. Kept(e[1])
    BY <2>3
  <2>5. QED
    BY <2>1, <2>2, <2>4 DEF SInv, SawInactive, Kept
<1>4. CapMatches'
  BY DEF SInv, CapMatches, Told, Kept
<1>5. CapHolds'
  <2>1. SUFFICES ASSUME NEW i \in Ids, Present(i)', shares'[i].steady,
                        shares'[i].terms.cap # NoCap
                 PROVE  shares'[i].count <= shares'[i].terms.cap \/ shares'[i].reused
    BY DEF CapHolds
  <2>2. Kept(i)
    OBVIOUS
  <2>3. QED
    BY <2>1, <2>2 DEF SInv, CapHolds, Kept
<1>6. PromiseKnown'
  <2>1. SUFFICES ASSUME NEW v \in Visits, visit'[v].id \in Ids, ~visit'[v].open
                 PROVE  /\ visit'[v].terms.strip
                        /\ shares'[visit'[v].id] # NoLink => shares'[visit'[v].id].terms.strip
    BY DEF PromiseKnown, Present
  <2>2. visit'[v].id = visit[v].id /\ visit'[v].terms = visit[v].terms
    BY <2>1 DEF Told
  <2>3. visit[v].pc # "idle"
    BY <1>1, <2>1, <2>2, Zero DEF VisitState, NoVisit, Request, Answer
  <2>4. QED
    BY <2>1, <2>2, <2>3 DEF Told, SInv, PromiseKnown
<1>7. RawIsOpen'
  BY DEF SInv, RawIsOpen, Told
<1>8. QED
  BY <1>2, <1>3, <1>4, <1>5, <1>6, <1>7 DEF SInv

\* Visits that do not change are told when no promise ends.
LEMMA NothingTold ==
  ASSUME SInv, visit' = visit,
         \A i \in Ids : Present(i)' => Present(i) /\ (shares[i].terms.strip => shares'[i].terms.strip)
  PROVE  Told
  BY DEF Told, SInv, PromiseKnown, Present

\* Visits that learn the terms of the link i.
LEMMA OpenedFacts ==
  ASSUME SInv, NEW i \in Ids, NEW terms \in Terms, Opened(i, terms),
         \A j \in Ids \ {i} : shares'[j] = shares[j],
         Present(i)' => shares'[i].terms = terms
  PROVE  Told /\ visit' \in [Visits -> VisitState]
<1>1. visit \in [Visits -> VisitState]
  BY TypeParts DEF SInv
<1>2. ASSUME NEW v \in Visits
      PROVE  /\ visit'[v] \in VisitState
             /\ visit'[v].id = visit[v].id /\ visit'[v].pc = visit[v].pc
             /\ visit[v].id \in Ids => visit'[v].terms = visit[v].terms
             /\ visit[v].pc # "idle" =>
                  visit'[v].data = visit[v].data /\ (visit[v].open => visit'[v].open)
             /\ visit[v].id \in Ids /\ ~visit'[v].open /\ shares'[visit[v].id] # NoLink =>
                  shares'[visit[v].id].terms.strip
  <2>1. CASE visit[v].id = i /\ ~terms.strip
    <3>1. visit[v] \in Request
      BY <1>1, <2>1, Visited
    <3>2. visit'[v] = [visit[v] EXCEPT !.open = TRUE]
      BY <2>1 DEF Opened
    <3>3. /\ visit'[v] \in Request /\ visit'[v].open
          /\ visit'[v].id = visit[v].id /\ visit'[v].pc = visit[v].pc
          /\ visit'[v].terms = visit[v].terms /\ visit'[v].data = visit[v].data
      BY <3>1, <3>2 DEF Request
    <3>4. QED
      BY <3>3 DEF VisitState
  <2>2. CASE ~(visit[v].id = i /\ ~terms.strip)
    <3>1. visit'[v] = visit[v]
      BY <2>2 DEF Opened
    <3>2. CASE visit[v].id = i
      BY <1>1, <2>2, <3>1, <3>2 DEF Present
    <3>3. CASE visit[v].id # i
      BY <1>1, <3>1, <3>3 DEF SInv, PromiseKnown, Present
    <3>4. QED
      BY <3>2, <3>3
  <2>3. QED
    BY <2>1, <2>2
<1>3. visit' = [v \in Visits |-> visit'[v]]
  BY DEF Opened
<1>4. QED
  BY <1>2, <1>3 DEF Told

LEMMA LinksShrink ==
  ASSUME SInv, shares' \in [Ids -> Link \cup {NoLink}],
         \A i \in Ids : \/ ~Present(i)'
                        \/ /\ Present(i) /\ shares'[i].token = shares[i].token
                           /\ shares'[i].items \subseteq shares[i].items,
         \A i \in Ids : Present(i)' =>
           \A x \in shares'[i].items : item'[x] = "gone" => item[x] = "gone"
  PROVE  LinksOK'
<1>1. LinksOK
  BY TypeParts DEF SInv
<1>2. ASSUME NEW i \in Ids, NEW j \in Ids, Present(i)', i # j
      PROVE  shares'[i].token # shares'[j].token
  <2>1. shares'[i].token # 0
    BY <1>2, Zero DEF Present, Link
  <2>2. shares'[i].token = shares[i].token /\ Present(i)
    BY <1>2
  <2>3. CASE ~Present(j)'
    BY <2>1, <2>3, Zero DEF Present
  <2>4. CASE Present(j)'
    BY <1>1, <1>2, <2>2, <2>4 DEF LinksOK
  <2>5. QED
    BY <2>3, <2>4
<1>3. ASSUME NEW i \in Ids, Present(i)'
      PROVE  \A x \in shares'[i].items : item'[x] # "gone"
  BY <1>1, <1>3 DEF LinksOK
<1>4. QED
  BY <1>2, <1>3 DEF LinksOK

\* One link gets other terms and keeps the rest.
LEMMA TermsChange ==
  ASSUME SInv, NEW i \in Ids, Present(i), NEW terms \in Terms, NEW steady \in BOOLEAN,
         shares' = [shares EXCEPT ![i] = [shares[i] EXCEPT !.terms = terms, !.steady = steady]],
         steady => shares[i].steady /\ terms.cap = shares[i].terms.cap,
         item' = item, purge' = purge, created' = created, RestOK',
         \/ Opened(i, terms)
         \/ visit' = visit /\ terms.strip = shares[i].terms.strip
  PROVE  SInv'
<1> DEFINE link == [shares[i] EXCEPT !.terms = terms, !.steady = steady]
<1>1. LinksOK /\ visit \in [Visits -> VisitState] /\ purge \in [Owners -> PurgeState]
  BY TypeParts DEF SInv
<1>2. shares[i] \in Link
  BY <1>1 DEF LinksOK, Present
<1>3. /\ link \in Link /\ link.token = shares[i].token /\ link.items = shares[i].items
      /\ link.count = shares[i].count /\ link.reused = shares[i].reused
      /\ link.terms = terms /\ link.steady = steady
  BY <1>2 DEF Link
<1>4. shares' = [shares EXCEPT ![i] = link]
  OBVIOUS
<1> HIDE DEF link
<1>5. shares' \in [Ids -> Link \cup {NoLink}]
  BY <1>1, <1>3, <1>4 DEF LinksOK
<1>6. shares'[i] = link /\ \A j \in Ids \ {i} : shares'[j] = shares[j]
  BY <1>1, <1>4 DEF LinksOK
<1>7. LinksOK'
  BY <1>3, <1>5, <1>6, LinksShrink DEF Present
<1>8. \A j \in Ids : Kept(j)
  BY <1>3, <1>6 DEF Kept, Present
<1>9. Told /\ visit' \in [Visits -> VisitState]
  <2>1. CASE Opened(i, terms)
    BY <1>3, <1>6, <2>1, OpenedFacts
  <2>2. CASE visit' = visit /\ terms.strip = shares[i].terms.strip
    BY <1>1, <1>3, <1>6, <2>2, NothingTold DEF Present
  <2>3. QED
    BY <2>1, <2>2
<1>10. TypeOK'
  BY <1>1, <1>7, <1>9 DEF TypeOK, LinksOK, RestOK, VisitState, PurgeState
<1>11. QED
  BY <1>8, <1>9, <1>10, LinksMove

\* Links go.
LEMMA LinksGo ==
  ASSUME SInv, shares' \in [Ids -> Link \cup {NoLink}],
         \A i \in Ids : ~Present(i)' \/ shares'[i] = shares[i]
                        \/ \E S \in SUBSET Items : /\ Present(i) /\ S \subseteq shares[i].items
                                                   /\ shares'[i] = [shares[i] EXCEPT !.items = S],
         \A i \in Ids : Present(i)' =>
           \A x \in shares'[i].items : item'[x] = "gone" => item[x] = "gone",
         purge' = purge \/ \E u \in Owners : purge' = [purge EXCEPT ![u] = NoPurge],
         visit' = visit, created' = created, RestOK'
  PROVE  SInv'
<1>1. LinksOK /\ visit \in [Visits -> VisitState] /\ purge \in [Owners -> PurgeState]
  BY TypeParts DEF SInv
<1>2. ASSUME NEW i \in Ids, Present(i)'
      PROVE  /\ Present(i) /\ shares'[i].token = shares[i].token
             /\ shares'[i].items \subseteq shares[i].items
             /\ shares'[i].count = shares[i].count /\ shares'[i].reused = shares[i].reused
             /\ shares'[i].steady = shares[i].steady /\ shares'[i].terms = shares[i].terms
  <2>1. CASE shares'[i] = shares[i]
    BY <1>2, <2>1 DEF Present
  <2>2. ASSUME NEW S \in SUBSET Items, Present(i), S \subseteq shares[i].items,
               shares'[i] = [shares[i] EXCEPT !.items = S]
        PROVE  /\ shares'[i].token = shares[i].token /\ shares'[i].items = S
               /\ shares'[i].count = shares[i].count /\ shares'[i].reused = shares[i].reused
               /\ shares'[i].steady = shares[i].steady /\ shares'[i].terms = shares[i].terms
    <3>1. shares[i] \in Link
      BY <1>1, <2>2 DEF LinksOK, Present
    <3>2. QED
      BY <2>2, <3>1 DEF Link
  <2>3. QED
    BY <1>2, <2>1, <2>2
<1>3. LinksOK'
  BY <1>2, LinksShrink
<1>4. \A i \in Ids : Kept(i)
  BY <1>2 DEF Kept
<1>5. Told
  BY <1>2, NothingTold
<1>6. NoPurge \in PurgeState
  BY DEF PurgeState
<1>7. purge' \in [Owners -> PurgeState]
  BY <1>1, <1>6
<1>8. TypeOK'
  BY <1>1, <1>3, <1>7 DEF TypeOK, LinksOK, RestOK, VisitState, PurgeState
<1>9. QED
  BY <1>4, <1>5, <1>8, LinksMove

LEMMA EditedRest ==
  ASSUME RestOK, item' = item, cookie' = cookie, wrong' = wrong, created' = created, Edited
  PROVE  RestOK'
<1>1. edits \in Nat /\ MaxEdits \in Nat
  BY SharesAssumption DEF RestOK
<1>2. edits' \in 0..MaxEdits
  BY <1>1 DEF Edited
<1>3. QED
  BY <1>2 DEF RestOK

LEMMA PresentLink ==
  ASSUME SInv, NEW i \in Ids, Present(i)
  PROVE  /\ RestOK /\ shares[i] \in Link /\ shares[i].terms \in Terms
         /\ shares[i].steady \in BOOLEAN
  BY TypeParts DEF SInv, LinksOK, Present, Link

LEMMA PatchStep ==
  ASSUME SInv, NEW u \in Owners, NEW i \in Ids, NEW terms \in Terms, Patch(u, i, terms)
  PROVE  SInv'
<1> DEFINE steady == shares[i].steady /\ terms.cap = shares[i].terms.cap
<1>1. Present(i)
  BY DEF Patch, MayEdit
<1>2. RestOK'
  BY <1>1, PresentLink, EditedRest DEF Patch
<1>3. steady \in BOOLEAN
  OBVIOUS
<1>4. shares' = [shares EXCEPT ![i] = [shares[i] EXCEPT !.terms = terms, !.steady = steady]]
  <2>1. shares[i] \in Link
    BY <1>1, PresentLink
  <2>2. QED
    BY <2>1 DEF Patch, Link
<1> HIDE DEF steady
<1>5. steady => shares[i].steady /\ terms.cap = shares[i].terms.cap
  BY DEF steady
<1>6. Opened(i, terms) /\ item' = item /\ purge' = purge /\ created' = created
  BY DEF Patch
<1>7. QED
  BY <1>1, <1>2, <1>3, <1>4, <1>5, <1>6, TermsChange

LEMMA RevokeStep ==
  ASSUME SInv, NEW i \in Ids, (\E u \in Owners : Revoke(u, i)) \/ Expire(i)
  PROVE  SInv'
<1> DEFINE terms == IF Expire(i) THEN [shares[i].terms EXCEPT !.expiry = "past"]
                                 ELSE [shares[i].terms EXCEPT !.revoked = TRUE]
           steady == shares[i].steady
<1>1. Present(i)
  BY DEF Revoke, Expire, MayEdit
<1>2. /\ shares[i] \in Link /\ shares[i].terms \in Terms /\ shares[i].steady \in BOOLEAN
      /\ RestOK'
  BY <1>1, PresentLink, EditedRest DEF Revoke, Expire
<1>3. terms \in Terms /\ terms.cap = shares[i].terms.cap /\ terms.strip = shares[i].terms.strip
  BY <1>2 DEF Terms
<1>4. shares' = [shares EXCEPT ![i] = [shares[i] EXCEPT !.terms = terms]]
  BY DEF Revoke, Expire
<1> HIDE DEF terms
<1>5. [shares[i] EXCEPT !.terms = terms]
        = [shares[i] EXCEPT !.terms = terms, !.steady = steady]
  BY <1>2 DEF Link
<1>6. steady \in BOOLEAN /\ (steady => shares[i].steady)
  BY <1>2
<1> HIDE DEF steady
<1>7. shares' = [shares EXCEPT ![i] = [shares[i] EXCEPT !.terms = terms, !.steady = steady]]
  BY <1>4, <1>5
<1>8. visit' = visit /\ item' = item /\ purge' = purge /\ created' = created
  BY DEF Revoke, Expire
<1>9. QED
  BY <1>1, <1>2, <1>3, <1>6, <1>7, <1>8, TermsChange

LEMMA HardDeleteStep ==
  ASSUME SInv, NEW u \in Owners, NEW i \in Ids, HardDelete(u, i)
  PROVE  SInv'
<1>1. LinksOK /\ RestOK
  BY TypeParts DEF SInv
<1>2. RestOK'
  BY <1>1, RestKept DEF HardDelete
<1>3. /\ shares' \in [Ids -> Link \cup {NoLink}]
      /\ \A j \in Ids : ~Present(j)' \/ shares'[j] = shares[j]
  BY <1>1 DEF HardDelete, LinksOK, Present
<1>4. QED
  BY <1>2, <1>3, LinksGo DEF HardDelete

LEMMA PurgeDeleteStep ==
  ASSUME SInv, NEW u \in Owners, PurgeDelete(u)
  PROVE  SInv'
<1>1. LinksOK /\ RestOK
  BY TypeParts DEF SInv
<1>2. RestOK'
  BY <1>1, RestKept DEF PurgeDelete
<1>3. /\ shares' \in [Ids -> Link \cup {NoLink}]
      /\ \A j \in Ids : ~Present(j)' \/ shares'[j] = shares[j]
  BY <1>1 DEF PurgeDelete, LinksOK, Present
<1>4. \E w \in Owners : purge' = [purge EXCEPT ![w] = NoPurge]
  BY DEF PurgeDelete
<1>5. QED
  BY <1>2, <1>3, <1>4, LinksGo DEF PurgeDelete

LEMMA EraseStep ==
  ASSUME SInv, NEW x \in Items, Erase(x)
  PROVE  SInv'
<1>1. LinksOK /\ RestOK
  BY TypeParts DEF SInv
<1>2. RestOK'
  BY <1>1 DEF Erase, RestOK
<1>3. ASSUME NEW i \in Ids
      PROVE  \/ shares'[i] = NoLink
             \/ /\ Present(i) /\ shares[i] \in Link
                /\ shares'[i] = [shares[i] EXCEPT !.items = @ \ {x}]
                /\ shares'[i] \in Link /\ shares'[i].items = shares[i].items \ {x}
  <2>1. CASE ~Present(i) \/ shares[i].legacy = x
    BY <2>1 DEF Erase
  <2>2. CASE ~(~Present(i) \/ shares[i].legacy = x)
    <3>1. shares[i] \in Link
      BY <1>1, <2>2 DEF LinksOK, Present
    <3>2. shares'[i] = [shares[i] EXCEPT !.items = @ \ {x}]
      BY <2>2 DEF Erase
    <3>3. QED
      BY <2>2, <3>1, <3>2 DEF Link
  <2>3. QED
    BY <2>1, <2>2
<1>4. shares' = [i \in Ids |-> shares'[i]]
  BY DEF Erase
<1>5. shares' \in [Ids -> Link \cup {NoLink}]
  BY <1>3, <1>4
<1>6. \A i \in Ids : ~Present(i)' \/ shares'[i] = shares[i]
        \/ \E S \in SUBSET Items : /\ Present(i) /\ S \subseteq shares[i].items
                                   /\ shares'[i] = [shares[i] EXCEPT !.items = S]
  <2>1. ASSUME NEW i \in Ids, Present(i), shares[i] \in Link
        PROVE  shares[i].items \ {x} \in SUBSET Items
    BY <2>1 DEF Link
  <2>2. QED
    BY <1>3, <2>1 DEF Present
<1>7. \A i \in Ids : Present(i)' =>
        \A y \in shares'[i].items : item'[y] = "gone" => item[y] = "gone"
  BY <1>1, <1>3 DEF Erase, RestOK, Present
<1>8. QED
  BY <1>2, <1>5, <1>6, <1>7, LinksGo DEF Erase

\* Nothing happens to the links.
LEMMA LinksStay ==
  ASSUME SInv, shares' = shares, visit' = visit, purge' = purge, created' = created, RestOK',
         \A x \in Items : item'[x] = "gone" => item[x] = "gone"
  PROVE  SInv'
<1>1. LinksOK
  BY TypeParts DEF SInv
<1>2. \A i \in Ids : Present(i)' => shares'[i].items \subseteq Items
  BY <1>1 DEF LinksOK, Present, Link
<1>3. QED
  BY <1>1, <1>2, LinksGo DEF LinksOK

LEMMA ElsewhereStep ==
  ASSUME SInv, Elsewhere
  PROVE  SInv'
<1>1. RestOK
  BY TypeParts DEF SInv
<1>2. ASSUME NEW x \in Items, NEW s \in {"active", "lost", "trashed"}, Change(x, s)
      PROVE  SInv'
  <2>1. item' \in [Items -> {"active", "lost", "trashed", "gone"}]
    BY <1>1, <1>2 DEF Change, RestOK
  <2>2. \A y \in Items : item'[y] = "gone" => item[y] = "gone"
    BY <1>1, <1>2 DEF Change, RestOK
  <2>3. edits' \in 0..MaxEdits
    BY <1>1, <1>2, SharesAssumption DEF Change, Edited, RestOK
  <2>4. RestOK'
    BY <1>1, <1>2, <2>1, <2>3 DEF Change, RestOK
  <2>5. QED
    BY <1>2, <2>2, <2>4, LinksStay DEF Change
<1>3. ASSUME NEW t \in 1..MaxToken, NEW b \in Visitors, Slide(t, b)
      PROVE  SInv'
  <2>3. wrong' \in [1..MaxToken -> [Visitors \cup {Star} -> Nat]]
    <3>1. wrong \in [1..MaxToken -> [Visitors \cup {Star} -> Nat]]
      BY <1>1 DEF RestOK
    <3>2. QED
      BY <1>3, <3>1, WindowsMove DEF Slide
  <2>4. RestOK'
    BY <1>1, <1>3, <2>3 DEF Slide, RestOK
  <2>5. QED
    BY <1>3, <2>4, LinksStay DEF Slide
<1>4. QED
  BY <1>2, <1>3, RevokeStep, EraseStep DEF Elsewhere

LEMMA PurgeSelectStep ==
  ASSUME SInv, NEW u \in Owners, PurgeSelect(u)
  PROVE  SInv'
<1> DEFINE saw == {<<i, shares[i].token, shares[i].terms>> : i \in Inactive(u)}
<1>1. LinksOK /\ RestOK /\ visit \in [Visits -> VisitState] /\ purge \in [Owners -> PurgeState]
  BY TypeParts DEF SInv
<1>2. ASSUME NEW i \in Inactive(u)
      PROVE  /\ i \in Ids /\ Present(i) /\ shares[i] \in Link
             /\ UsedUp(shares[i].terms, shares[i].count)
  <2>1. i \in Ids /\ Present(i) /\ ~Usable(i)
    BY DEF Inactive, MayEdit
  <2>2. QED
    BY <1>1, <2>1 DEF LinksOK, Present, Usable, Live, Exhausted, UsedUp
<1>3. saw \subseteq Ids \X (1..MaxToken) \X Terms
  BY <1>2 DEF Link
<1>4. \A e \in saw : /\ e[2] <= created
                     /\ UsedUp(e[3], shares[e[1]].count)
  BY <1>2 DEF SInv, TokensIssued
<1> HIDE DEF saw
<1>5. purge' = [purge EXCEPT ![u] = [pc |-> "delete", saw |-> saw]]
  BY DEF PurgeSelect, saw
<1>6. [pc |-> "delete", saw |-> saw] \in PurgeState
  BY <1>3 DEF PurgeState
<1>7. purge' \in [Owners -> PurgeState]
  BY <1>1, <1>5, <1>6
<1>8. TypeOK'
  <2>1. LinksOK' /\ RestOK' /\ visit' \in [Visits -> VisitState]
    BY <1>1, RestKept DEF PurgeSelect, LinksOK, Present
  <2>2. QED
    BY <1>7, <2>1 DEF TypeOK, LinksOK, RestOK, VisitState, PurgeState
<1>9. SawInactive'
  <2>1. /\ purge'[u].saw = saw /\ \A w \in Owners : w # u => purge'[w] = purge[w]
        /\ shares' = shares /\ created' = created
    BY <1>1, <1>5 DEF PurgeSelect
  <2>2. QED
    BY <1>4, <2>1 DEF SInv, SawInactive, Present
<1>10. TokensIssued' /\ CapMatches' /\ CapHolds' /\ PromiseKnown' /\ RawIsOpen'
  BY DEF PurgeSelect, SInv, TokensIssued, CapMatches, CapHolds, PromiseKnown, RawIsOpen, Present
<1>11. QED
  BY <1>8, <1>9, <1>10 DEF SInv

-------------------------------------------------------------------------------
(***************************************************************************)
(* A new link, and the whole.                                              *)
(***************************************************************************)
LEMMA CreateStep ==
  ASSUME SInv, NEW u \in Owners, NEW S \in SUBSET Items, NEW first \in Items \cup {None},
         NEW terms \in Terms, Create(u, S, first, terms)
  PROVE  SInv'
<1>1. LinksOK /\ RestOK /\ visit \in [Visits -> VisitState] /\ purge \in [Owners -> PurgeState]
  BY TypeParts DEF SInv
<1>2. PICK i \in Ids :
        /\ NextId(i)
        /\ shares' = [shares EXCEPT ![i] =
             [token |-> created', owner |-> u, items |-> S, legacy |-> first,
              terms |-> terms, count |-> 0, steady |-> TRUE, reused |-> InFlight(i)]]
        /\ Opened(i, terms)
  BY DEF Create
<1> DEFINE link == [token |-> created', owner |-> u, items |-> S, legacy |-> first,
                    terms |-> terms, count |-> 0, steady |-> TRUE, reused |-> InFlight(i)]
<1>3. created' = created + 1 /\ created' \in 1..MaxToken /\ created \in Nat
  BY <1>1, SharesAssumption DEF Create, RestOK
<1>4. link \in Link
  BY <1>3 DEF Link, InFlight
<1>5. /\ link.token = created' /\ link.items = S /\ link.terms = terms /\ link.count = 0
      /\ link.reused = InFlight(i)
  OBVIOUS
<1> HIDE DEF link
<1>6. shares' = [shares EXCEPT ![i] = link]
  BY <1>2 DEF link
<1>7. shares'[i] = link /\ \A j \in Ids \ {i} : shares'[j] = shares[j]
  BY <1>1, <1>6 DEF LinksOK
<1>8. Told /\ visit' \in [Visits -> VisitState]
  BY <1>2, <1>5, <1>7, OpenedFacts
<1>9. item' = item /\ purge' = purge /\ RestOK'
  <2>1. item' = item /\ cookie' = cookie /\ wrong' = wrong /\ purge' = purge /\ edits' = edits
    BY DEF Create
  <2>2. created' \in 0..MaxToken
    BY <1>3, SharesAssumption
  <2>3. RestOK'
    BY <1>1, <2>1, <2>2 DEF RestOK
  <2>4. QED
    BY <2>1, <2>3
<1>10. \A j \in Ids : shares[j].token <= created /\ shares[j].token \in Nat
  BY <1>1, Zero DEF SInv, TokensIssued, LinksOK, Link
<1>11. LinksOK'
  <2>1. shares' \in [Ids -> Link \cup {NoLink}]
    BY <1>1, <1>4, <1>6 DEF LinksOK
  <2>2. \A x \in S : item[x] # "gone"
    BY DEF Create
  <2>3. \A j, k \in Ids : Present(j)' /\ j # k => shares'[j].token # shares'[k].token
    BY <1>1, <1>3, <1>5, <1>7, <1>10 DEF LinksOK, Present
  <2>4. QED
    BY <1>1, <1>5, <1>7, <1>9, <2>1, <2>2, <2>3 DEF LinksOK, Present
<1>12. TypeOK'
  BY <1>1, <1>8, <1>9, <1>11 DEF TypeOK, LinksOK, RestOK, VisitState, PurgeState
<1>13. TokensIssued'
  BY <1>3, <1>5, <1>7, <1>10 DEF TokensIssued
<1>14. SawInactive'
  <2>1. SUFFICES ASSUME NEW w \in Owners, purge[w].pc = "delete", NEW e \in purge[w].saw
                 PROVE  /\ e[2] <= created'
                        /\ Present(e[1])' /\ shares'[e[1]].token = e[2] =>
                             UsedUp(e[3], shares'[e[1]].count)
    BY <1>9 DEF SawInactive
  <2>2. e[1] \in Ids /\ e[2] \in 1..MaxToken
    BY <1>1, <2>1 DEF PurgeState, NoPurge
  <2>3. e[2] <= created
    BY <2>1 DEF SInv, SawInactive
  <2>4. CASE e[1] = i
    BY <1>3, <1>5, <1>7, <2>2, <2>3, <2>4
  <2>5. CASE e[1] # i
    BY <1>3, <1>7, <2>1, <2>2, <2>3, <2>5 DEF SInv, SawInactive, Present
  <2>6. QED
    BY <2>4, <2>5
<1>15. CapMatches'
  <2>1. ASSUME NEW v \in Visits, NEW j \in Ids, Present(j)', visit'[v].id = j
        PROVE  ~shares'[j].steady \/ shares'[j].reused \/ visit'[v].terms.cap = shares'[j].terms.cap
    <3>1. visit[v].id = j /\ visit'[v].terms = visit[v].terms
      BY <1>8, <2>1 DEF Told
    <3>2. CASE j = i
      BY <1>5, <1>7, <3>1, <3>2 DEF InFlight
    <3>3. CASE j # i
      BY <1>7, <2>1, <3>1, <3>3 DEF SInv, CapMatches, Present
    <3>4. QED
      BY <3>2, <3>3
  <2>2. QED
    BY <2>1 DEF CapMatches
<1>16. CapHolds'
  <2>1. terms.cap \in Nat
    BY DEF Terms
  <2>2. QED
    BY <1>5, <1>7, <2>1 DEF SInv, CapHolds, Present
<1>17. PromiseKnown'
  <2>1. SUFFICES ASSUME NEW v \in Visits, visit'[v].id \in Ids, ~visit'[v].open
                 PROVE  /\ visit'[v].terms.strip
                        /\ shares'[visit'[v].id] # NoLink => shares'[visit'[v].id].terms.strip
    BY DEF PromiseKnown, Present
  <2>2. visit'[v].id = visit[v].id /\ visit'[v].terms = visit[v].terms
    BY <1>8, <2>1 DEF Told
  <2>3. visit[v].pc # "idle"
    BY <1>1, <2>1, <2>2, Zero DEF VisitState, NoVisit, Request, Answer
  <2>4. QED
    BY <1>8, <2>1, <2>2, <2>3 DEF Told, SInv, PromiseKnown
<1>18. RawIsOpen'
  BY <1>8 DEF SInv, RawIsOpen, Told
<1>19. QED
  BY <1>12, <1>13, <1>14, <1>15, <1>16, <1>17, <1>18 DEF SInv

LEMMA OwnerStep ==
  ASSUME SInv, NEW u \in Owners, Edit(u)
  PROVE  SInv'
<1>1. ASSUME NEW S \in SUBSET Items, NEW first \in Items \cup {None}, NEW terms \in Offers,
             Create(u, S, first, terms)
      PROVE  SInv'
  BY <1>1, SharesAssumption, CreateStep
<1>2. ASSUME NEW terms \in Offers, CreateFromFolder(u, terms)
      PROVE  SInv'
  <2> DEFINE S == {x \in Photos : item[x] \in {"active", "lost"}}
  <2>1. S \in SUBSET Items
    BY DEF Items
  <2>2. PICK first \in S : Create(u, S, first, terms)
    BY <1>2 DEF CreateFromFolder
  <2> HIDE DEF S
  <2>3. QED
    BY <2>1, <2>2, SharesAssumption, CreateStep
<1>3. ASSUME NEW i \in Ids, Present(i), NEW terms \in Patched(shares[i].terms),
             Patch(u, i, terms)
      PROVE  SInv'
  <2>1. shares[i].terms \in Terms
    BY <1>3, PresentLink
  <2>2. terms \in Terms
    BY <1>3, <2>1, SharesAssumption DEF Patched, Terms
  <2>3. QED
    BY <1>3, <2>2, PatchStep
<1>4. QED
  BY <1>1, <1>2, <1>3, RevokeStep, HardDeleteStep, PurgeSelectStep, PurgeDeleteStep DEF Edit

LEMMA InitSInv == Init => SInv
<1> SUFFICES ASSUME Init PROVE SInv
  OBVIOUS
<1>1. \A i \in Ids : ~Present(i) /\ shares[i].token = 0
  BY DEF Init, Present, NoLink
<1>2. TypeOK
  BY <1>1, SharesAssumption DEF Init, TypeOK
<1>3. TokensIssued /\ SawInactive /\ CapMatches /\ CapHolds
  BY <1>1 DEF Init, TokensIssued, SawInactive, CapMatches, CapHolds, NoPurge
<1>4. PromiseKnown /\ RawIsOpen
  BY Zero DEF Init, PromiseKnown, RawIsOpen, NoVisit
<1>5. QED
  BY <1>2, <1>3, <1>4 DEF SInv

LEMMA StepSInv == SInv /\ [Next]_vars => SInv'
<1> SUFFICES ASSUME SInv, [Next]_vars PROVE SInv'
  OBVIOUS
<1>1. CASE \E u \in Owners : Edit(u)
  BY <1>1, OwnerStep
<1>2. ASSUME NEW v \in Visits, Visiting(v)
      PROVE  SInv'
  BY <1>2, ResolveStep, PrepareStep, PlayStep, ConsumeStep, SendStep, AttemptStep, LeaveStep,
     VerifyStep DEF Visiting
<1>3. CASE Elsewhere
  BY <1>3, ElsewhereStep
<1>4. CASE UNCHANGED vars
  BY <1>4, LinksStay, RestKept, TypeParts DEF vars, SInv
<1>5. QED
  BY <1>1, <1>2, <1>3, <1>4 DEF Next

THEOREM SharesInvariant == Spec => []SInv
  BY InitSInv, StepSInv, PTL DEF Spec

\* Links, items, visits and purges are always of their types, tokens are unique and
\* no link holds an item whose row is gone.
THEOREM SharesTypes == Spec => []TypeOK
<1>1. SInv => TypeOK
  BY DEF SInv
<1>2. QED
  BY <1>1, SharesInvariant, PTL

\* Whatever the visits and however they overlap, a link whose cap nobody changed is
\* downloaded at most that often.
THEOREM CapsHold == Spec => []CapHolds
<1>1. SInv => CapHolds
  BY DEF SInv
<1>2. QED
  BY <1>1, SharesInvariant, PTL

\* Whatever the route, a photo leaves with its location only if the link did not
\* promise to remove it at some moment of the visit.
THEOREM LocationsStayHome == Spec => []LocationsStay
<1>1. SInv => LocationsStay
  BY DEF SInv, RawIsOpen, LocationsStay
<1>2. QED
  BY <1>1, SharesInvariant, PTL

\* A purge deletes no link that can be used, unless its terms were changed or its id
\* given to another link after the purge read it.
THEOREM PurgesSpare == Spec => PurgeSpares
<1> DEFINE P == \A u \in Owners : purge[u].pc = "delete" /\ purge'[u].pc = "idle" =>
                  \A e \in purge[u].saw : LET i == e[1] IN
                    Present(i) /\ Usable(i) => e # <<i, shares[i].token, shares[i].terms>>
<1>1. SInv => P
  <2>1. SUFFICES ASSUME SInv, NEW u \in Owners, purge[u].pc = "delete", NEW e \in purge[u].saw,
                        Present(e[1]), Usable(e[1]),
                        e = <<e[1], shares[e[1]].token, shares[e[1]].terms>>
                 PROVE  FALSE
    OBVIOUS
  <2>2. e[2] = shares[e[1]].token /\ e[3] = shares[e[1]].terms
    BY <2>1
  <2>3. QED
    BY <2>1, <2>2 DEF SInv, SawInactive, UsedUp, Usable, Live, Exhausted
<1>2. SInv /\ [Next]_vars => [P]_purge
  BY <1>1
<1>3. QED
  BY <1>2, SharesInvariant, PTL DEF Spec, PurgeSpares

-------------------------------------------------------------------------------
(***************************************************************************)
(* The throttle looks first and counts after bcrypt.  What is conserved is *)
(* the wrong passwords in the window together with the attempts that are   *)
(* past the check: an attempt joins them below the limit only, and becomes *)
(* a wrong password at most once.                                          *)
(***************************************************************************)
Past(t) == {v \in Visits : /\ visit[v].pc = "send" /\ visit[v].route = "unlock"
                           /\ visit[v].token = t}

Pressure ==
  \A t \in 1..MaxToken :
    wrong[t][Star] + Cardinality(Past(t)) < PerToken + Cardinality(Visits)

\* Only an attempt that was let through is an unlock past its check.
UnlocksArePast == \A v \in Visits : visit[v].pc = "consume" => visit[v].route # "unlock"

LEMMA PastFinite ==
  ASSUME NEW S \in SUBSET Visits
  PROVE  /\ IsFiniteSet(S) /\ Cardinality(S) \in Nat /\ Cardinality(Visits) \in Nat
         /\ Cardinality(S) <= Cardinality(Visits)
  BY SharesAssumption, FS_Subset, FS_CardinalityType

\* Attempts come to an end, and failures leave the window.
LEMMA PressureFalls ==
  ASSUME RestOK, RestOK', Pressure,
         \A t \in 1..MaxToken : wrong'[t][Star] <= wrong[t][Star],
         \A v \in Visits, t \in 1..MaxToken : (v \in Past(t))' => v \in Past(t)
  PROVE  Pressure'
<1> SUFFICES ASSUME NEW t \in 1..MaxToken
             PROVE  wrong'[t][Star] + Cardinality(Past(t)') < PerToken + Cardinality(Visits)
  BY DEF Pressure
<1>1. Past(t) \in SUBSET Visits /\ Past(t)' \in SUBSET Past(t)
  BY DEF Past
<1>2. IsFiniteSet(Past(t)) /\ Cardinality(Past(t)) \in Nat /\ Cardinality(Visits) \in Nat
  BY <1>1, PastFinite
<1>3. Cardinality(Past(t)') <= Cardinality(Past(t)) /\ Cardinality(Past(t)') \in Nat
  BY <1>1, <1>2, FS_Subset, FS_CardinalityType
<1>4. wrong[t][Star] \in Nat /\ wrong'[t][Star] \in Nat
  BY DEF RestOK
<1>5. /\ wrong'[t][Star] <= wrong[t][Star]
      /\ wrong[t][Star] + Cardinality(Past(t)) < PerToken + Cardinality(Visits)
  BY DEF Pressure
<1>6. QED
  BY <1>2, <1>3, <1>4, <1>5, SharesAssumption

\* A visit that is not an unlock past its check afterwards.
LEMMA OneMoves ==
  ASSUME SInv, RestOK', Pressure, UnlocksArePast, wrong' = wrong,
         NEW v \in Visits, NEW r, visit' = [visit EXCEPT ![v] = r],
         r.pc \in {"consume", "send"} => r.route # "unlock"
  PROVE  Pressure' /\ UnlocksArePast'
<1>1. RestOK /\ visit \in [Visits -> VisitState]
  BY TypeParts DEF SInv
<1>2. visit'[v] = r /\ \A w \in Visits : w # v => visit'[w] = visit[w]
  BY <1>1
<1>3. UnlocksArePast'
  BY <1>2 DEF UnlocksArePast
<1>4. \A w \in Visits, t \in 1..MaxToken : (w \in Past(t))' => w \in Past(t)
  BY <1>2 DEF Past
<1>5. \A t \in 1..MaxToken : wrong'[t][Star] <= wrong[t][Star]
  BY <1>1 DEF RestOK
<1>6. QED
  BY <1>1, <1>3, <1>4, <1>5, PressureFalls

\* History is written into visits in flight, or nothing changes.
LEMMA NoneMoves ==
  ASSUME SInv, RestOK', Pressure, UnlocksArePast,
         \A t \in 1..MaxToken : wrong'[t][Star] <= wrong[t][Star],
         \A w \in Visits : \/ visit'[w] = visit[w]
                           \/ /\ visit[w].id \in Ids
                              /\ visit'[w] = [visit[w] EXCEPT !.open = TRUE]
  PROVE  Pressure' /\ UnlocksArePast'
<1>1. \A w \in Visits : /\ visit'[w].pc = visit[w].pc
                        /\ visit'[w].route = visit[w].route
                        /\ visit'[w].token = visit[w].token
  <2>1. SUFFICES ASSUME NEW w \in Visits, visit[w].id \in Ids,
                        visit'[w] = [visit[w] EXCEPT !.open = TRUE]
                 PROVE  /\ visit'[w].pc = visit[w].pc
                        /\ visit'[w].route = visit[w].route
                        /\ visit'[w].token = visit[w].token
    OBVIOUS
  <2>2. visit[w] \in Request
    BY <2>1, VisitFacts, Visited
  <2>3. QED
    BY <2>1, <2>2 DEF Request
<1>2. UnlocksArePast'
  BY <1>1 DEF UnlocksArePast
<1>3. \A w \in Visits, t \in 1..MaxToken : (w \in Past(t))' => w \in Past(t)
  BY <1>1 DEF Past
<1>4. QED
  BY <1>2, <1>3, PressureFalls, TypeParts DEF SInv

\* An attempt passes the check below the limit, with all the others past it at worst.
LEMMA AttemptPressure ==
  ASSUME SInv, RestOK', Pressure, UnlocksArePast, NEW v \in Visits, Attempt(v)
  PROVE  Pressure' /\ UnlocksArePast'
<1>1. visit[v] \in Request /\ RestOK /\ visit \in [Visits -> VisitState] /\ wrong' = wrong
  BY VisitFacts, TypeParts DEF Attempt, SInv
<1>2. CASE Refuse(v)
  <2> DEFINE r == [pc |-> "sent", id |-> 0, data |-> {}, open |-> visit[v].open]
  <2>1. visit' = [visit EXCEPT ![v] = r] /\ r.pc = "sent"
    BY <1>2 DEF Refuse, Sent
  <2> HIDE DEF r
  <2>2. QED
    BY <1>1, <2>1, OneMoves
<1>3. CASE ~Throttled(visit[v].token, visit[v].by)
           /\ visit' = [visit EXCEPT ![v].pc = "send"]
  <2> DEFINE t == visit[v].token
             r == [visit[v] EXCEPT !.pc = "send"]
  <2>1. r.pc = "send" /\ r.token = t /\ t \in 1..MaxToken /\ visit[v].by \in Visitors
    BY <1>1 DEF Request
  <2>2. visit' = [visit EXCEPT ![v] = r]
    BY <1>3
  <2> HIDE DEF r
  <2>3. visit'[v] = r /\ \A w \in Visits : w # v => visit'[w] = visit[w]
    BY <1>1, <2>2
  <2>4. UnlocksArePast'
    BY <2>1, <2>3 DEF UnlocksArePast
  <2>5. wrong[t][Star] < PerToken
    <3>1. wrong[t][Star] \in Nat
      BY <1>1, <2>1 DEF RestOK
    <3>2. QED
      BY <1>3, <3>1, SharesAssumption DEF Throttled
  <2>6. ASSUME NEW s \in 1..MaxToken
        PROVE  wrong'[s][Star] + Cardinality(Past(s)') < PerToken + Cardinality(Visits)
    <3>1. Past(s)' \in SUBSET Visits /\ Past(s) \in SUBSET Visits /\ wrong[s][Star] \in Nat
      BY <1>1 DEF Past, RestOK
    <3>2. CASE s = t
      BY <1>1, <2>5, <3>1, <3>2, PastFinite, SharesAssumption
    <3>3. CASE s # t
      <4>1. Past(s)' = Past(s)
        BY <2>1, <2>3, <3>3, VisitFacts DEF Past, Attempt
      <4>2. QED
        BY <1>1, <4>1 DEF Pressure
    <3>4. QED
      BY <3>2, <3>3
  <2>7. QED
    BY <2>4, <2>6 DEF Pressure
<1>4. QED
  BY <1>2, <1>3 DEF Attempt

\* A wrong password is counted as the attempt ends.
LEMMA VerifyPressure ==
  ASSUME SInv, RestOK', Pressure, UnlocksArePast, NEW v \in Visits, NEW right \in BOOLEAN,
         Verify(v, right)
  PROVE  Pressure' /\ UnlocksArePast'
<1> DEFINE r == [pc |-> "sent", id |-> 0, data |-> {}, open |-> visit[v].open]
           t == visit[v].token
<1>1. /\ visit[v] \in Request /\ RestOK /\ visit \in [Visits -> VisitState]
      /\ visit[v].pc = "send" /\ visit[v].route = "unlock"
      /\ t \in 1..MaxToken /\ visit[v].by \in Visitors
  BY VisitFacts, TypeParts DEF Verify, SInv, Request
<1>2. visit' = [visit EXCEPT ![v] = r] /\ r.pc = "sent"
  BY DEF Verify, Sent
<1> HIDE DEF r
<1>3. CASE wrong' = wrong
  BY <1>2, <1>3, OneMoves
<1>4. CASE wrong' = [wrong EXCEPT ![t][visit[v].by] = @ + 1, ![t][Star] = @ + 1]
  <2>1. visit'[v] = r /\ \A w \in Visits : w # v => visit'[w] = visit[w]
    BY <1>1, <1>2
  <2>2. UnlocksArePast'
    BY <1>2, <2>1 DEF UnlocksArePast
  <2>3. \A s \in 1..MaxToken :
          wrong'[s][Star] = IF s = t THEN wrong[s][Star] + 1 ELSE wrong[s][Star]
    <3> HIDE DEF t
    <3>1. wrong \in [1..MaxToken -> [Visitors \cup {Star} -> Nat]]
      BY <1>1 DEF RestOK
    <3>2. t \in 1..MaxToken /\ visit[v].by \in Visitors
      BY <1>1
    <3>3. QED
      BY <3>1, <3>2, <1>4, WindowsMove
  <2>4. ASSUME NEW s \in 1..MaxToken
        PROVE  wrong'[s][Star] + Cardinality(Past(s)') < PerToken + Cardinality(Visits)
    <3>1. Past(s)' = Past(s) \ {v} /\ Past(s) \in SUBSET Visits /\ wrong[s][Star] \in Nat
      BY <1>1, <1>2, <2>1 DEF Past, RestOK
    <3>2. (v \in Past(s)) <=> s = t
      BY <1>1 DEF Past
    <3>3. IsFiniteSet(Past(s)) /\ Cardinality(Past(s)) \in Nat /\ Cardinality(Visits) \in Nat
      BY <3>1, PastFinite
    <3>4. Cardinality(Past(s)') = IF s = t THEN Cardinality(Past(s)) - 1
                                  ELSE Cardinality(Past(s))
      BY <3>1, <3>2, <3>3, FS_RemoveElement
    <3>5. wrong[s][Star] + Cardinality(Past(s)) < PerToken + Cardinality(Visits)
      BY DEF Pressure
    <3>6. QED
      BY <2>3, <3>1, <3>3, <3>4, <3>5, SharesAssumption
  <2>5. QED
    BY <2>2, <2>4 DEF Pressure
<1>5. QED
  BY <1>3, <1>4 DEF Verify

\* The other steps of a visit leave no new attempt past the check.
LEMMA VisitPressure ==
  ASSUME SInv, RestOK', Pressure, UnlocksArePast, NEW v \in Visits, Visiting(v)
  PROVE  Pressure' /\ UnlocksArePast'
<1>1. ASSUME NEW d, Sent(v, d), wrong' = wrong
      PROVE  Pressure' /\ UnlocksArePast'
  <2> DEFINE r == [pc |-> "sent", id |-> 0, data |-> d, open |-> visit[v].open]
  <2>1. visit' = [visit EXCEPT ![v] = r] /\ r.pc = "sent"
    BY <1>1 DEF Sent
  <2> HIDE DEF r
  <2>2. QED
    BY <1>1, <2>1, OneMoves
<1>2. ASSUME NEW b \in Visitors, NEW i \in Ids, NEW route \in Routes, Resolve(v, b, i, route)
      PROVE  Pressure' /\ UnlocksArePast'
  <2>1. PICK S \in Asked(i, route) :
          visit' = [visit EXCEPT ![v] =
            [pc |-> IF route = "zip" THEN "consume" ELSE "read", route |-> route, by |-> b,
             id |-> i, terms |-> shares[i].terms, items |-> S, jar |-> cookie[b],
             token |-> shares[i].token, data |-> {},
             open |-> ~shares[i].terms.strip]]
    BY <1>2 DEF Resolve
  <2> DEFINE r == [pc |-> IF route = "zip" THEN "consume" ELSE "read", route |-> route,
                   by |-> b, id |-> i, terms |-> shares[i].terms, items |-> S,
                   jar |-> cookie[b], token |-> shares[i].token, data |-> {},
                   open |-> ~shares[i].terms.strip]
  <2>2. visit' = [visit EXCEPT ![v] = r] /\ wrong' = wrong
    BY <1>2, <2>1 DEF Resolve
  <2>3. r.pc \in {"consume", "send"} => r.route # "unlock"
    OBVIOUS
  <2> HIDE DEF r
  <2>4. QED
    BY <2>2, <2>3, OneMoves
<1>3. ASSUME Prepare(v)
      PROVE  Pressure' /\ UnlocksArePast'
  <2>1. CASE Refuse(v)
    BY <1>1, <1>3, <2>1 DEF Prepare, Refuse
  <2>2. CASE ~Refuse(v)
    <3> DEFINE d == Prepared(visit[v].items, visit[v].terms.strip)
               r == [visit[v] EXCEPT !.pc = "consume", !.data = d]
    <3>1. visit' = [visit EXCEPT ![v] = r] /\ wrong' = wrong
      BY <1>3, <2>2 DEF Prepare
    <3>2. r.route = visit[v].route /\ visit[v].route # "unlock"
      BY <1>3 DEF Prepare
    <3> HIDE DEF r
    <3>3. QED
      BY <3>1, <3>2, OneMoves
  <2>3. QED
    BY <2>1, <2>2
<1>4. ASSUME Play(v) \/ ZipMembers(v) \/ Send(v)
      PROVE  Pressure' /\ UnlocksArePast'
  BY <1>1, <1>4 DEF Play, ZipMembers, Send, Refuse
<1>5. ASSUME Consume(v)
      PROVE  Pressure' /\ UnlocksArePast'
  <2>1. CASE Refuse(v)
    BY <1>1, <1>5, <2>1 DEF Consume, Refuse
  <2>2. CASE ~Refuse(v)
    <3> DEFINE r == [visit[v] EXCEPT !.pc = "send"]
    <3>1. visit' = [visit EXCEPT ![v] = r] /\ wrong' = wrong
      BY <1>5, <2>2 DEF Consume
    <3>2. r.route = visit[v].route /\ visit[v].route # "unlock"
      BY <1>5 DEF Consume, UnlocksArePast
    <3> HIDE DEF r
    <3>3. QED
      BY <3>1, <3>2, OneMoves
  <2>3. QED
    BY <2>1, <2>2
<1>6. ASSUME Leave(v)
      PROVE  Pressure' /\ UnlocksArePast'
  <2>1. visit' = [visit EXCEPT ![v] = NoVisit] /\ NoVisit.pc = "idle" /\ wrong' = wrong
    BY <1>6 DEF Leave, NoVisit
  <2>2. QED
    BY <2>1, OneMoves
<1>7. QED
  BY <1>2, <1>3, <1>4, <1>5, <1>6, AttemptPressure, VerifyPressure DEF Visiting

LEMMA OwnersElsewherePressure ==
  ASSUME SInv, RestOK', Pressure, UnlocksArePast,
         (\E u \in Owners : Edit(u)) \/ Elsewhere \/ UNCHANGED vars
  PROVE  Pressure' /\ UnlocksArePast'
<1>1. RestOK /\ visit \in [Visits -> VisitState]
  BY TypeParts DEF SInv
<1>2. (\A t \in 1..MaxToken : wrong'[t][Star] <= wrong[t][Star])
  <2>1. CASE wrong' = wrong
    BY <1>1, <2>1 DEF RestOK
  <2>2. ASSUME NEW t \in 1..MaxToken, NEW b \in Visitors, Slide(t, b)
        PROVE  \A s \in 1..MaxToken : wrong'[s][Star] <= wrong[s][Star]
    BY <1>1, <2>2, WindowsMove DEF Slide, RestOK
  <2>3. QED
    BY <2>1, <2>2 DEF Edit, Create, CreateFromFolder, Patch, Revoke, HardDelete, PurgeSelect,
       PurgeDelete, Elsewhere, Expire, Change, Erase, vars
<1>3. (\E i \in Ids : \E terms : Opened(i, terms)) \/ visit' = visit
  <2>1. ASSUME NEW u, Edit(u)
        PROVE  (\E i \in Ids : \E terms : Opened(i, terms)) \/ visit' = visit
    <3>1. ASSUME NEW S, NEW first, NEW terms, Create(u, S, first, terms)
          PROVE  \E i \in Ids : \E t : Opened(i, t)
      BY <3>1 DEF Create
    <3>2. ASSUME NEW terms, CreateFromFolder(u, terms)
          PROVE  \E i \in Ids : \E t : Opened(i, t)
      BY <3>1, <3>2 DEF CreateFromFolder
    <3>3. ASSUME NEW i \in Ids, NEW terms, Patch(u, i, terms)
          PROVE  \E j \in Ids : \E t : Opened(j, t)
      BY <3>3 DEF Patch
    <3>4. ASSUME NEW i \in Ids, Revoke(u, i) \/ HardDelete(u, i)
          PROVE  visit' = visit
      BY <3>4 DEF Revoke, HardDelete
    <3>5. CASE PurgeSelect(u) \/ PurgeDelete(u)
      BY <3>5 DEF PurgeSelect, PurgeDelete
    <3>6. QED
      BY <2>1, <3>1, <3>2, <3>3, <3>4, <3>5 DEF Edit
  <2>2. CASE Elsewhere \/ UNCHANGED vars
    BY <2>2 DEF Elsewhere, Expire, Change, Erase, Slide, vars
  <2>3. QED
    BY <2>1, <2>2
<1>4. \A w \in Visits : \/ visit'[w] = visit[w]
                        \/ /\ visit[w].id \in Ids
                           /\ visit'[w] = [visit[w] EXCEPT !.open = TRUE]
  <2>1. ASSUME NEW i \in Ids, NEW terms, Opened(i, terms), NEW w \in Visits
        PROVE  \/ visit'[w] = visit[w]
               \/ /\ visit[w].id \in Ids
                  /\ visit'[w] = [visit[w] EXCEPT !.open = TRUE]
    <3>1. visit'[w] = IF visit[w].id = i /\ ~terms.strip
                        THEN [visit[w] EXCEPT !.open = TRUE] ELSE visit[w]
      BY <2>1 DEF Opened
    <3>2. QED
      BY <2>1, <3>1, Zenon
  <2>2. QED
    BY <1>3, <2>1
<1>5. QED
  BY <1>2, <1>4, NoneMoves

\* The wrong passwords of a link in one window never exceed the limit by more than the
\* attempts that were past the check.
THEOREM GuessesAreBounded == Spec => []GuessesBounded
<1> DEFINE GInv == SInv /\ Pressure /\ UnlocksArePast
<1>1. Init => GInv
  <2> SUFFICES ASSUME Init PROVE Pressure /\ UnlocksArePast
    BY InitSInv
  <2>1. UnlocksArePast /\ \A t \in 1..MaxToken : Past(t) = {} /\ wrong[t][Star] = 0
    BY DEF Init, UnlocksArePast, Past, NoVisit
  <2>2. QED
    BY <2>1, PastFinite, FS_EmptySet, SharesAssumption DEF Pressure
<1>2. GInv /\ [Next]_vars => GInv'
  <2> SUFFICES ASSUME GInv, [Next]_vars PROVE GInv'
    OBVIOUS
  <2>1. SInv'
    BY StepSInv
  <2>2. RestOK'
    BY <2>1 DEF SInv, TypeOK, RestOK
  <2>3. CASE \E v \in Visits : Visiting(v)
    BY <2>1, <2>2, <2>3, VisitPressure
  <2>4. CASE (\E u \in Owners : Edit(u)) \/ Elsewhere \/ UNCHANGED vars
    BY <2>1, <2>2, <2>4, OwnersElsewherePressure
  <2>5. QED
    BY <2>3, <2>4 DEF Next
<1>3. GInv => GuessesBounded
  <2> SUFFICES ASSUME GInv, NEW t \in 1..MaxToken
               PROVE  wrong[t][Star] < PerToken + Cardinality(Visits)
    BY DEF GuessesBounded
  <2>1. Past(t) \in SUBSET Visits /\ wrong[t][Star] \in Nat
    BY TypeParts DEF SInv, RestOK, Past
  <2>2. Cardinality(Past(t)) \in Nat /\ Cardinality(Visits) \in Nat
    BY <2>1, PastFinite
  <2>3. wrong[t][Star] + Cardinality(Past(t)) < PerToken + Cardinality(Visits)
    BY DEF Pressure
  <2>4. QED
    BY <2>1, <2>2, <2>3, SharesAssumption
<1>4. QED
  BY <1>1, <1>2, <1>3, PTL DEF Spec
-------------------------------------------------------------------------------
(***************************************************************************)
(* Accounts and sessions.  What a request checked is still so, unless      *)
(* history says that it was overtaken.                                     *)
(***************************************************************************)
LoginKnows ==
  \A r \in WebThreads : request[r].op = "login" =>
    /\ request[r].read \in Signing!User
    /\ ~request[r].overtaken =>
         /\ Signing!Present(request[r].id)
         /\ users[request[r].id].hash = request[r].read.hash

SessionsKnow ==
  \A b \in Browsers : session[b].id \in Signing!Ids /\ ~session[b].overtaken =>
    session[b].knew = session[b].print

\* A removal that was not overtaken leaves another administrator.
RemovalChecked ==
  \A r \in WebThreads : request[r].op \in Signing!Removals /\ ~request[r].overtaken =>
    raced \/ \E j \in Signing!Ids : j # request[r].id /\ Signing!IsAdmin(j)

AInv == Signing!TypeOK /\ LoginKnows /\ SessionsKnow /\ RemovalChecked /\ Signing!AdminRemains

-------------------------------------------------------------------------------
UsersOK ==
  /\ users \in [Signing!Ids -> Signing!User \cup {Signing!NoUser}]
  /\ \A i, j \in Signing!Ids : Signing!Present(i) /\ i # j => users[i].name # users[j].name

OthersOK ==
  /\ session \in [Browsers -> Signing!Session \cup {Signing!SignedOut}]
  /\ recent \in [Browsers -> Nat]
  /\ hashes \in 1..MaxHash /\ seeds \subseteq Signing!Hash
  /\ fails \in 0..MaxFails
  /\ raced \in BOOLEAN

RequestsOK == request \in [WebThreads -> Signing!Request \cup {Signing!NoRequest}]

LEMMA SigningParts == Signing!TypeOK <=> UsersOK /\ OthersOK /\ RequestsOK
  BY DEF Signing!TypeOK, UsersOK, OthersOK, RequestsOK

LEMMA Parts == AInv => UsersOK /\ OthersOK /\ RequestsOK
  BY SigningParts DEF AInv

LEMMA Nobody ==
  /\ 0 \notin Signing!Ids /\ Signing!NoUser \notin Signing!User /\ Signing!NoRequest \notin Signing!Request
     /\ Signing!SignedOut \notin Signing!Session
  BY DEF Signing!Ids, Signing!NoUser, Signing!User, Signing!NoRequest, Signing!Request,
     Signing!SignedOut, Signing!Session

LEMMA NobodysName ==
  ASSUME Signing!AccountsConstants, NEW u \in Signing!User
  PROVE  u.name # Signing!NoUser.name
  BY DEF Signing!AccountsConstants, Signing!User, Signing!NoUser

LEMMA Checked ==
  ASSUME AInv, NEW r \in WebThreads, request[r].op # "none"
  PROVE  /\ request[r] \in Signing!Request /\ request[r].id \in Signing!Ids /\ request[r].by \in Browsers
         /\ request[r].overtaken \in BOOLEAN
  BY Parts DEF RequestsOK, Signing!NoRequest, Signing!Request

LEMMA UserFacts ==
  ASSUME AInv, NEW i \in Signing!Ids, Signing!Present(i)
  PROVE  users[i] \in Signing!User /\ users[i].hash \in Signing!Hash
  BY Parts DEF UsersOK, Signing!Present, Signing!User

\* The users stay: each has the password and the rights it had.
SameUsers ==
  \A i \in Signing!Ids : /\ Signing!Present(i)' = Signing!Present(i)
                         /\ Signing!Present(i) => /\ users'[i].hash = users[i].hash
                                                  /\ users'[i].admin = users[i].admin

-------------------------------------------------------------------------------
(***************************************************************************)
(* Requests end.                                                           *)
(***************************************************************************)
LEMMA Ended ==
  ASSUME AInv, NEW r \in WebThreads, NEW S \in SUBSET WebThreads, Signing!Ends(r, S),
         \A q \in S : request[q].op # "none"
  PROVE  /\ RequestsOK'
         /\ \A q \in WebThreads : request'[q].op # "none" =>
              /\ q # r /\ request[q].op = request'[q].op
              /\ request'[q].id = request[q].id /\ request'[q].read = request[q].read
              /\ (request[q].overtaken \/ q \in S => request'[q].overtaken)
<1>1. ASSUME NEW q \in WebThreads
      PROVE  /\ request'[q] \in Signing!Request \cup {Signing!NoRequest}
             /\ request'[q].op # "none" =>
                  /\ q # r /\ request[q].op = request'[q].op
                  /\ request'[q].id = request[q].id /\ request'[q].read = request[q].read
                  /\ (request[q].overtaken \/ q \in S => request'[q].overtaken)
  <2>1. CASE q = r
    BY <2>1 DEF Signing!Ends, Signing!NoRequest
  <2>2. CASE q # r /\ q \in S
    <3>1. request[q] \in Signing!Request
      BY <2>2, Checked
    <3>2. request'[q] = [request[q] EXCEPT !.overtaken = TRUE]
      BY <2>2 DEF Signing!Ends
    <3>3. QED
      BY <2>2, <3>1, <3>2 DEF Signing!Request
  <2>3. CASE q # r /\ q \notin S
    <3>1. request'[q] = request[q] /\ request[q] \in Signing!Request \cup {Signing!NoRequest}
      BY <2>3, Parts DEF Signing!Ends, RequestsOK
    <3>2. request[q].op # "none" => request[q].overtaken \in BOOLEAN
      BY Checked
    <3>3. QED
      BY <2>3, <3>1, <3>2
  <2>4. QED
    BY <2>1, <2>2, <2>3
<1>2. request' = [q \in WebThreads |-> request'[q]]
  BY DEF Signing!Ends
<1>3. RequestsOK'
  BY <1>1, <1>2 DEF RequestsOK
<1>4. QED
  BY <1>1, <1>3

\* The types and the three invariants about requests after a step that keeps the users.
LEMMA UsersKept ==
  ASSUME AInv, UsersOK', OthersOK', RequestsOK', SameUsers, raced' = raced, SessionsKnow',
         \A q \in WebThreads : request'[q].op \in Signing!Removals \cup {"login"} =>
           /\ request'[q].op = request[q].op /\ request'[q].id = request[q].id
           /\ request'[q].read = request[q].read
           /\ request[q].overtaken => request'[q].overtaken
  PROVE  AInv'
<1>1. Signing!TypeOK'
  BY DEF Signing!TypeOK, UsersOK, OthersOK, RequestsOK
<1>2. \A i \in Signing!Ids : Signing!IsAdmin(i) => Signing!IsAdmin(i)'
  BY DEF SameUsers, Signing!IsAdmin
<1>3. Signing!AdminRemains'
  BY <1>2 DEF AInv, Signing!AdminRemains
<1>4. LoginKnows'
  <2>1. SUFFICES ASSUME NEW q \in WebThreads, request'[q].op = "login"
                 PROVE  /\ request'[q].read \in Signing!User
                        /\ ~request'[q].overtaken =>
                             /\ users'[request'[q].id] # Signing!NoUser
                             /\ users'[request'[q].id].hash = request'[q].read.hash
    BY DEF LoginKnows, Signing!Present
  <2>2. request[q].op = "login" /\ request[q].id \in Signing!Ids
    BY <2>1, Checked
  <2>3. QED
    BY <2>1, <2>2 DEF AInv, LoginKnows, SameUsers, Signing!Present
<1>5. RemovalChecked'
  <2>1. SUFFICES ASSUME NEW q \in WebThreads, request'[q].op \in Signing!Removals, ~request'[q].overtaken
                 PROVE  raced' \/ \E j \in Signing!Ids : j # request'[q].id /\ Signing!IsAdmin(j)'
    BY DEF RemovalChecked, Signing!Removals
  <2>2. QED
    BY <1>2, <2>1 DEF AInv, RemovalChecked
<1>6. QED
  BY <1>1, <1>3, <1>4, <1>5 DEF AInv

-------------------------------------------------------------------------------
(***************************************************************************)
(* Steps that leave the users as they are.                                 *)
(***************************************************************************)
LEMMA Misses ==
  ASSUME AInv, Signing!AccountsConstants, NEW b \in Browsers, Signing!Miss(b)
  PROVE  recent' \in [Browsers -> Nat] /\ fails' \in 0..MaxFails
<1>1. OthersOK
  BY Parts
<1>2. fails \in Nat /\ MaxFails \in Nat
  BY <1>1 DEF OthersOK, Signing!AccountsConstants
<1>3. fails' \in 0..MaxFails
  BY <1>2 DEF Signing!Miss
<1>4. recent' \in [Browsers -> Nat]
  BY <1>1 DEF Signing!Miss, OthersOK
<1>5. QED
  BY <1>3, <1>4

\* The users, their number of requests and history stay; cookies only go.
LEMMA Untouched ==
  ASSUME AInv, OthersOK', users' = users, request' = request, raced' = raced,
         \A b \in Browsers : session'[b] = session[b] \/ session'[b] = Signing!SignedOut
  PROVE  AInv'
<1>1. UsersOK' /\ RequestsOK'
  BY Parts DEF UsersOK, RequestsOK, Signing!Present
<1>2. SameUsers
  BY DEF SameUsers, Signing!Present
<1>3. SessionsKnow'
  BY Nobody DEF AInv, SessionsKnow, Signing!SignedOut
<1>4. QED
  BY <1>1, <1>2, <1>3, UsersKept

LEMMA AsideStep ==
  ASSUME AInv, Signing!AccountsConstants, NEW b \in Browsers,
         \/ Signing!Logout(b) \/ Signing!LoginUnknown(b) \/ Signing!Pass(b)
         \/ \E i \in Signing!Ids : Signing!ChangeFails(b, i)
  PROVE  AInv'
<1>1. OthersOK
  BY Parts
<1>2. CASE Signing!Logout(b)
  <2>1. /\ session' \in [Browsers -> Signing!Session \cup {Signing!SignedOut}]
        /\ \A c \in Browsers : session'[c] = session[c] \/ session'[c] = Signing!SignedOut
    BY <1>1, <1>2 DEF Signing!Logout, OthersOK
  <2>2. OthersOK'
    BY <1>1, <1>2, <2>1 DEF Signing!Logout, OthersOK
  <2>3. QED
    BY <1>2, <2>1, <2>2, Untouched DEF Signing!Logout
<1>3. CASE Signing!LoginUnknown(b) \/ \E i \in Signing!Ids : Signing!ChangeFails(b, i)
  <2>1. Signing!Miss(b)
    BY <1>3 DEF Signing!LoginUnknown, Signing!ChangeFails
  <2>2. OthersOK'
    BY <1>1, <1>3, <2>1, Misses DEF Signing!LoginUnknown, Signing!ChangeFails, OthersOK
  <2>3. QED
    BY <1>3, <2>2, Untouched DEF Signing!LoginUnknown, Signing!ChangeFails
<1>4. CASE Signing!Pass(b)
  <2>1. recent' \in [Browsers -> Nat]
    BY <1>1, <1>4 DEF Signing!Pass, OthersOK
  <2>2. OthersOK'
    BY <1>1, <1>4, <2>1 DEF Signing!Pass, OthersOK
  <2>3. QED
    BY <1>4, <2>2, Untouched DEF Signing!Pass
<1>5. QED
  BY <1>2, <1>3, <1>4

-------------------------------------------------------------------------------
(***************************************************************************)
(* Requests begin.                                                         *)
(***************************************************************************)
Ops == {"login", "setup", "change", "demote", "promote", "delete", "reset"}

LEMMA Begins ==
  ASSUME AInv, NEW r \in WebThreads, NEW op \in Ops, NEW b \in Browsers, NEW i \in Signing!Ids,
         Signing!Begin(r, op, b, i), Signing!Present(i),
         op \in Signing!Removals => \E j \in Signing!Ids : j # i /\ Signing!IsAdmin(j),
         UNCHANGED <<users, session, recent, hashes, seeds, fails, raced>>
  PROVE  AInv'
<1> DEFINE new == [op |-> op, by |-> b, id |-> i, overtaken |-> FALSE,
                   read |-> IF op = "login" THEN users[i] ELSE Signing!NoUser]
<1>1. users[i] \in Signing!User
  BY UserFacts
<1>2. new \in Signing!Request
  BY <1>1 DEF Signing!Request, Ops
<1>3. /\ new.op = op /\ new.id = i /\ ~new.overtaken
      /\ op = "login" => new.read = users[i]
  OBVIOUS
<1> HIDE DEF new
<1>4. request' = [request EXCEPT ![r] = new]
  BY DEF Signing!Begin, new
<1>5. request'[r] = new /\ \A q \in WebThreads : q # r => request'[q] = request[q]
  BY <1>4, Parts DEF RequestsOK
<1>6. UsersOK' /\ OthersOK' /\ RequestsOK'
  BY <1>2, <1>4, Parts DEF UsersOK, OthersOK, RequestsOK, Signing!Present
<1>7. Signing!TypeOK'
  BY <1>6 DEF Signing!TypeOK, UsersOK, OthersOK, RequestsOK
<1>8. LoginKnows'
  BY <1>1, <1>3, <1>5 DEF AInv, LoginKnows, Signing!Present
<1>9. RemovalChecked'
  BY <1>3, <1>5 DEF AInv, RemovalChecked, Signing!IsAdmin, Signing!Present
<1>10. SessionsKnow' /\ Signing!AdminRemains'
  BY DEF AInv, SessionsKnow, Signing!AdminRemains, Signing!IsAdmin, Signing!Present
<1>11. QED
  BY <1>7, <1>8, <1>9, <1>10 DEF AInv

LEMMA EntryStep ==
  ASSUME AInv, NEW r \in WebThreads, NEW b \in Browsers, NEW i \in Signing!Ids,
         \/ Signing!LoginBegin(r, b, i) \/ Signing!ChangeBegin(r, b, i)
         \/ \E op \in Signing!Removals \cup {"promote", "reset"} : Signing!AdminBegin(r, b, op, i)
  PROVE  AInv'
<1>1. CASE Signing!LoginBegin(r, b, i)
  BY <1>1, Begins DEF Signing!LoginBegin, Ops, Signing!Removals
<1>2. CASE Signing!ChangeBegin(r, b, i)
  BY <1>2, Begins DEF Signing!ChangeBegin, Signing!SignedIn, Ops, Signing!Removals
<1>3. ASSUME NEW op \in Signing!Removals \cup {"promote", "reset"}, Signing!AdminBegin(r, b, op, i)
      PROVE  AInv'
  <2>1. op \in Ops
    BY DEF Ops, Signing!Removals
  <2>2. PICK a \in Signing!Ids : Signing!IsAdmin(a) /\ (op \in Signing!Removals => Signing!MayRemove(a, i))
    BY <1>3 DEF Signing!AdminBegin
  <2>3. op \in Signing!Removals => \E j \in Signing!Ids : j # i /\ Signing!IsAdmin(j)
    BY <2>2 DEF Signing!MayRemove
  <2>4. QED
    BY <1>3, <2>1, <2>3, Begins DEF Signing!AdminBegin
<1>4. QED
  BY <1>1, <1>2, <1>3

LEMMA SetupBeginStep ==
  ASSUME AInv, NEW r \in WebThreads, NEW b \in Browsers, Signing!SetupBegin(r, b)
  PROVE  AInv'
<1>1. PICK i \in Signing!Ids : Signing!IsAdmin(i) /\ Signing!Begin(r, "setup", b, i)
  BY DEF Signing!SetupBegin
<1>2. "setup" \in Ops /\ "setup" \notin Signing!Removals
  BY DEF Ops, Signing!Removals
<1>3. QED
  BY <1>1, <1>2, Begins DEF Signing!SetupBegin, Signing!IsAdmin

-------------------------------------------------------------------------------
(***************************************************************************)
(* Logins end.                                                             *)
(***************************************************************************)
\* A change to the failures and the lock of one user.
LEMMA LockChange ==
  ASSUME AInv, NEW i \in Signing!Ids, Signing!Present(i), NEW n \in 0..Threshold,
         NEW l \in {"no", "yes", "over"},
         users' = [users EXCEPT ![i] = [users[i] EXCEPT !.failed = n, !.locked = l]]
  PROVE  UsersOK' /\ SameUsers
<1> DEFINE new == [users[i] EXCEPT !.failed = n, !.locked = l]
<1>1. UsersOK /\ users[i] \in Signing!User
  BY Parts, UserFacts
<1>2. /\ new \in Signing!User /\ new.name = users[i].name /\ new.hash = users[i].hash
      /\ new.admin = users[i].admin
  BY <1>1 DEF Signing!User
<1> HIDE DEF new
<1>3. users' = [users EXCEPT ![i] = new]
  BY DEF new
<1>4. users'[i] = new /\ \A j \in Signing!Ids : j # i => users'[j] = users[j]
  BY <1>1, <1>3 DEF UsersOK
<1>5. SameUsers
  BY <1>2, <1>4, Nobody DEF SameUsers, Signing!Present
<1>6. users' \in [Signing!Ids -> Signing!User \cup {Signing!NoUser}]
  BY <1>1, <1>2, <1>3 DEF UsersOK
<1>7. \A j, k \in Signing!Ids : Signing!Present(j)' /\ j # k => users'[j].name # users'[k].name
  BY <1>1, <1>2, <1>4, <1>5 DEF UsersOK, SameUsers
<1>8. QED
  BY <1>5, <1>6, <1>7 DEF UsersOK

LEMMA LoginFailsStep ==
  ASSUME AInv, Signing!AccountsConstants, NEW r \in WebThreads, Signing!LoginFails(r)
  PROVE  AInv'
<1> DEFINE i == request[r].id
           f == request[r].read.failed + 1
           m == IF f >= Threshold THEN 0 ELSE f
<1>1. /\ request[r] \in Signing!Request /\ i \in Signing!Ids /\ request[r].by \in Browsers
      /\ request[r].read \in Signing!User /\ UsersOK /\ OthersOK
  BY Checked, Parts DEF Signing!LoginFails, AInv, LoginKnows
<1>2. request[r].read.failed \in 0..Threshold /\ Threshold \in Nat
  BY <1>1 DEF Signing!User, Signing!AccountsConstants
<1>3. m \in 0..Threshold
  BY <1>2
<1>4. UsersOK' /\ SameUsers
  <2>1. CASE ~Signing!Present(i)
    BY <1>1, <2>1 DEF Signing!LoginFails, UsersOK, SameUsers, Signing!Present
  <2>2. CASE Signing!Present(i)
    <3> DEFINE n == IF m = request[r].read.failed THEN users[i].failed ELSE m
               l == IF f >= Threshold THEN "yes" ELSE users[i].locked
    <3>1. users[i] \in Signing!User
      BY <1>1, <2>2, UserFacts
    <3>2. n \in 0..Threshold /\ l \in {"no", "yes", "over"}
      BY <1>3, <3>1 DEF Signing!User
    <3>3. users' = [users EXCEPT ![i] = [users[i] EXCEPT !.failed = n, !.locked = l]]
      BY <2>2, <3>1 DEF Signing!LoginFails, Signing!User
    <3> HIDE DEF n, l
    <3>4. QED
      BY <1>1, <2>2, <3>2, <3>3, LockChange
  <2>3. QED
    BY <2>1, <2>2
<1>5. Signing!Ends(r, {}) /\ Signing!Miss(request[r].by)
  BY DEF Signing!LoginFails
<1>6. OthersOK'
  BY <1>1, <1>5, Misses DEF Signing!LoginFails, OthersOK
<1>7. /\ RequestsOK'
      /\ \A q \in WebThreads : request'[q].op # "none" => request'[q] = request[q]
  <2>1. RequestsOK'
    BY <1>5, Ended
  <2>2. QED
    BY <1>5, <2>1 DEF Signing!Ends, Signing!NoRequest
<1>8. SessionsKnow' /\ raced' = raced
  BY DEF Signing!LoginFails, AInv, SessionsKnow
<1>9. QED
  BY <1>4, <1>6, <1>7, <1>8, UsersKept DEF Signing!Removals

LEMMA StartsSession ==
  ASSUME AInv, NEW r \in WebThreads, request[r].op # "none", NEW knew \in Signing!Hash,
         NEW print \in Signing!Hash,
         Signing!StartSession(r, knew, print), ~request[r].overtaken => knew = print
  PROVE  session' \in [Browsers -> Signing!Session \cup {Signing!SignedOut}] /\ SessionsKnow'
<1> DEFINE new == [id |-> request[r].id, print |-> print, knew |-> knew,
                   overtaken |-> request[r].overtaken]
<1>1. /\ request[r].id \in Signing!Ids /\ request[r].by \in Browsers /\ OthersOK
      /\ request[r].overtaken \in BOOLEAN
  BY Checked, Parts
<1>2. new \in Signing!Session /\ (~new.overtaken => new.knew = new.print)
  BY <1>1 DEF Signing!Session
<1> HIDE DEF new
<1>3. session' = [session EXCEPT ![request[r].by] = new]
  BY DEF Signing!StartSession, new
<1>4. session' \in [Browsers -> Signing!Session \cup {Signing!SignedOut}]
  BY <1>1, <1>2, <1>3 DEF OthersOK
<1>5. SessionsKnow'
  BY <1>1, <1>2, <1>3 DEF AInv, SessionsKnow, OthersOK
<1>6. QED
  BY <1>4, <1>5

LEMMA LoginSucceedsStep ==
  ASSUME AInv, Signing!AccountsConstants, NEW r \in WebThreads, Signing!LoginSucceeds(r)
  PROVE  AInv'
<1> DEFINE i == request[r].id
           read == request[r].read
<1>1. /\ request[r] \in Signing!Request /\ i \in Signing!Ids /\ request[r].by \in Browsers
      /\ read \in Signing!User /\ UsersOK /\ OthersOK /\ request[r].op = "login"
  BY Checked, Parts DEF Signing!LoginSucceeds, AInv, LoginKnows
<1>2. /\ UsersOK' /\ SameUsers /\ SessionsKnow'
      /\ session' \in [Browsers -> Signing!Session \cup {Signing!SignedOut}]
  <2>1. CASE ~Signing!Present(i)
    BY <1>1, <2>1 DEF Signing!LoginSucceeds, UsersOK, OthersOK, SameUsers, Signing!Present, AInv,
       SessionsKnow
  <2>2. CASE Signing!Present(i)
    <3> DEFINE n == IF read.failed = 0 THEN users[i].failed ELSE 0
               l == IF read.locked = "no" THEN users[i].locked ELSE "no"
    <3>1. users[i] \in Signing!User /\ Threshold \in Nat
      BY <1>1, <2>2, UserFacts DEF Signing!AccountsConstants
    <3>2. n \in 0..Threshold /\ l \in {"no", "yes", "over"}
      BY <3>1 DEF Signing!User
    <3>3. users' = [users EXCEPT ![i] = [users[i] EXCEPT !.failed = n, !.locked = l]]
      BY <2>2, <3>1 DEF Signing!LoginSucceeds, Signing!User
    <3> HIDE DEF n, l
    <3>4. UsersOK' /\ SameUsers
      BY <1>1, <2>2, <3>2, <3>3, LockChange
    <3>5. Signing!StartSession(r, read.hash, users[i].hash)
      BY <2>2 DEF Signing!LoginSucceeds
    <3>6. read.hash \in Signing!Hash /\ users[i].hash \in Signing!Hash
      BY <1>1, <3>1 DEF Signing!User
    <3>7. ~request[r].overtaken => read.hash = users[i].hash
      BY <1>1 DEF AInv, LoginKnows
    <3>8. QED
      BY <1>1, <3>4, <3>5, <3>6, <3>7, StartsSession
  <2>3. QED
    BY <2>1, <2>2
<1>3. OthersOK'
  BY <1>1, <1>2 DEF Signing!LoginSucceeds, OthersOK
<1>4. /\ RequestsOK'
      /\ \A q \in WebThreads : request'[q].op # "none" => request'[q] = request[q]
  <2>1. Signing!Ends(r, {}) /\ {} \in SUBSET WebThreads
    BY DEF Signing!LoginSucceeds
  <2>2. RequestsOK'
    BY <2>1, Ended
  <2>3. QED
    BY <2>1, <2>2 DEF Signing!Ends, Signing!NoRequest
<1>5. raced' = raced
  BY DEF Signing!LoginSucceeds
<1>6. QED
  BY <1>2, <1>3, <1>4, <1>5, UsersKept DEF Signing!Removals

-------------------------------------------------------------------------------
(***************************************************************************)
(* Passwords, users and rights change.                                     *)
(***************************************************************************)
LEMMA NewHashFacts ==
  ASSUME AInv, Signing!AccountsConstants, Signing!NewHash
  PROVE  hashes' \in Signing!Hash /\ hashes' \in 1..MaxHash
<1>1. hashes \in 1..MaxHash /\ MaxHash \in Nat
  BY Parts DEF OthersOK, Signing!AccountsConstants
<1>2. QED
  BY <1>1 DEF Signing!NewHash, Signing!Hash

LEMMA SetPasswordStep ==
  ASSUME AInv, Signing!AccountsConstants, NEW r \in WebThreads, Signing!SetPassword(r)
  PROVE  AInv'
<1> DEFINE i == request[r].id
<1>1. /\ request[r] \in Signing!Request /\ i \in Signing!Ids /\ request[r].op # "none"
      /\ UsersOK /\ OthersOK /\ RequestsOK
  BY Checked, Parts DEF Signing!SetPassword
<1>2. hashes' \in Signing!Hash /\ hashes' \in 1..MaxHash
  BY NewHashFacts DEF Signing!SetPassword
<1>3. CASE ~Signing!Present(i)
  <2>1. UsersOK' /\ OthersOK' /\ SameUsers /\ SessionsKnow'
    BY <1>1, <1>2, <1>3 DEF Signing!SetPassword, UsersOK, OthersOK, SameUsers, Signing!Present,
       AInv, SessionsKnow
  <2>2. RequestsOK'
    BY <1>3, Ended DEF Signing!SetPassword
  <2>3. \A q \in WebThreads : request'[q].op # "none" => request'[q] = request[q]
    BY <1>3 DEF Signing!SetPassword, Signing!Ends, Signing!NoRequest
  <2>4. raced' = raced
    BY DEF Signing!SetPassword
  <2>5. QED
    BY <2>1, <2>2, <2>3, <2>4, UsersKept DEF Signing!Removals
<1>4. CASE Signing!Present(i)
  <2> DEFINE new == [users[i] EXCEPT !.hash = hashes']
  <2>1. users[i] \in Signing!User
    BY <1>1, <1>4, UserFacts
  <2>2. new \in Signing!User /\ new.name = users[i].name /\ new.admin = users[i].admin
    BY <1>2, <2>1 DEF Signing!User
  <2>3. users' = [users EXCEPT ![i] = new]
    BY <1>4 DEF Signing!SetPassword
  <2> HIDE DEF new
  <2>4. users'[i] = new /\ \A j \in Signing!Ids : j # i => users'[j] = users[j]
    BY <1>1, <2>3 DEF UsersOK
  <2>5. \A j \in Signing!Ids : Signing!Present(j)' = Signing!Present(j)
        /\ Signing!IsAdmin(j)' = Signing!IsAdmin(j)
    BY <1>4, <2>2, <2>4, Nobody DEF Signing!Present, Signing!IsAdmin
  <2>6. UsersOK'
    <3>1. users' \in [Signing!Ids -> Signing!User \cup {Signing!NoUser}]
      BY <1>1, <2>2, <2>3 DEF UsersOK
    <3>2. \A j, k \in Signing!Ids : Signing!Present(j)' /\ j # k => users'[j].name # users'[k].name
      BY <1>1, <2>2, <2>4, <2>5 DEF UsersOK
    <3>3. QED
      BY <3>1, <3>2 DEF UsersOK
  <2>7. Signing!On(i) \in SUBSET WebThreads /\ \A q \in Signing!On(i) : request[q].op # "none"
    BY <1>1, Nobody DEF Signing!On, RequestsOK, Signing!NoRequest, Signing!Request
  <2>8. Signing!Ends(r, Signing!On(i))
    BY <1>4 DEF Signing!SetPassword
  <2>9. /\ RequestsOK'
        /\ \A q \in WebThreads : request'[q].op # "none" =>
             /\ request[q].op = request'[q].op /\ request'[q].id = request[q].id
             /\ request'[q].read = request[q].read
             /\ (request[q].overtaken \/ q \in Signing!On(i) => request'[q].overtaken)
    BY <2>7, <2>8, Ended
  <2>10. session' \in [Browsers -> Signing!Session \cup {Signing!SignedOut}] /\ SessionsKnow'
    <3>1. CASE session' = session
      BY <1>1, <3>1 DEF OthersOK, AInv, SessionsKnow
    <3>2. CASE Signing!StartSession(r, hashes', hashes')
      BY <1>1, <1>2, <3>2, StartsSession
    <3>3. QED
      BY <1>4, <3>1, <3>2 DEF Signing!SetPassword
  <2>11. OthersOK'
    BY <1>1, <1>2, <2>10 DEF Signing!SetPassword, OthersOK
  <2>12. Signing!TypeOK'
    BY <2>6, <2>9, <2>11 DEF Signing!TypeOK, UsersOK, OthersOK, RequestsOK
  <2>13. LoginKnows'
    <3>1. SUFFICES ASSUME NEW q \in WebThreads, request'[q].op = "login"
                   PROVE  /\ request'[q].read \in Signing!User
                          /\ ~request'[q].overtaken =>
                               /\ users'[request'[q].id] # Signing!NoUser
                               /\ users'[request'[q].id].hash = request'[q].read.hash
      BY DEF LoginKnows, Signing!Present
    <3>2. request[q].op = "login" /\ request[q].id \in Signing!Ids /\ request'[q].id = request[q].id
      BY <2>9, <3>1, Checked
    <3>3. q \notin Signing!On(i) => request[q].id # i
      BY DEF Signing!On
    <3>4. QED
      BY <2>4, <2>9, <3>1, <3>2, <3>3 DEF AInv, LoginKnows, Signing!Present
  <2>14. RemovalChecked'
    <3>1. SUFFICES ASSUME NEW q \in WebThreads, request'[q].op \in Signing!Removals,
                          ~request'[q].overtaken
                   PROVE  raced' \/ \E j \in Signing!Ids : j # request'[q].id /\ Signing!IsAdmin(j)'
      BY DEF RemovalChecked, Signing!Removals
    <3>2. request[q].op \in Signing!Removals /\ ~request[q].overtaken /\ request'[q].id = request[q].id
      BY <2>9, <3>1 DEF Signing!Removals
    <3>3. raced' = raced
      BY DEF Signing!SetPassword
    <3>4. QED
      BY <2>5, <3>2, <3>3 DEF AInv, RemovalChecked
  <2>15. Signing!AdminRemains'
    BY <2>5 DEF AInv, Signing!AdminRemains, Signing!SetPassword
  <2>16. QED
    BY <2>10, <2>12, <2>13, <2>14, <2>15 DEF AInv
<1>5. QED
  BY <1>3, <1>4

LEMMA CreateUserStep ==
  ASSUME AInv, Signing!AccountsConstants, NEW b \in Browsers, NEW name \in UserNames, NEW chief \in BOOLEAN,
         Signing!CreateUser(b, name, chief)
  PROVE  AInv'
<1>1. UsersOK /\ OthersOK /\ RequestsOK
  BY Parts
<1>2. hashes' \in Signing!Hash /\ hashes' \in 1..MaxHash
  BY NewHashFacts DEF Signing!CreateUser
<1> DEFINE new == [name |-> name, hash |-> hashes', admin |-> chief, failed |-> 0, locked |-> "no"]
<1>3. PICK i \in Signing!Ids : ~Signing!Present(i) /\ users' = [users EXCEPT ![i] = new]
  BY DEF Signing!CreateUser
<1>4. new \in Signing!User /\ new.name = name
  BY <1>2 DEF Signing!User, Signing!AccountsConstants
<1> HIDE DEF new
<1>5. users'[i] = new /\ \A j \in Signing!Ids : j # i => users'[j] = users[j]
  BY <1>1, <1>3 DEF UsersOK
<1>6. UsersOK'
  <2>1. users' \in [Signing!Ids -> Signing!User \cup {Signing!NoUser}]
    BY <1>1, <1>3, <1>4 DEF UsersOK
  <2>2. \A j \in Signing!Ids : users[j].name # name
    BY DEF Signing!CreateUser
  <2>3. \A j, k \in Signing!Ids : Signing!Present(j)' /\ j # k => users'[j].name # users'[k].name
    BY <1>1, <1>4, <1>5, <2>2 DEF UsersOK, Signing!Present
  <2>4. QED
    BY <2>1, <2>3 DEF UsersOK
<1>7. OthersOK' /\ RequestsOK'
  BY <1>1, <1>2 DEF Signing!CreateUser, OthersOK, RequestsOK
<1>8. Signing!TypeOK'
  BY <1>6, <1>7 DEF Signing!TypeOK, UsersOK, OthersOK, RequestsOK
<1>9. \A j \in Signing!Ids : Signing!Present(j) => users'[j] = users[j] /\ Signing!Present(j)'
  BY <1>3, <1>5 DEF Signing!Present
<1>10. request' = request /\ session' = session /\ raced' = raced
  BY DEF Signing!CreateUser
<1>11. LoginKnows'
  BY <1>9, <1>10, Checked DEF AInv, LoginKnows, Signing!Present
<1>12. RemovalChecked' /\ Signing!AdminRemains' /\ SessionsKnow'
  BY <1>9, <1>10 DEF AInv, RemovalChecked, Signing!AdminRemains, SessionsKnow, Signing!IsAdmin
<1>13. QED
  BY <1>8, <1>11, <1>12 DEF AInv

LEMMA LockEndsStep ==
  ASSUME AInv, NEW i \in Signing!Ids, Signing!LockEnds(i)
  PROVE  AInv'
<1>1. users[i] \in Signing!User /\ Signing!Present(i)
  BY UserFacts DEF Signing!LockEnds
<1> DEFINE n == users[i].failed
<1>2. n \in 0..Threshold
  BY <1>1 DEF Signing!User
<1>3. users' = [users EXCEPT ![i] = [users[i] EXCEPT !.failed = n, !.locked = "over"]]
  <2>1. [users[i] EXCEPT !.failed = n, !.locked = "over"] = [users[i] EXCEPT !.locked = "over"]
    BY <1>1 DEF Signing!User
  <2>2. QED
    BY <2>1 DEF Signing!LockEnds
<1> HIDE DEF n
<1>4. UsersOK' /\ SameUsers
  BY <1>1, <1>2, <1>3, LockChange
<1>5. OthersOK' /\ RequestsOK' /\ SessionsKnow' /\ request' = request /\ raced' = raced
  BY Parts DEF Signing!LockEnds, OthersOK, RequestsOK, AInv, SessionsKnow
<1>6. QED
  BY <1>4, <1>5, UsersKept

\* An administrator who goes is known to every other removal under way.
LEMMA AdminEndStep ==
  ASSUME AInv, Signing!AccountsConstants, NEW r \in WebThreads, Signing!AdminEnd(r),
         NEW i \in Signing!Ids, request[r].id = i
  PROVE  AInv'
<1> DEFINE op == request[r].op
           S == (IF op = "delete" THEN Signing!On(i) ELSE {}) \cup
                (IF op \in Signing!Removals /\ Signing!IsAdmin(i) THEN Signing!Removing ELSE {})
<1>1. /\ request[r] \in Signing!Request /\ i \in Signing!Ids /\ op \in {"demote", "promote", "delete"}
      /\ UsersOK /\ OthersOK /\ RequestsOK /\ request[r].overtaken \in BOOLEAN
  BY Checked, Parts DEF Signing!AdminEnd
<1>2. S \in SUBSET WebThreads /\ \A q \in S : request[q].op # "none"
  BY <1>1, Nobody DEF Signing!On, Signing!Removing, Signing!Removals, RequestsOK,
     Signing!NoRequest, Signing!Request
<1>3. Signing!Ends(r, S)
  BY DEF Signing!AdminEnd
<1> HIDE DEF S
<1>4. /\ RequestsOK'
      /\ \A q \in WebThreads : request'[q].op # "none" =>
           /\ q # r /\ request[q].op = request'[q].op
           /\ request'[q].id = request[q].id /\ request'[q].read = request[q].read
           /\ (request[q].overtaken \/ q \in S => request'[q].overtaken)
  BY <1>2, <1>3, Ended
<1>5. ASSUME Signing!Present(i)
      PROVE  \/ op = "delete" /\ users' = [users EXCEPT ![i] = Signing!NoUser]
             \/ /\ op \in {"demote", "promote"}
                /\ users' = [users EXCEPT ![i] = [users[i] EXCEPT !.admin = (op = "promote")]]
                /\ [users[i] EXCEPT !.admin = (op = "promote")] \in Signing!User
  <2>1. users[i] \in Signing!User
    BY <1>1, <1>5, UserFacts
  <2>2. [users[i] EXCEPT !.admin = (op = "promote")] \in Signing!User
    BY <2>1 DEF Signing!User
  <2>3. QED
    BY <1>1, <1>5, <2>2 DEF Signing!AdminEnd
<1>6. /\ users' \in [Signing!Ids -> Signing!User \cup {Signing!NoUser}]
      /\ \A j \in Signing!Ids : j # i => users'[j] = users[j]
      /\ ~Signing!Present(i) \/ op = "delete" => ~Signing!Present(i)'
      /\ Signing!Present(i) /\ op # "delete" =>
           /\ Signing!Present(i)' /\ users'[i].name = users[i].name /\ users'[i].hash = users[i].hash
           /\ users'[i].admin = (op = "promote")
  <2>1. CASE ~Signing!Present(i)
    BY <1>1, <2>1 DEF Signing!AdminEnd, UsersOK, Signing!Present
  <2>2. CASE Signing!Present(i) /\ op = "delete"
    BY <1>1, <1>5, <2>2 DEF UsersOK, Signing!Present
  <2>3. CASE Signing!Present(i) /\ op # "delete"
    <3> DEFINE new == [users[i] EXCEPT !.admin = (op = "promote")]
    <3>1. users[i] \in Signing!User
      BY <1>1, <2>3, UserFacts
    <3>2. /\ new \in Signing!User /\ new.name = users[i].name /\ new.hash = users[i].hash
          /\ new.admin = (op = "promote")
      BY <3>1 DEF Signing!User
    <3>3. users' = [users EXCEPT ![i] = new]
      BY <1>5, <2>3
    <3> HIDE DEF new
    <3>4. users'[i] = new
      BY <1>1, <3>3 DEF UsersOK
    <3>5. Signing!Present(i)'
      BY <3>2, <3>4, Nobody DEF Signing!Present
    <3>6. QED
      BY <1>1, <2>3, <3>2, <3>3, <3>4, <3>5 DEF UsersOK
  <2>4. QED
    BY <2>1, <2>2, <2>3
<1>7. UsersOK'
  <2>1. ASSUME NEW j \in Signing!Ids, Signing!Present(j)'
        PROVE  Signing!Present(j) /\ users'[j].name = users[j].name
    BY <1>6, <2>1 DEF Signing!Present
  <2>2. ASSUME NEW j \in Signing!Ids, NEW k \in Signing!Ids, Signing!Present(j)', j # k
        PROVE  users'[j].name # users'[k].name
    <3>1. CASE Signing!Present(k)'
      BY <1>1, <2>1, <2>2, <3>1 DEF UsersOK
    <3>2. CASE k # i
      BY <1>1, <1>6, <2>1, <2>2, <3>2 DEF UsersOK
    <3>3. CASE ~Signing!Present(k)' /\ k = i
      <4>1. users'[k] = Signing!NoUser /\ users'[j] \in Signing!User
        BY <1>6, <2>2, <3>3 DEF Signing!Present
      <4>2. QED
        BY <4>1, NobodysName
    <3>4. QED
      BY <3>1, <3>2, <3>3
  <2>3. QED
    BY <1>6, <2>2 DEF UsersOK
<1>8. OthersOK'
  BY <1>1 DEF Signing!AdminEnd, OthersOK
<1>9. Signing!TypeOK'
  BY <1>4, <1>7, <1>8 DEF Signing!TypeOK, UsersOK, OthersOK, RequestsOK
<1>10. CASE op \in Signing!Removals /\ Signing!IsAdmin(i)
  <2>1. Signing!Removing \subseteq S /\ (op = "delete" => Signing!On(i) \subseteq S)
    BY <1>10 DEF S
  <2>2. raced' = (raced \/ request[r].overtaken)
    BY <1>10 DEF Signing!AdminEnd
  <2>3. Signing!AdminRemains'
    <3>1. CASE request[r].overtaken \/ raced
      BY <2>2, <3>1 DEF Signing!AdminRemains
    <3>2. CASE ~request[r].overtaken /\ ~raced
      <4>1. PICK j \in Signing!Ids : j # i /\ Signing!IsAdmin(j)
        BY <1>10, <3>2 DEF AInv, RemovalChecked
      <4>2. Signing!IsAdmin(j)'
        BY <1>6, <4>1 DEF Signing!IsAdmin, Signing!Present
      <4>3. QED
        BY <4>2 DEF Signing!AdminRemains
    <3>3. QED
      BY <1>1, <3>1, <3>2
  <2>4. RemovalChecked'
    BY <1>4, <2>1 DEF RemovalChecked, Signing!Removing, Signing!Removals
  <2>5. LoginKnows'
    <3>1. SUFFICES ASSUME NEW q \in WebThreads, request'[q].op = "login"
                   PROVE  /\ request'[q].read \in Signing!User
                          /\ ~request'[q].overtaken =>
                               /\ users'[request'[q].id] # Signing!NoUser
                               /\ users'[request'[q].id].hash = request'[q].read.hash
      BY DEF LoginKnows, Signing!Present
    <3>2. /\ request[q].op = "login" /\ request[q].id \in Signing!Ids /\ request'[q].id = request[q].id
          /\ request'[q].read = request[q].read
          /\ (request[q].overtaken \/ q \in S => request'[q].overtaken)
      BY <1>4, <3>1, Checked
    <3>3. op = "delete" /\ request[q].id = i => q \in S
      BY <2>1 DEF Signing!On
    <3>4. request'[q].read \in Signing!User
      BY <3>2 DEF AInv, LoginKnows
    <3>5. ASSUME ~request'[q].overtaken
          PROVE  /\ users'[request[q].id] # Signing!NoUser
                 /\ users'[request[q].id].hash = request[q].read.hash
      <4>1. ~request[q].overtaken /\ q \notin S
        BY <3>2, <3>5
      <4>2. Signing!Present(request[q].id) /\ users[request[q].id].hash = request[q].read.hash
        BY <3>2, <4>1 DEF AInv, LoginKnows
      <4>3. QED
        BY <1>6, <3>2, <3>3, <4>1, <4>2 DEF Signing!Present
    <3>6. QED
      BY <3>2, <3>4, <3>5
  <2>6. SessionsKnow'
    BY DEF Signing!AdminEnd, AInv, SessionsKnow
  <2>7. QED
    BY <1>9, <2>3, <2>4, <2>5, <2>6 DEF AInv
<1>11. CASE ~(op \in Signing!Removals /\ Signing!IsAdmin(i))
  <2>1. \A j \in Signing!Ids : Signing!IsAdmin(j) => Signing!IsAdmin(j)'
    <3>1. CASE op = "promote"
      <4>1. users'[i].admin = TRUE \/ ~Signing!Present(i)
        BY <1>6, <3>1
      <4>2. ~Signing!Present(i)' => ~Signing!Present(i)
        BY <1>6, <3>1
      <4>3. QED
        BY <1>6, <4>1, <4>2 DEF Signing!IsAdmin, Signing!Present
    <3>2. CASE op # "promote"
      <4>1. ~Signing!IsAdmin(i)
        BY <1>1, <1>11, <3>2 DEF Signing!Removals
      <4>2. QED
        BY <1>6, <4>1 DEF Signing!IsAdmin, Signing!Present
    <3>3. QED
      BY <3>1, <3>2
  <2>2. raced' = raced
    BY <1>1, <1>11 DEF Signing!AdminEnd, OthersOK
  <2>3. op = "delete" => Signing!On(i) \subseteq S
    BY DEF S
  <2>4. Signing!AdminRemains' /\ RemovalChecked'
    BY <1>4, <2>1, <2>2 DEF AInv, Signing!AdminRemains, RemovalChecked, Signing!Removals
  <2>5. LoginKnows'
    <3>1. SUFFICES ASSUME NEW q \in WebThreads, request'[q].op = "login"
                   PROVE  /\ request'[q].read \in Signing!User
                          /\ ~request'[q].overtaken =>
                               /\ users'[request'[q].id] # Signing!NoUser
                               /\ users'[request'[q].id].hash = request'[q].read.hash
      BY DEF LoginKnows, Signing!Present
    <3>2. /\ request[q].op = "login" /\ request[q].id \in Signing!Ids /\ request'[q].id = request[q].id
          /\ request'[q].read = request[q].read
          /\ (request[q].overtaken \/ q \in S => request'[q].overtaken)
      BY <1>4, <3>1, Checked
    <3>3. op = "delete" /\ request[q].id = i => q \in S
      BY <2>3 DEF Signing!On
    <3>4. request'[q].read \in Signing!User
      BY <3>2 DEF AInv, LoginKnows
    <3>5. ASSUME ~request'[q].overtaken
          PROVE  /\ users'[request[q].id] # Signing!NoUser
                 /\ users'[request[q].id].hash = request[q].read.hash
      <4>1. ~request[q].overtaken /\ q \notin S
        BY <3>2, <3>5
      <4>2. Signing!Present(request[q].id) /\ users[request[q].id].hash = request[q].read.hash
        BY <3>2, <4>1 DEF AInv, LoginKnows
      <4>3. QED
        BY <1>6, <3>2, <3>3, <4>1, <4>2 DEF Signing!Present
    <3>6. QED
      BY <3>2, <3>4, <3>5
  <2>6. SessionsKnow'
    BY DEF Signing!AdminEnd, AInv, SessionsKnow
  <2>7. QED
    BY <1>9, <2>4, <2>5, <2>6 DEF AInv
<1>12. QED
  BY <1>10, <1>11

LEMMA RestartStep ==
  ASSUME AInv, Signing!AccountsConstants, Signing!Restart
  PROVE  AInv'
<1>1. UsersOK /\ OthersOK /\ RequestsOK
  BY Parts
<1>2. RequestsOK' /\ \A q \in WebThreads : request'[q].op = "none"
  BY DEF Signing!Restart, RequestsOK, Signing!NoRequest
<1>3. /\ recent' \in [Browsers -> Nat] /\ session' = session /\ raced' = raced /\ fails' = fails
  BY DEF Signing!Restart
<1>4. CASE UNCHANGED <<users, hashes, seeds>>
  <2>1. UsersOK' /\ OthersOK' /\ SameUsers /\ SessionsKnow'
    BY <1>1, <1>3, <1>4 DEF UsersOK, OthersOK, SameUsers, Signing!Present, AInv, SessionsKnow
  <2>2. QED
    BY <1>2, <1>3, <2>1, UsersKept DEF Signing!Removals
<1>5. CASE /\ \A i \in Signing!Ids : ~Signing!Present(i)
           /\ Signing!NewHash
           /\ users' = [users EXCEPT ![1] = [Signing!Seeded EXCEPT !.hash = hashes']]
           /\ seeds' = seeds \cup {hashes'}
  <2> DEFINE new == [Signing!Seeded EXCEPT !.hash = hashes']
  <2> HIDE DEF new
  <2>1. hashes' \in Signing!Hash /\ hashes' \in 1..MaxHash /\ 1 \in Signing!Ids
    BY <1>5, NewHashFacts DEF Signing!AccountsConstants, Signing!Ids
  <2>2. new \in Signing!User /\ new.admin
    <3>1. Signing!Seeded \in Signing!User /\ Signing!Seeded.admin
      <4>1. Seed \in UserNames /\ 1 \in Signing!Hash /\ 0 \in 0..Threshold
        BY DEF Signing!AccountsConstants, Signing!Hash
      <4>2. QED
        BY <4>1 DEF Signing!Seeded, Signing!User
    <3>2. \A u \in Signing!User, h \in Signing!Hash :
            [u EXCEPT !.hash = h] \in Signing!User /\ [u EXCEPT !.hash = h].admin = u.admin
      BY DEF Signing!User
    <3>3. QED
      BY <2>1, <3>1, <3>2 DEF new
  <2>3. users' = [users EXCEPT ![1] = new]
    BY <1>5 DEF new
  <2>4. users'[1] = new /\ \A j \in Signing!Ids : j # 1 => users'[j] = Signing!NoUser
    BY <1>1, <1>5, <2>1, <2>3 DEF UsersOK, Signing!Present
  <2>5. UsersOK'
    <3>1. users' \in [Signing!Ids -> Signing!User \cup {Signing!NoUser}]
      BY <1>1, <2>2, <2>3 DEF UsersOK
    <3>2. \A j, k \in Signing!Ids : Signing!Present(j)' /\ j # k => users'[j].name # users'[k].name
      BY <2>2, <2>4, NobodysName DEF Signing!Present
    <3>3. QED
      BY <3>1, <3>2 DEF UsersOK
  <2>6. OthersOK'
    BY <1>1, <1>3, <1>5, <2>1 DEF OthersOK
  <2>7. Signing!TypeOK'
    BY <1>2, <2>5, <2>6 DEF Signing!TypeOK, UsersOK, OthersOK, RequestsOK
  <2>8. Signing!AdminRemains'
    BY <2>1, <2>2, <2>4, Nobody DEF Signing!AdminRemains, Signing!IsAdmin, Signing!Present
  <2>9. LoginKnows' /\ RemovalChecked' /\ SessionsKnow'
    BY <1>2, <1>3 DEF LoginKnows, RemovalChecked, Signing!Removals, AInv, SessionsKnow
  <2>10. QED
    BY <2>7, <2>8, <2>9 DEF AInv
<1>6. QED
  BY <1>4, <1>5 DEF Signing!Restart

-------------------------------------------------------------------------------
LEMMA InitAInv ==
  ASSUME Signing!AccountsConstants, Signing!Init
  PROVE  AInv
<1>1. 1 \in Signing!Ids /\ Signing!Seeded \in Signing!User /\ Signing!Seeded.admin
  BY DEF Signing!AccountsConstants, Signing!Ids, Signing!Seeded, Signing!User, Signing!Hash
<1>2. users[1] = Signing!Seeded /\ \A i \in Signing!Ids : i # 1 => users[i] = Signing!NoUser
  BY <1>1 DEF Signing!Init
<1>3. UsersOK
  <2>1. users \in [Signing!Ids -> Signing!User \cup {Signing!NoUser}]
    BY <1>1 DEF Signing!Init
  <2>2. QED
    BY <1>1, <1>2, <2>1, NobodysName DEF UsersOK, Signing!Present
<1>4. OthersOK /\ RequestsOK
  <2>1. 1 \in 1..MaxHash /\ 0 \in 0..MaxFails
    BY DEF Signing!AccountsConstants
  <2>2. QED
    BY <2>1 DEF Signing!Init, OthersOK, RequestsOK, Signing!Hash
<1>5. Signing!TypeOK
  BY <1>3, <1>4, SigningParts
<1>6. Signing!AdminRemains
  BY <1>1, <1>2, Nobody DEF Signing!AdminRemains, Signing!IsAdmin, Signing!Present
<1>7. LoginKnows /\ SessionsKnow /\ RemovalChecked
  BY Nobody DEF Signing!Init, LoginKnows, SessionsKnow, RemovalChecked, Signing!Removals,
     Signing!NoRequest, Signing!SignedOut
<1>8. QED
  BY <1>5, <1>6, <1>7 DEF AInv

LEMMA StepAInv ==
  ASSUME Signing!AccountsConstants, AInv, [Signing!Next]_(Signing!vars)
  PROVE  AInv'
<1>1. ASSUME NEW r \in WebThreads, Signing!Serve(r)
      PROVE  AInv'
  <2>1. ASSUME Signing!AdminEnd(r)
        PROVE  AInv'
    BY <2>1, AdminEndStep, Checked DEF Signing!AdminEnd
  <2>2. QED
    BY <1>1, <2>1, LoginFailsStep, LoginSucceedsStep, SetPasswordStep, SetupBeginStep,
       EntryStep DEF Signing!Serve
<1>2. ASSUME NEW b \in Browsers,
             \/ Signing!Logout(b) \/ Signing!LoginUnknown(b) \/ Signing!Pass(b)
             \/ \E i \in Signing!Ids : Signing!ChangeFails(b, i)
      PROVE  AInv'
  BY <1>2, AsideStep
<1>3. ASSUME NEW b \in Browsers, NEW name \in UserNames, NEW chief \in BOOLEAN,
             Signing!CreateUser(b, name, chief)
      PROVE  AInv'
  BY <1>3, CreateUserStep
<1>4. CASE UNCHANGED Signing!vars
  <2>1. OthersOK'
    BY <1>4, Parts DEF Signing!vars, OthersOK
  <2>2. QED
    BY <1>4, <2>1, Untouched DEF Signing!vars
<1>5. QED
  BY <1>1, <1>2, <1>3, <1>4, LockEndsStep, RestartStep DEF Signing!Next

THEOREM AccountsInvariant ==
  ASSUME Signing!AccountsConstants
  PROVE  Signing!Spec => []AInv
<1>1. Signing!Init => AInv
  BY InitAInv
<1>2. AInv /\ [Signing!Next]_(Signing!vars) => AInv'
  BY StepAInv
<1>3. QED
  BY <1>1, <1>2, PTL DEF Signing!Spec

\* Users, sessions and requests are always of their types, and names are unique.
THEOREM AccountsTypes ==
  ASSUME Signing!AccountsConstants
  PROVE  Signing!Spec => []Signing!TypeOK
<1>1. AInv => Signing!TypeOK
  BY DEF AInv
<1>2. QED
  BY <1>1, AccountsInvariant, PTL

\* However many administrators remove each other, one remains, unless two removals
\* overlapped.
THEOREM AnAdminRemains ==
  ASSUME Signing!AccountsConstants
  PROVE  Signing!Spec => []Signing!AdminRemains
<1>1. AInv => Signing!AdminRemains
  BY DEF AInv
<1>2. QED
  BY <1>1, AccountsInvariant, PTL

\* A session that is accepted was begun with the password the account has now, or the
\* account changed under the request that began it.
THEOREM SessionsAreEarned ==
  ASSUME Signing!AccountsConstants
  PROVE  Signing!Spec => []Signing!SignedInKnow
<1>1. AInv => Signing!SignedInKnow
  BY DEF AInv, SessionsKnow, Signing!SignedIn, Signing!SignedInKnow
<1>2. QED
  BY <1>1, AccountsInvariant, PTL


-------------------------------------------------------------------------------
(***************************************************************************)
(* Access levels.  What a check has read of a table is current unless the  *)
(* table has been edited; so when one table at most is edited, what the    *)
(* check is about to answer, from what it has read and what it has yet to, *)
(* is among the levels the photo has had.                                  *)
(***************************************************************************)
Matching(p) == Access!MatchingFolderLevels(p)
Alone == \A a, b \in moved : a = b

Stages ==
  /\ check.op = "one" => check.pc \in {"folder", "root", "done"} /\ \E p \in RootPhotos : check.of = {p}
  /\ check.op = "batch" => check.pc \in {"root", "rules", "done"}
  /\ check.op = "list" =>
       /\ check.pc \in {"rules", "root", "query", "done"} /\ check.of = RootPhotos
       /\ check.pc = "root" => check.plain

PlainQuery == check.op = "list" /\ check.pc = "query" /\ check.plain

\* What has been read is current, where its table has not been edited.
Current ==
  /\ "users" \notin moved => check.admin = admin
  /\ "photos" \notin moved => check.vis = visibility
  /\ check.op = "one" /\ check.pc = "root" =>
       ~check.admin /\ ("folder_acl" \notin moved => \A p \in check.of : Access!None \in Matching(p))
  /\ (check.op = "list" /\ check.pc = "root") \/ PlainQuery =>
       ("folder_acl" \notin moved => \A p \in RootPhotos : Access!None \in Matching(p))
  /\ (check.op = "batch" /\ check.pc = "rules") \/ PlainQuery =>
       ("root_acl" \notin moved => check.root = rootRule)

\* What the check is about to answer for a photo is a level it has had.
Foreseen(p) ==
  /\ check.pc = "folder" \/ (check.op = "batch" /\ check.pc = "root") =>
       \A m \in Matching(p) : Access!Resolve(p, check.admin, check.vis[p], m, rootRule) \in seen[p]
  /\ check.op = "one" /\ check.pc = "root" =>
       Access!Resolve(p, FALSE, check.vis[p], Access!None, rootRule) \in seen[p]
  /\ check.op = "batch" /\ check.pc = "rules" =>
       \A m \in Matching(p) : Access!Resolve(p, check.admin, check.vis[p], m, check.root) \in seen[p]
  /\ check.op = "list" /\ (check.pc = "rules" \/ (check.pc = "query" /\ ~check.plain)) =>
       \A m \in Matching(p) : Access!Resolve(p, check.admin, visibility[p], m, rootRule) \in seen[p]
  /\ check.op = "list" /\ check.pc = "root" =>
       Access!Resolve(p, check.admin, visibility[p], Access!None, rootRule) \in seen[p]
  /\ PlainQuery => Access!Resolve(p, check.admin, visibility[p], Access!None, check.root) \in seen[p]

Right(p) ==
  IF check.op = "list" THEN \E l \in seen[p] : (check.answer[p] = "hidden") <=> (l = "hidden")
  ELSE check.answer[p] \in seen[p]

CheckRight ==
  check # Access!Idle =>
    /\ Stages /\ Current /\ \A p \in RootPhotos : Access!LevelsOf(p) \subseteq seen[p]
    /\ Alone => \A p \in check.of : Foreseen(p)
    /\ check.pc = "done" /\ Alone => \A p \in check.of : Access!Mistaken(p) \/ Right(p)

AclInv == Access!TypeOK /\ CheckRight

-------------------------------------------------------------------------------
LEMMA LeastNat ==
  ASSUME NEW T \in SUBSET Nat, T # {}
  PROVE  \E x \in T : \A y \in T : x <= y
<1> DEFINE R == {ss \in Nat \X Nat : ss[1] < ss[2]}
<1>1. IsWellFoundedOn(R, Nat)
  BY NatLessThanWellFounded DEF OpToRel
<1> HIDE DEF R
<1>2. PICK x \in T : \A y \in T : ~(<<y, x>> \in R)
  BY <1>1, WFMin
<1>3. ASSUME NEW y \in T PROVE x <= y
  <2>1. <<y, x>> \notin R
    BY <1>2
  <2>2. ~(y < x)
    BY <2>1 DEF R
  <2>3. x \in Nat /\ y \in Nat
    OBVIOUS
  <2>4. QED
    BY <2>2, <2>3
<1>4. QED
  BY <1>3

LEMMA GreatestNat ==
  ASSUME NEW m \in Nat, NEW S \in SUBSET (0..m), S # {}
  PROVE  \E z \in S : \A i \in S : z >= i
<1> DEFINE T == {m - i : i \in S}
<1>1. T \in SUBSET Nat /\ T # {}
  <2>1. \A i \in 0..m : m - i \in Nat
    OBVIOUS
  <2>2. \A i \in S : m - i \in Nat
    BY <2>1
  <2>3. QED
    BY <2>2
<1>2. PICK x \in T : \A y \in T : x <= y
  BY <1>1, LeastNat
<1>3. PICK k \in S : x = m - k
  BY <1>2
<1>4. ASSUME NEW i \in S PROVE k >= i
  <2>1. m - i \in T /\ i \in 0..m /\ k \in 0..m
    OBVIOUS
  <2>2. m - k <= m - i
    BY <1>2, <1>3, <2>1
  <2>3. QED
    BY <2>1, <2>2
<1>5. QED
  BY <1>4

\* Beyond the last row that is taken there is none.
-------------------------------------------------------------------------------
LEMMA PrefixIsLike ==
  ASSUME Access!AclConstants, NEW p \in RootPhotos, NEW f \in RuleFolders, Access!IsPrefix(f, PathOf[p])
  PROVE  Access!Like(f, PathOf[p])
<1>1. f \in Seq(Access!ToSet(f)) /\ PathOf[p] \in Seq(Access!ToSet(PathOf[p]))
  BY DEF Access!AclConstants
<1>2. Len(f) <= Len(PathOf[p]) /\ SubSeq(f, 1, Len(f)) = SubSeq(PathOf[p], 1, Len(f))
  BY DEF Access!IsPrefix
<1>3. ASSUME NEW k \in DOMAIN f PROVE f[k] = PathOf[p][k]
  <2>1. k \in 1..Len(f) /\ Len(f) \in Nat /\ Len(PathOf[p]) \in Nat
    BY <1>1
  <2>2. SubSeq(f, 1, Len(f))[k] = f[k]
    BY <1>1, <2>1
  <2>3. SubSeq(PathOf[p], 1, Len(f))[k] = PathOf[p][k]
    BY <1>1, <1>2, <2>1
  <2>4. QED
    BY <1>2, <2>2, <2>3
<1>4. QED
  BY <1>2, <1>3 DEF Access!Like

\* Of the rules that match a photo's path one is the longest.
LEMMA LongestRule ==
  ASSUME Access!AclConstants, NEW p \in RootPhotos, NEW F \in SUBSET RuleFolders, F # {},
         \A f \in F : Access!Like(f, PathOf[p])
  PROVE  \E f \in F : \A g \in F : Len(g) <= Len(f)
<1>1. Len(PathOf[p]) \in Nat
  BY DEF Access!AclConstants
<1>2. \A f \in F : Len(f) \in 0..Len(PathOf[p])
  BY <1>1 DEF Access!AclConstants, Access!Like
<1> DEFINE S == {Len(f) : f \in F}
<1>3. S \in SUBSET (0..Len(PathOf[p])) /\ S # {}
  BY <1>2
<1>4. PICK z \in S : \A i \in S : z >= i
  BY <1>1, <1>3, GreatestNat
<1>5. PICK f \in F : z = Len(f)
  BY <1>4
<1>6. \A g \in F : Len(g) \in S /\ Len(g) \in Nat /\ Len(f) \in Nat
  BY <1>2
<1> HIDE DEF S
<1>7. \A g \in F : Len(g) <= Len(f)
  BY <1>4, <1>5, <1>6
<1>8. QED
  BY <1>7

LEMMA MatchSome ==
  ASSUME Access!AclConstants, Access!TypeOK, NEW p \in RootPhotos
  PROVE  Matching(p) # {} /\ Matching(p) \subseteq Levels \cup {Access!None}
<1> DEFINE F == {f \in RuleFolders : Access!Ruled(f) /\ Access!Like(f, PathOf[p])}
<1>1. CASE F = {}
  BY <1>1 DEF Matching, Access!MatchingFolderLevels
<1>2. CASE F # {}
  <2>1. \E f \in F : \A g \in F : Len(g) <= Len(f)
    BY <1>2, LongestRule
  <2>2. Matching(p) = {folderRule[f] : f \in {g \in F : \A h \in F : Len(h) <= Len(g)}}
    BY <1>2 DEF Matching, Access!MatchingFolderLevels
  <2>3. QED
    BY <2>1, <2>2 DEF Access!TypeOK
<1>3. QED
  BY <1>1, <1>2

\* The copy of the rules gives the level the database would, or one of those that tie.
LEMMA CopyMatches ==
  ASSUME Access!AclConstants, NEW p \in RootPhotos, ~Access!Mistaken(p)
  PROVE  Access!FolderMatch(p) \in Matching(p)
<1> DEFINE F == {f \in RuleFolders : Access!Ruled(f) /\ Access!Like(f, PathOf[p])}
           G == {f \in RuleFolders : Access!Ruled(f) /\ Access!IsPrefix(f, PathOf[p])}
<1>1. F = G
  BY PrefixIsLike DEF Access!Mistaken
<1>2. CASE F = {}
  BY <1>1, <1>2 DEF Matching, Access!MatchingFolderLevels, Access!FolderMatch
<1>3. CASE F # {}
  <2>1. PICK f \in F : \A g \in F : Len(g) <= Len(f)
    BY <1>3, LongestRule
  <2> DEFINE top == CHOOSE f0 \in G : \A g \in G : Len(g) <= Len(f0)
  <2>2. top \in F /\ \A g \in F : Len(g) <= Len(top)
    BY <1>1, <2>1
  <2>3. Access!FolderMatch(p) = folderRule[top]
    BY <1>1, <1>3 DEF Access!FolderMatch
  <2> HIDE DEF top
  <2>4. Matching(p) = {folderRule[f1] : f1 \in {g \in F : \A h \in F : Len(h) <= Len(g)}}
    BY <1>3 DEF Matching, Access!MatchingFolderLevels
  <2>5. QED
    BY <2>2, <2>3, <2>4
<1>4. QED
  BY <1>2, <1>3

LEMMA ResolveTyped ==
  ASSUME NEW p, NEW a, NEW v, NEW f \in Levels \cup {Access!None}, NEW r \in Levels \cup {Access!None}
  PROVE  Access!Resolve(p, a, v, f, r) \in Access!Answers
  BY DEF Access!Resolve, Access!Answers

LEMMA LevelsTyped ==
  ASSUME Access!AclConstants, Access!TypeOK, NEW p \in RootPhotos
  PROVE  Access!LevelsOf(p) \in SUBSET Access!Answers /\ Access!LevelsOf(p) # {}
  BY MatchSome, ResolveTyped DEF Access!LevelsOf, Matching, Access!TypeOK

-------------------------------------------------------------------------------
(***************************************************************************)
(* The history of a step.                                                  *)
(***************************************************************************)
RulesTyped ==
  /\ admin' \in BOOLEAN /\ visibility' \in [RootPhotos -> Access!Visibility]
  /\ rootRule' \in Levels \cup {Access!None} /\ folderRule' \in [RuleFolders -> Levels \cup {Access!None}]

LEMMA HistoryTyped ==
  ASSUME Access!AclConstants, Access!TypeOK, RulesTyped, Access!History,
         check' \in Access!Check \cup {Access!Idle}
  PROVE  Access!TypeOK'
<1>1. CASE check' = Access!Idle
  BY <1>1 DEF Access!History, Access!TypeOK, RulesTyped
<1>2. CASE check' # Access!Idle
  <2>1. ASSUME NEW p \in RootPhotos PROVE Access!LevelsOf(p)' \subseteq Access!Answers
    <3>1. Matching(p)' \subseteq Levels \cup {Access!None}
      BY DEF Matching, Access!MatchingFolderLevels, RulesTyped
    <3>2. Access!LevelsOf(p)' = {Access!Resolve(p, admin', visibility'[p], m, rootRule') : m \in Matching(p)'}
      BY DEF Access!LevelsOf, Matching, Access!Resolve
    <3>3. QED
      BY <3>1, <3>2, ResolveTyped DEF RulesTyped
  <2>2. seen' = [p \in RootPhotos |-> seen[p] \cup Access!LevelsOf(p)']
        /\ moved' \subseteq {"users", "photos", "root_acl", "folder_acl"}
    BY <1>2 DEF Access!History, Access!TypeOK
  <2>3. seen' \in [RootPhotos -> SUBSET Access!Answers]
    BY <2>1, <2>2 DEF Access!TypeOK
  <2>4. QED
    BY <2>2, <2>3 DEF Access!TypeOK, RulesTyped
<1>3. QED
  BY <1>1, <1>2

\* While there is a check the history only grows, by the levels of the moment and by the
\* tables the step edits.
LEMMA HistoryGrows ==
  ASSUME Access!History, Access!TypeOK, check' # Access!Idle
  PROVE  /\ moved \subseteq moved' /\ (Alone' => Alone)
         /\ \A p \in RootPhotos : seen[p] \subseteq seen'[p] /\ Access!LevelsOf(p)' \subseteq seen'[p]
         /\ admin' # admin => "users" \in moved'
         /\ visibility' # visibility => "photos" \in moved'
         /\ rootRule' # rootRule => "root_acl" \in moved'
         /\ folderRule' # folderRule => "folder_acl" \in moved'
<1>1. /\ seen' = [p \in RootPhotos |-> seen[p] \cup Access!LevelsOf(p)']
      /\ moved' = moved \cup {t \in {"users"} : admin' # admin}
                         \cup {t \in {"photos"} : visibility' # visibility}
                         \cup {t \in {"root_acl"} : rootRule' # rootRule}
                         \cup {t \in {"folder_acl"} : folderRule' # folderRule}
  BY DEF Access!History
<1>2. moved \subseteq moved' /\ (Alone' => Alone)
  BY <1>1 DEF Alone
<1>3. QED
  BY <1>1, <1>2

LEMMA SameRules ==
  ASSUME folderRule' = folderRule, NEW p
  PROVE  Matching(p)' = Matching(p)
  BY DEF Matching, Access!MatchingFolderLevels, Access!Ruled

LEMMA LevelNow ==
  ASSUME NEW p, NEW m, m \in Matching(p)'
  PROVE  Access!Resolve(p, admin', visibility'[p], m, rootRule') \in Access!LevelsOf(p)'
  BY DEF Access!LevelsOf, Matching, Access!Resolve

-------------------------------------------------------------------------------
(***************************************************************************)
(* An edit while a check is under way.                                     *)
(***************************************************************************)
LEMMA EditKeeps ==
  ASSUME Access!AclConstants, AclInv, RulesTyped, UNCHANGED check, Access!History
  PROVE  AclInv'
<1>1. Access!TypeOK'
  BY HistoryTyped DEF AclInv, Access!TypeOK
<1>2. CASE check = Access!Idle
  BY <1>1, <1>2 DEF AclInv, CheckRight
<1>3. CASE check # Access!Idle
  <2>1. /\ moved \subseteq moved' /\ (Alone' => Alone)
        /\ \A p \in RootPhotos : seen[p] \subseteq seen'[p] /\ Access!LevelsOf(p)' \subseteq seen'[p]
        /\ "users" \notin moved' => admin' = admin
        /\ "photos" \notin moved' => visibility' = visibility
        /\ "root_acl" \notin moved' => rootRule' = rootRule
        /\ "folder_acl" \notin moved' => \A p : Matching(p)' = Matching(p)
    <3>1. check' # Access!Idle
      BY <1>3
    <3>2. "folder_acl" \notin moved' => folderRule' = folderRule
      BY <3>1, HistoryGrows DEF AclInv
    <3>3. QED
      BY <3>1, <3>2, HistoryGrows, SameRules DEF AclInv
  <2>2. check \in Access!Check /\ Stages /\ Current
    BY <1>3 DEF AclInv, Access!TypeOK, CheckRight
  <2>3. Stages'
    BY <2>2 DEF Stages
  <2>4. Current'
    BY <2>1, <2>2 DEF Current, PlainQuery
  <2>5. ASSUME Alone', NEW p \in check.of PROVE Foreseen(p)'
    <3>1. p \in RootPhotos /\ Foreseen(p) /\ seen[p] \subseteq seen'[p]
          /\ Access!LevelsOf(p)' \subseteq seen'[p]
      BY <1>3, <2>1, <2>2, <2>5 DEF AclInv, CheckRight, Access!Check
    <3>2. \A a, b \in {"users", "photos", "root_acl", "folder_acl"} : a \in moved' /\ b \in moved' => a = b
      BY <2>5 DEF Alone
    <3>3. /\ "users" \notin moved' => check.admin = admin'
          /\ "photos" \notin moved' => check.vis = visibility'
      BY <2>4 DEF Current
    <3>4. \A m \in Matching(p)' : Access!Resolve(p, admin', visibility'[p], m, rootRule') \in seen'[p]
      BY <3>1, LevelNow
    <3>5. ASSUME check.pc = "folder" \/ (check.op = "batch" /\ check.pc = "root"), NEW m \in Matching(p)'
          PROVE  Access!Resolve(p, check.admin, check.vis[p], m, rootRule') \in seen'[p]
      <4>1. CASE "users" \notin moved' /\ "photos" \notin moved'
        BY <3>3, <3>4, <4>1
      <4>2. CASE "root_acl" \notin moved' /\ "folder_acl" \notin moved'
        BY <2>1, <3>1, <3>5, <4>2 DEF Foreseen
      <4>3. QED
        BY <3>2, <4>1, <4>2
    <3>6. ASSUME check.op = "one", check.pc = "root"
          PROVE  Access!Resolve(p, FALSE, check.vis[p], Access!None, rootRule') \in seen'[p]
      <4>1. CASE "root_acl" \notin moved'
        BY <2>1, <3>1, <3>6, <4>1 DEF Foreseen
      <4>2. CASE "root_acl" \in moved'
        <5>1. check.admin = admin' /\ check.vis = visibility' /\ "folder_acl" \notin moved'
          BY <3>2, <3>3, <4>2
        <5>2. ~check.admin /\ Access!None \in Matching(p)' /\ check.admin \in BOOLEAN
          BY <2>2, <2>4, <3>6, <5>1 DEF Current, Access!Check
        <5>3. check.admin = FALSE
          BY <5>2
        <5>4. QED
          BY <3>4, <5>1, <5>2, <5>3
      <4>3. QED
        BY <4>1, <4>2
    <3>7. ASSUME check.op = "batch", check.pc = "rules", NEW m \in Matching(p)'
          PROVE  Access!Resolve(p, check.admin, check.vis[p], m, check.root) \in seen'[p]
      <4>1. CASE "folder_acl" \notin moved'
        BY <2>1, <3>1, <3>7, <4>1 DEF Foreseen
      <4>2. CASE "folder_acl" \in moved'
        <5>1. check.admin = admin' /\ check.vis = visibility' /\ "root_acl" \notin moved'
          BY <3>2, <3>3, <4>2
        <5>2. check.root = rootRule'
          BY <2>4, <3>7, <5>1 DEF Current
        <5>3. QED
          BY <3>4, <3>7, <5>1, <5>2
      <4>3. QED
        BY <4>1, <4>2
    <3>8. ASSUME check.op = "list", check.pc = "rules" \/ (check.pc = "query" /\ ~check.plain),
                 NEW m \in Matching(p)'
          PROVE  Access!Resolve(p, check.admin, visibility'[p], m, rootRule') \in seen'[p]
      <4>1. CASE "users" \notin moved'
        BY <3>3, <3>4, <4>1
      <4>2. CASE "users" \in moved'
        <5>1. visibility' = visibility /\ rootRule' = rootRule /\ Matching(p)' = Matching(p)
          BY <2>1, <3>2, <4>2
        <5>2. QED
          BY <3>1, <3>8, <5>1 DEF Foreseen
      <4>3. QED
        BY <4>1, <4>2
    <3>9. ASSUME check.op = "list", check.pc = "root"
          PROVE  Access!Resolve(p, check.admin, visibility'[p], Access!None, rootRule') \in seen'[p]
      <4>1. CASE "users" \notin moved' /\ "folder_acl" \notin moved'
        <5>1. Access!None \in Matching(p)'
          BY <2>4, <3>1, <3>9, <4>1 DEF Current
        <5>2. QED
          BY <3>3, <3>4, <4>1, <5>1
      <4>2. CASE "users" \in moved' \/ "folder_acl" \in moved'
        <5>1. visibility' = visibility /\ rootRule' = rootRule
          BY <2>1, <3>2, <4>2
        <5>2. QED
          BY <3>1, <3>9, <5>1 DEF Foreseen
      <4>3. QED
        BY <4>1, <4>2
    <3>10. ASSUME PlainQuery
           PROVE  Access!Resolve(p, check.admin, visibility'[p], Access!None, check.root) \in seen'[p]
      <4>1. CASE "photos" \notin moved'
        BY <2>1, <3>1, <3>10, <4>1 DEF Foreseen
      <4>2. CASE "photos" \in moved'
        <5>1. "users" \notin moved' /\ "folder_acl" \notin moved' /\ "root_acl" \notin moved'
          BY <3>2, <4>2
        <5>2. Access!None \in Matching(p)' /\ check.root = rootRule'
          BY <2>4, <3>1, <3>10, <5>1 DEF Current, PlainQuery
        <5>3. QED
          BY <3>3, <3>4, <5>1, <5>2
      <4>3. QED
        BY <4>1, <4>2
    <3>11. QED
      BY <3>5, <3>6, <3>7, <3>8, <3>9, <3>10 DEF Foreseen, PlainQuery
  <2>6. ASSUME Alone', check.pc = "done", NEW p \in check.of PROVE Access!Mistaken(p) \/ Right(p)'
    <3>1. p \in RootPhotos /\ (Access!Mistaken(p) \/ Right(p)) /\ seen[p] \subseteq seen'[p]
      BY <1>3, <2>1, <2>2, <2>6 DEF AclInv, CheckRight, Access!Check
    <3>2. QED
      BY <3>1 DEF Right
  <2>7. \A p : Access!Mistaken(p)' <=> Access!Mistaken(p)
    BY DEF Access!Mistaken, Access!Like
  <2>8. QED
    BY <1>1, <2>1, <2>3, <2>4, <2>5, <2>6, <2>7 DEF AclInv, CheckRight
<1>4. QED
  BY <1>2, <1>3

-------------------------------------------------------------------------------
(***************************************************************************)
(* A step of the check: no rule moves, so the history stays as it is.      *)
(***************************************************************************)
LEMMA StepSame ==
  ASSUME Access!AclConstants, AclInv, UNCHANGED Access!rules, Access!History, check # Access!Idle,
         check' \in Access!Check
  PROVE  /\ Access!TypeOK' /\ seen' = seen /\ moved' = moved /\ (Alone' <=> Alone)
         /\ UNCHANGED <<admin, visibility, rootRule, folderRule>>
         /\ \A p : Matching(p)' = Matching(p) /\ (Access!Mistaken(p)' <=> Access!Mistaken(p))
         /\ \A p \in RootPhotos : Access!LevelsOf(p)' \subseteq seen'[p]
<1>1. UNCHANGED <<admin, visibility, rootRule, folderRule>> /\ check' # Access!Idle
  BY DEF Access!rules, Access!Check, Access!Idle
<1>2. \A p : Matching(p)' = Matching(p) /\ (Access!Mistaken(p)' <=> Access!Mistaken(p))
  BY <1>1, SameRules DEF Access!Mistaken, Access!Like
<1>3. \A p : Access!LevelsOf(p)' = Access!LevelsOf(p)
  BY <1>1, <1>2 DEF Access!LevelsOf, Matching, Access!Resolve
<1>4. \A p \in RootPhotos : Access!LevelsOf(p) \subseteq seen[p]
  BY DEF AclInv, CheckRight
<1>5. seen' = [p \in RootPhotos |-> seen[p] \cup Access!LevelsOf(p)'] /\ moved' = moved
  BY <1>1 DEF Access!History
<1>6. seen' = seen
  <2>1. \A p \in RootPhotos : seen'[p] = seen[p]
    BY <1>3, <1>4, <1>5
  <2>2. QED
    BY <1>5, <2>1 DEF AclInv, Access!TypeOK
<1>7. Access!TypeOK'
  <2>1. RulesTyped
    BY <1>1 DEF RulesTyped, AclInv, Access!TypeOK
  <2>2. QED
    BY <2>1, HistoryTyped DEF AclInv
<1>8. Alone' <=> Alone
  BY <1>5 DEF Alone
<1>9. QED
  BY <1>1, <1>2, <1>3, <1>4, <1>5, <1>6, <1>7, <1>8

LEMMA BeginStep ==
  ASSUME Access!AclConstants, AclInv, Access!History, NEW op \in {"one", "batch", "list"},
         NEW pc \in {"folder", "root", "rules"}, NEW S \in SUBSET RootPhotos, Access!Begin(op, pc, S),
         op = "one" => pc = "folder" /\ \E p \in RootPhotos : S = {p}, op = "batch" => pc = "root",
         op = "list" => pc = "rules" /\ S = RootPhotos
  PROVE  AclInv'
<1>1. /\ UNCHANGED <<admin, visibility, rootRule, folderRule>>
      /\ check' = [op |-> op, pc |-> pc, of |-> S, admin |-> admin, vis |-> visibility,
               root |-> Access!None, plain |-> FALSE, answer |-> [p \in RootPhotos |-> "hidden"]]
  BY DEF Access!Begin, Access!rules
<1>2. check' \in Access!Check /\ check' # Access!Idle
  <2>1. [p \in RootPhotos |-> "hidden"] \in [RootPhotos -> Access!Answers]
    BY DEF Access!Answers
  <2>2. QED
    BY <1>1, <2>1 DEF Access!Check, Access!Idle, AclInv, Access!TypeOK
<1>3. Access!TypeOK'
  <2>1. RulesTyped
    BY <1>1 DEF RulesTyped, AclInv, Access!TypeOK
  <2>2. QED
    BY <1>2, <2>1, HistoryTyped DEF AclInv
<1>4. \A p \in RootPhotos : Access!LevelsOf(p)' \subseteq seen'[p]
  BY <1>2, HistoryGrows DEF AclInv
<1>5. /\ check'.op = op /\ check'.pc = pc /\ check'.of = S /\ check'.admin = admin'
      /\ check'.vis = visibility' /\ check'.plain = FALSE
  BY <1>1
<1>6. Stages' /\ Current'
  BY <1>5 DEF Stages, Current, PlainQuery
<1>7. ASSUME NEW p \in S PROVE Foreseen(p)'
  <2>1. \A m \in Matching(p)' : Access!Resolve(p, admin', visibility'[p], m, rootRule') \in seen'[p]
    BY <1>4, LevelNow
  <2>2. QED
    BY <1>5, <2>1 DEF Foreseen, PlainQuery
<1>8. QED
  BY <1>3, <1>4, <1>5, <1>6, <1>7 DEF AclInv, CheckRight

\* An answer that was foreseen, or that a list gives.
LEMMA AnswerStep ==
  ASSUME Access!AclConstants, AclInv, Access!History, check # Access!Idle, UNCHANGED Access!rules,
         NEW answer \in [RootPhotos -> Access!Answers],
         check' = [check EXCEPT !.pc = "done", !.answer = answer],
         check.op # "list" => \A p \in check.of : Alone => Access!Mistaken(p) \/ answer[p] \in seen[p],
         check.op = "list" => \A p \in check.of : Alone =>
           \E l \in seen[p] : (answer[p] = "hidden") <=> (l = "hidden")
  PROVE  AclInv'
<1>1. check \in Access!Check /\ Stages
  BY DEF AclInv, Access!TypeOK, CheckRight
<1>2. /\ check' \in Access!Check /\ check'.pc = "done" /\ check'.op = check.op /\ check'.of = check.of
      /\ check'.admin = check.admin /\ check'.vis = check.vis /\ check'.answer = answer
  BY <1>1 DEF Access!Check
<1>3. /\ Access!TypeOK' /\ seen' = seen /\ moved' = moved /\ (Alone' <=> Alone)
      /\ UNCHANGED <<admin, visibility, rootRule, folderRule>>
      /\ \A p : Access!Mistaken(p)' <=> Access!Mistaken(p)
      /\ \A p \in RootPhotos : Access!LevelsOf(p)' \subseteq seen'[p]
  BY <1>2, StepSame
<1>4. Stages' /\ Current' /\ \A p : Foreseen(p)'
  BY <1>1, <1>2, <1>3 DEF Stages, Current, Foreseen, PlainQuery, AclInv, CheckRight
<1>5. ASSUME Alone', NEW p \in check.of PROVE Access!Mistaken(p)' \/ Right(p)'
  <2>1. Alone
    BY <1>3, <1>5
  <2>2. CASE check.op = "list"
    <3>1. \E l \in seen[p] : (answer[p] = "hidden") <=> (l = "hidden")
      BY <2>1, <2>2
    <3>2. QED
      BY <1>2, <1>3, <2>2, <3>1 DEF Right
  <2>3. CASE check.op # "list"
    BY <1>2, <1>3, <2>1, <2>3 DEF Right
  <2>4. QED
    BY <2>2, <2>3
<1>6. QED
  BY <1>2, <1>3, <1>4, <1>5 DEF AclInv, CheckRight

LEMMA OneFolderStep ==
  ASSUME Access!AclConstants, AclInv, Access!History, Access!OneFolder
  PROVE  AclInv'
<1>1. check.op = "one" /\ check.pc = "folder" /\ check # Access!Idle
  BY DEF Access!OneFolder, Access!Idle
<1>2. check \in Access!Check /\ Stages /\ Current /\ (Alone => \A p \in check.of : Foreseen(p))
  BY <1>1 DEF AclInv, Access!TypeOK, CheckRight
<1>3. PICK p \in check.of :
       IF check.admin \/ check.vis[p] = "private"
         THEN Access!Answer({p}, LAMBDA q : Access!Resolve(q, check.admin, check.vis[q], Access!None, Access!None))
       ELSE \E m \in Access!MatchingFolderLevels(p) :
              IF m = Access!None THEN Access!Go("root")
              ELSE Access!Answer({p}, LAMBDA q : Access!Resolve(q, FALSE, check.vis[q], m, Access!None))
  BY DEF Access!OneFolder
<1>4. p \in RootPhotos /\ check.admin \in BOOLEAN /\ check.of = {p}
  BY <1>1, <1>2 DEF Access!Check, Stages
<1>5. PICK m0 \in Matching(p) : TRUE
  BY <1>4, MatchSome DEF AclInv
<1>6. Alone => \A m \in Matching(p) : Access!Resolve(p, check.admin, check.vis[p], m, rootRule) \in seen[p]
  BY <1>1, <1>2, <1>4 DEF Foreseen
<1>7. ASSUME NEW m \in Levels \cup {Access!None}, NEW a \in BOOLEAN,
             check' = [check EXCEPT !.pc = "done",
                 !.answer = [q \in RootPhotos |-> IF q \in {p} THEN Access!Resolve(q, a, check.vis[q], m, Access!None)
                                                    ELSE "hidden"]],
             UNCHANGED Access!rules, Alone => Access!Resolve(p, a, check.vis[p], m, Access!None) \in seen[p]
      PROVE  AclInv'
  <2> DEFINE answer == [q \in RootPhotos |-> IF q \in {p} THEN Access!Resolve(q, a, check.vis[q], m, Access!None)
                                              ELSE "hidden"]
  <2>1. \A q : Access!Resolve(q, a, check.vis[q], m, Access!None) \in Access!Answers
    BY ResolveTyped
  <2>2. answer \in [RootPhotos -> Access!Answers]
        /\ answer[p] = Access!Resolve(p, a, check.vis[p], m, Access!None)
    BY <1>4, <2>1 DEF Access!Answers
  <2> HIDE DEF answer
  <2>3. check' = [check EXCEPT !.pc = "done", !.answer = answer]
    BY <1>7 DEF answer
  <2>4. \A q \in check.of : Alone => answer[q] \in seen[q]
    BY <1>4, <1>7, <2>2
  <2>5. QED
    BY <1>1, <1>7, <2>2, <2>3, <2>4, AnswerStep
<1>8. CASE check.admin \/ check.vis[p] = "private"
  <2>1. /\ check' = [check EXCEPT !.pc = "done",
             !.answer = [q \in RootPhotos |-> IF q \in {p} THEN Access!Resolve(q, check.admin, check.vis[q], Access!None, Access!None)
                                                ELSE "hidden"]]
        /\ UNCHANGED Access!rules
    BY <1>3, <1>8 DEF Access!Answer
  <2>2. Access!Resolve(p, check.admin, check.vis[p], Access!None, Access!None) = Access!Resolve(p, check.admin, check.vis[p], m0, rootRule)
    BY <1>8 DEF Access!Resolve
  <2>3. Alone => Access!Resolve(p, check.admin, check.vis[p], Access!None, Access!None) \in seen[p]
    BY <1>5, <1>6, <2>2
  <2>4. QED
    BY <1>4, <1>7, <2>1, <2>3
<1>9. CASE ~(check.admin \/ check.vis[p] = "private")
  <2>1. PICK m \in Matching(p) :
              IF m = Access!None THEN Access!Go("root")
              ELSE Access!Answer({p}, LAMBDA q : Access!Resolve(q, FALSE, check.vis[q], m, Access!None))
    BY <1>3, <1>9 DEF Matching
  <2>2. check.admin = FALSE /\ m \in Levels \cup {Access!None}
    BY <1>4, <1>9, MatchSome DEF AclInv
  <2>3. CASE m # Access!None
    <3>1. /\ check' = [check EXCEPT !.pc = "done",
               !.answer = [q \in RootPhotos |-> IF q \in {p} THEN Access!Resolve(q, FALSE, check.vis[q], m, Access!None)
                                                  ELSE "hidden"]]
          /\ UNCHANGED Access!rules
      BY <2>1, <2>3 DEF Access!Answer
    <3>2. Access!Resolve(p, FALSE, check.vis[p], m, Access!None) = Access!Resolve(p, check.admin, check.vis[p], m, rootRule)
      BY <2>2, <2>3 DEF Access!Resolve
    <3>3. QED
      BY <1>6, <1>7, <2>2, <3>1, <3>2
  <2>4. CASE m = Access!None
    <3>1. check' = [check EXCEPT !.pc = "root"] /\ UNCHANGED Access!rules
      BY <2>1, <2>4 DEF Access!Go
    <3>2. /\ check' \in Access!Check /\ check'.pc = "root" /\ check'.op = "one" /\ check'.of = check.of
          /\ check'.admin = check.admin /\ check'.vis = check.vis
      BY <1>1, <1>2, <3>1 DEF Access!Check
    <3>3. /\ Access!TypeOK' /\ seen' = seen /\ moved' = moved /\ (Alone' <=> Alone)
          /\ UNCHANGED <<admin, visibility, rootRule, folderRule>>
          /\ \A q : Matching(q)' = Matching(q)
          /\ \A q \in RootPhotos : Access!LevelsOf(q)' \subseteq seen'[q]
      BY <1>1, <3>1, <3>2, StepSame
    <3>4. Stages' /\ Current'
      BY <1>2, <1>4, <2>2, <2>4, <3>2, <3>3 DEF Stages, Current, PlainQuery
    <3>5. Alone' => Foreseen(p)'
      BY <1>6, <2>2, <2>4, <3>2, <3>3 DEF Foreseen, PlainQuery
    <3>6. QED
      BY <1>4, <3>2, <3>3, <3>4, <3>5 DEF AclInv, CheckRight
  <2>5. QED
    BY <2>3, <2>4
<1>10. QED
  BY <1>8, <1>9

LEMMA OneRootStep ==
  ASSUME Access!AclConstants, AclInv, Access!History, Access!OneRoot
  PROVE  AclInv'
<1>1. check.op = "one" /\ check.pc = "root" /\ check # Access!Idle
  BY DEF Access!OneRoot, Access!Idle
<1>2. check \in Access!Check /\ (Alone => \A p \in check.of : Foreseen(p))
  BY <1>1 DEF AclInv, Access!TypeOK, CheckRight
<1> DEFINE answer == [q \in RootPhotos |-> IF q \in check.of THEN Access!Resolve(q, FALSE, check.vis[q], Access!None, rootRule)
                                            ELSE "hidden"]
<1>3. check' = [check EXCEPT !.pc = "done", !.answer = answer] /\ UNCHANGED Access!rules
  BY DEF Access!OneRoot, Access!Answer
<1>4. \A q : Access!Resolve(q, FALSE, check.vis[q], Access!None, rootRule) \in Access!Answers
  BY ResolveTyped DEF AclInv, Access!TypeOK
<1>5. answer \in [RootPhotos -> Access!Answers]
  BY <1>4 DEF Access!Answers
<1>6. \A q \in check.of : answer[q] = Access!Resolve(q, FALSE, check.vis[q], Access!None, rootRule)
  BY <1>2 DEF Access!Check
<1> HIDE DEF answer
<1>7. \A q \in check.of : Alone => answer[q] \in seen[q]
  BY <1>1, <1>2, <1>6 DEF Foreseen
<1>8. QED
  BY <1>1, <1>3, <1>5, <1>7, AnswerStep

LEMMA BatchRootStep ==
  ASSUME Access!AclConstants, AclInv, Access!History, Access!BatchRoot
  PROVE  AclInv'
<1>1. check.op = "batch" /\ check.pc = "root" /\ check # Access!Idle
  BY DEF Access!BatchRoot, Access!Idle
<1>2. check \in Access!Check /\ Stages /\ Current /\ (Alone => \A p \in check.of : Foreseen(p))
  BY <1>1 DEF AclInv, Access!TypeOK, CheckRight
<1>3. check' = [check EXCEPT !.pc = "rules", !.root = rootRule] /\ UNCHANGED Access!rules
  BY DEF Access!BatchRoot
<1>4. /\ check' \in Access!Check /\ check'.pc = "rules" /\ check'.op = "batch" /\ check'.of = check.of
      /\ check'.admin = check.admin /\ check'.vis = check.vis /\ check'.root = rootRule
  BY <1>1, <1>2, <1>3 DEF Access!Check, AclInv, Access!TypeOK
<1>5. /\ Access!TypeOK' /\ seen' = seen /\ moved' = moved /\ (Alone' <=> Alone)
      /\ UNCHANGED <<admin, visibility, rootRule, folderRule>>
      /\ \A q : Matching(q)' = Matching(q)
      /\ \A q \in RootPhotos : Access!LevelsOf(q)' \subseteq seen'[q]
  BY <1>1, <1>3, <1>4, StepSame
<1>6. Stages' /\ Current'
  BY <1>2, <1>4, <1>5 DEF Stages, Current, PlainQuery
<1>7. \A q \in check.of : Alone' => Foreseen(q)'
  BY <1>1, <1>2, <1>4, <1>5 DEF Foreseen, PlainQuery
<1>8. QED
  BY <1>4, <1>5, <1>6, <1>7 DEF AclInv, CheckRight

LEMMA BatchRulesStep ==
  ASSUME Access!AclConstants, AclInv, Access!History, Access!BatchRules
  PROVE  AclInv'
<1>1. check.op = "batch" /\ check.pc = "rules" /\ check # Access!Idle
  BY DEF Access!BatchRules, Access!Idle
<1>2. check \in Access!Check /\ (Alone => \A p \in check.of : Foreseen(p))
  BY <1>1 DEF AclInv, Access!TypeOK, CheckRight
<1> DEFINE answer == [q \in RootPhotos |-> IF q \in check.of THEN Access!BatchLevel(q) ELSE "hidden"]
<1>3. check' = [check EXCEPT !.pc = "done", !.answer = answer] /\ UNCHANGED Access!rules
  BY DEF Access!BatchRules, Access!Answer
<1>4. ASSUME NEW q \in RootPhotos PROVE Access!BatchLevel(q) \in Access!Answers
  <2>1. Access!FolderMatch(q) \in Levels \cup {Access!None}
    <3> DEFINE G == {f \in RuleFolders : Access!Ruled(f) /\ Access!IsPrefix(f, PathOf[q])}
    <3>1. CASE G = {}
      BY <3>1 DEF Access!FolderMatch
    <3>2. CASE G # {}
      <4>1. \A f \in G : Access!Like(f, PathOf[q])
        BY PrefixIsLike
      <4>2. \E f \in G : \A g \in G : Len(g) <= Len(f)
        <5> HIDE DEF G
        <5>1. G \in SUBSET RuleFolders
          BY DEF G
        <5>2. QED
          BY <3>2, <4>1, <5>1, LongestRule
      <4> DEFINE top == CHOOSE f \in G : \A g \in G : Len(g) <= Len(f)
      <4>3. top \in RuleFolders /\ Access!FolderMatch(q) = folderRule[top]
        BY <3>2, <4>2 DEF Access!FolderMatch
      <4> HIDE DEF top
      <4>4. QED
        BY <4>3 DEF AclInv, Access!TypeOK
    <3>3. QED
      BY <3>1, <3>2
  <2>2. check.root \in Levels \cup {Access!None}
    BY <1>2 DEF Access!Check
  <2>3. QED
    BY <2>1, <2>2, ResolveTyped DEF Access!BatchLevel
<1>5. answer \in [RootPhotos -> Access!Answers]
  BY <1>4 DEF Access!Answers
<1>6. check.of \subseteq RootPhotos /\ \A q \in check.of : answer[q] = Access!BatchLevel(q)
  BY <1>2 DEF Access!Check
<1> HIDE DEF answer
<1>7. ASSUME NEW q \in check.of, Alone, ~Access!Mistaken(q) PROVE answer[q] \in seen[q]
  <2>1. Access!FolderMatch(q) \in Matching(q)
    BY <1>6, <1>7, CopyMatches
  <2>2. QED
    BY <1>1, <1>2, <1>6, <1>7, <2>1 DEF Foreseen, Access!BatchLevel
<1>8. QED
  BY <1>1, <1>3, <1>5, <1>7, AnswerStep

\* Without a folder rule no rule matches.
LEMMA NoRuleMatches ==
  ASSUME \A f \in RuleFolders : ~Access!Ruled(f), NEW p
  PROVE  Matching(p) = {Access!None}
  BY DEF Matching, Access!MatchingFolderLevels

LEMMA ListRulesStep ==
  ASSUME Access!AclConstants, AclInv, Access!History, Access!ListRules
  PROVE  AclInv'
<1> DEFINE bare == \A f \in RuleFolders : ~Access!Ruled(f)
<1>1. check.op = "list" /\ check.pc = "rules" /\ check # Access!Idle
  BY DEF Access!ListRules, Access!Idle
<1>2. check \in Access!Check /\ Stages /\ Current /\ (Alone => \A p \in check.of : Foreseen(p))
  BY <1>1 DEF AclInv, Access!TypeOK, CheckRight
<1>3. check' = [check EXCEPT !.plain = bare, !.pc = IF bare THEN "root" ELSE "query"]
      /\ UNCHANGED Access!rules
  BY DEF Access!ListRules
<1>4. bare => \A q : Access!None \in Matching(q)
  BY NoRuleMatches
<1>5. bare \in BOOLEAN
  OBVIOUS
<1> HIDE DEF bare
<1>6. /\ check' \in Access!Check /\ check'.pc = (IF bare THEN "root" ELSE "query") /\ check'.op = "list"
      /\ check'.of = check.of /\ check'.admin = check.admin /\ check'.vis = check.vis
      /\ check'.plain = bare
  BY <1>1, <1>2, <1>3, <1>5 DEF Access!Check
<1>7. /\ Access!TypeOK' /\ seen' = seen /\ moved' = moved /\ (Alone' <=> Alone)
      /\ UNCHANGED <<admin, visibility, rootRule, folderRule>>
      /\ \A q : Matching(q)' = Matching(q)
      /\ \A q \in RootPhotos : Access!LevelsOf(q)' \subseteq seen'[q]
  BY <1>1, <1>3, <1>6, StepSame
<1>8. Stages'
  BY <1>1, <1>2, <1>6 DEF Stages
<1>9. Current'
  BY <1>2, <1>4, <1>6, <1>7 DEF Current, PlainQuery
<1>10. ASSUME NEW q \in check.of, Alone' PROVE Foreseen(q)'
  <2>1. \A m \in Matching(q) : Access!Resolve(q, check.admin, visibility[q], m, rootRule) \in seen[q]
    BY <1>1, <1>2, <1>7, <1>10 DEF Foreseen
  <2>2. CASE bare
    BY <1>4, <1>6, <1>7, <2>1, <2>2 DEF Foreseen, PlainQuery
  <2>3. CASE ~bare
    BY <1>6, <1>7, <2>1, <2>3 DEF Foreseen, PlainQuery
  <2>4. QED
    BY <2>2, <2>3
<1>11. check'.pc # "done"
  BY <1>6
<1>12. QED
  BY <1>6, <1>7, <1>8, <1>9, <1>10, <1>11 DEF AclInv, CheckRight

LEMMA ListRootStep ==
  ASSUME Access!AclConstants, AclInv, Access!History, Access!ListRoot
  PROVE  AclInv'
<1>1. check.op = "list" /\ check.pc = "root" /\ check # Access!Idle
  BY DEF Access!ListRoot, Access!Idle
<1>2. check \in Access!Check /\ Stages /\ Current /\ (Alone => \A p \in check.of : Foreseen(p))
  BY <1>1 DEF AclInv, Access!TypeOK, CheckRight
<1>3. check' = [check EXCEPT !.pc = "query", !.root = rootRule] /\ UNCHANGED Access!rules
  BY DEF Access!ListRoot
<1>4. /\ check' \in Access!Check /\ check'.pc = "query" /\ check'.op = "list" /\ check'.of = check.of
      /\ check'.admin = check.admin /\ check'.vis = check.vis /\ check'.root = rootRule
      /\ check'.plain = check.plain /\ check.plain \in BOOLEAN
  BY <1>1, <1>2, <1>3 DEF Access!Check, AclInv, Access!TypeOK
<1>5. /\ Access!TypeOK' /\ seen' = seen /\ moved' = moved /\ (Alone' <=> Alone)
      /\ UNCHANGED <<admin, visibility, rootRule, folderRule>>
      /\ \A q : Matching(q)' = Matching(q)
      /\ \A q \in RootPhotos : Access!LevelsOf(q)' \subseteq seen'[q]
  BY <1>1, <1>3, <1>4, StepSame
<1>6. Stages' /\ Current'
  BY <1>1, <1>2, <1>4, <1>5 DEF Stages, Current, PlainQuery
<1>7. \A q \in check.of : Alone' => Foreseen(q)'
  BY <1>1, <1>2, <1>4, <1>5 DEF Foreseen, PlainQuery, Stages
<1>8. QED
  BY <1>4, <1>5, <1>6, <1>7 DEF AclInv, CheckRight

\* What the query shows of a photo is what its level says.
LEMMA ShownIsLevel ==
  ASSUME NEW p \in RootPhotos, visibility[p] \in Access!Visibility, NEW a \in BOOLEAN, NEW f, NEW r,
         NEW acl, acl = IF f # Access!None THEN f ELSE r
  PROVE  (a \/ Access!Shown(p, acl)) <=> Access!Resolve(p, a, visibility[p], f, r) # "hidden"
<1>1. CASE a
  BY <1>1 DEF Access!Resolve
<1>2. CASE ~a /\ visibility[p] = "private"
  BY <1>2 DEF Access!Resolve, Access!Shown
<1>3. CASE ~a /\ visibility[p] = "public"
  BY <1>3 DEF Access!Resolve, Access!Shown
<1>4. CASE ~a /\ visibility[p] = "inherit"
  BY <1>4 DEF Access!Resolve, Access!Shown, Access!None
<1>5. QED
  BY <1>1, <1>2, <1>3, <1>4 DEF Access!Visibility

LEMMA ListQueryStep ==
  ASSUME Access!AclConstants, AclInv, Access!History, Access!ListQuery
  PROVE  AclInv'
<1>1. check.op = "list" /\ check.pc = "query" /\ check # Access!Idle
  <2>1. check.op = "list" /\ check.pc = "query"
    BY Zenon DEF Access!ListQuery
  <2>2. QED
    BY <2>1 DEF Access!Idle
<1>2. check \in Access!Check /\ Stages /\ (Alone => \A p \in check.of : Foreseen(p)) /\ check.of = RootPhotos
  BY <1>1 DEF AclInv, Access!TypeOK, CheckRight, Stages
<1>3. PICK choice \in [RootPhotos -> Levels \cup {Access!None}] :
       LET acl(p) == IF check.plain THEN check.root
                     ELSE IF choice[p] # Access!None THEN choice[p] ELSE rootRule
       IN /\ \A p \in RootPhotos : choice[p] \in Access!MatchingFolderLevels(p)
          /\ Access!Answer({p \in RootPhotos : check.admin \/ Access!Shown(p, acl(p))}, LAMBDA p : "read")
  BY DEF Access!ListQuery
<1> DEFINE acl(p) == IF check.plain THEN check.root
                     ELSE IF choice[p] # Access!None THEN choice[p] ELSE rootRule
           answer == [p \in RootPhotos |-> IF p \in {q \in RootPhotos : check.admin \/ Access!Shown(q, acl(q))}
                                             THEN "read" ELSE "hidden"]
<1>4. /\ check' = [check EXCEPT !.pc = "done", !.answer = answer] /\ UNCHANGED Access!rules
      /\ \A p \in RootPhotos : choice[p] \in Matching(p)
  BY <1>3 DEF Access!Answer, Matching
<1>5. answer \in [RootPhotos -> Access!Answers]
  BY DEF Access!Answers
<1>6. ASSUME NEW p \in RootPhotos, Alone
      PROVE  \E l \in seen[p] : (answer[p] = "hidden") <=> (l = "hidden")
  <2> DEFINE f == IF check.plain THEN Access!None ELSE choice[p]
             r == IF check.plain THEN check.root ELSE rootRule
             l == Access!Resolve(p, check.admin, visibility[p], f, r)
  <2>1. l \in seen[p]
    BY <1>1, <1>2, <1>4, <1>6 DEF Foreseen, PlainQuery
  <2>2. acl(p) = IF f # Access!None THEN f ELSE r
    OBVIOUS
  <2>3. visibility[p] \in Access!Visibility /\ check.admin \in BOOLEAN
    BY <1>2 DEF AclInv, Access!TypeOK, Access!Check
  <2>4. (check.admin \/ Access!Shown(p, acl(p))) <=> l # "hidden"
    <3> DEFINE c == acl(p)
    <3>1. c = IF f # Access!None THEN f ELSE r
      BY <2>2
    <3> HIDE DEF c, f, r
    <3>2. (check.admin \/ Access!Shown(p, c)) <=> l # "hidden"
      BY <2>3, <3>1, ShownIsLevel
    <3>3. QED
      BY <3>2 DEF c
  <2>5. answer[p] = IF check.admin \/ Access!Shown(p, acl(p)) THEN "read" ELSE "hidden"
    OBVIOUS
  <2> HIDE DEF answer, l, acl
  <2>6. QED
    BY <2>1, <2>4, <2>5
<1> HIDE DEF answer
<1>7. QED
  BY <1>1, <1>2, <1>4, <1>5, <1>6, AnswerStep

-------------------------------------------------------------------------------
LEMMA IdleStep ==
  ASSUME Access!AclConstants, AclInv, RulesTyped, Access!History, check' = Access!Idle
  PROVE  AclInv'
<1>1. Access!TypeOK'
  BY HistoryTyped DEF AclInv
<1>2. QED
  BY <1>1 DEF AclInv, CheckRight

LEMMA BeginsStep ==
  ASSUME Access!AclConstants, AclInv, Access!History,
         Access!ListBegin \/ (\E p \in RootPhotos : Access!OneBegin(p)) \/ \E S \in SUBSET RootPhotos : Access!BatchBegin(S)
  PROVE  AclInv'
<1>1. CASE Access!ListBegin
  <2>1. Access!Begin("list", "rules", RootPhotos)
    BY <1>1 DEF Access!ListBegin
  <2>2. QED
    BY <2>1, BeginStep
<1>2. ASSUME NEW p \in RootPhotos, Access!OneBegin(p) PROVE AclInv'
  <2>1. Access!Begin("one", "folder", {p}) /\ {p} \in SUBSET RootPhotos
    BY <1>2 DEF Access!OneBegin
  <2>2. QED
    BY <2>1, BeginStep
<1>3. ASSUME NEW S \in SUBSET RootPhotos, Access!BatchBegin(S) PROVE AclInv'
  <2>1. Access!Begin("batch", "root", S)
    BY <1>3 DEF Access!BatchBegin
  <2>2. QED
    BY <2>1, BeginStep
<1>4. QED
  BY <1>1, <1>2, <1>3

LEMMA EditsTyped ==
  ASSUME Access!TypeOK, Access!Edits
  PROVE  RulesTyped /\ UNCHANGED check
<1>1. CASE Access!SetAdmin
  BY <1>1 DEF Access!SetAdmin, RulesTyped, Access!TypeOK
<1>2. ASSUME NEW l \in Levels \cup {Access!None}, Access!SetRootAcl(l) PROVE RulesTyped /\ UNCHANGED check
  BY <1>2 DEF Access!SetRootAcl, RulesTyped, Access!TypeOK
<1>3. ASSUME NEW f \in RuleFolders, NEW l \in Levels \cup {Access!None}, Access!SetFolderAcl(f, l)
      PROVE  RulesTyped /\ UNCHANGED check
  BY <1>3 DEF Access!SetFolderAcl, RulesTyped, Access!TypeOK
<1>4. ASSUME NEW p \in RootPhotos, NEW v \in Access!Visibility, Access!SetVisibility(p, v)
      PROVE  RulesTyped /\ UNCHANGED check
  BY <1>4 DEF Access!SetVisibility, RulesTyped, Access!TypeOK
<1>5. QED
  BY <1>1, <1>2, <1>3, <1>4 DEF Access!Edits

LEMMA AclStep ==
  ASSUME Access!AclConstants, AclInv, [Access!Next]_(Access!vars)
  PROVE  AclInv'
<1>1. CASE Access!Edits /\ Access!History
  BY <1>1, EditsTyped, EditKeeps DEF AclInv
<1>2. CASE Access!Steps /\ Access!History
  <2>1. CASE Access!End
    <3>1. check' = Access!Idle /\ RulesTyped
      BY <2>1 DEF Access!End, Access!rules, RulesTyped, AclInv, Access!TypeOK
    <3>2. QED
      BY <1>2, <3>1, IdleStep
  <2>2. QED
    BY <1>2, <2>1, BeginsStep, OneFolderStep, OneRootStep, BatchRootStep, BatchRulesStep,
       ListRulesStep, ListRootStep, ListQueryStep DEF Access!Steps
<1>3. CASE UNCHANGED Access!vars
  <2>1. UNCHANGED <<admin, visibility, rootRule, folderRule, check, seen, moved>>
    BY <1>3 DEF Access!vars
  <2>2. Access!TypeOK'
    BY <2>1 DEF AclInv, Access!TypeOK
  <2>3. \A p : Matching(p)' = Matching(p) /\ (Access!Mistaken(p)' <=> Access!Mistaken(p))
    BY <2>1, SameRules DEF Access!Mistaken, Access!Like
  <2>4. \A p : Access!LevelsOf(p)' = Access!LevelsOf(p)
    BY <2>1, <2>3 DEF Access!LevelsOf, Matching, Access!Resolve
  <2>5. Stages' <=> Stages
    BY <2>1 DEF Stages
  <2>6. (Current' <=> Current) /\ (Alone' <=> Alone)
    BY <2>1, <2>3 DEF Current, PlainQuery, Alone
  <2>7. ASSUME NEW p PROVE (Foreseen(p) => Foreseen(p)') /\ (Right(p) => Right(p)')
    <3>1. Foreseen(p) => Foreseen(p)'
      BY <2>1, <2>3 DEF Foreseen, PlainQuery
    <3>2. Right(p) => Right(p)'
      BY <2>1 DEF Right
    <3>3. QED
      BY <3>1, <3>2
  <2>8. CheckRight'
    BY <2>1, <2>3, <2>4, <2>5, <2>6, <2>7 DEF AclInv, CheckRight
  <2>9. QED
    BY <2>2, <2>8 DEF AclInv
<1>4. QED
  BY <1>1, <1>2, <1>3 DEF Access!Next

LEMMA AclStart ==
  ASSUME Access!Init
  PROVE  AclInv
<1>1. Access!TypeOK
  BY DEF Access!Init, Access!TypeOK, Access!Visibility
<1>2. CheckRight
  BY DEF Access!Init, CheckRight
<1>3. QED
  BY <1>1, <1>2 DEF AclInv

\* Two tables that were edited are at least two.
LEMMA TwoMoved ==
  ASSUME Access!TypeOK, ~Alone
  PROVE  Cardinality(moved) >= 2
<1>1. PICK a \in moved, b \in moved : a # b
  BY DEF Alone
<1>2. IsFiniteSet({"users", "photos", "root_acl", "folder_acl"})
  <2>1. IsFiniteSet({"users"}) /\ IsFiniteSet({"photos"})
    BY FS_Singleton
  <2>2. IsFiniteSet({"root_acl"}) /\ IsFiniteSet({"folder_acl"})
    BY FS_Singleton
  <2>3. IsFiniteSet({"users"} \cup {"photos"}) /\ IsFiniteSet({"root_acl"} \cup {"folder_acl"})
    BY <2>1, <2>2, FS_Union
  <2>4. IsFiniteSet(({"users"} \cup {"photos"}) \cup ({"root_acl"} \cup {"folder_acl"}))
    BY <2>3, FS_Union
  <2>5. {"users", "photos", "root_acl", "folder_acl"}
          = ({"users"} \cup {"photos"}) \cup ({"root_acl"} \cup {"folder_acl"})
    OBVIOUS
  <2>6. QED
    BY <2>4, <2>5
<1>3. IsFiniteSet(moved)
  BY <1>2, FS_Subset DEF Access!TypeOK
<1>4. Cardinality({a, b}) = 2
  <2>1. IsFiniteSet({b}) /\ Cardinality({b}) = 1
    BY FS_Singleton
  <2>2. Cardinality({b} \cup {a}) = Cardinality({b}) + 1
    BY <1>1, <2>1, FS_AddElement
  <2>3. {a, b} = {b} \cup {a}
    OBVIOUS
  <2>4. QED
    BY <2>1, <2>2, <2>3
<1>5. Cardinality({a, b}) <= Cardinality(moved)
  BY <1>3, FS_Subset
<1>6. Cardinality(moved) \in Nat
  BY <1>3, FS_CardinalityType
<1>7. QED
  BY <1>4, <1>5, <1>6

\* The inductive invariant of the access checks.
THEOREM ChecksKeep ==
  ASSUME Access!AclConstants
  PROVE  Access!Spec => []AclInv
<1>1. Access!Init => AclInv
  BY AclStart
<1>2. AclInv /\ [Access!Next]_(Access!vars) => AclInv'
  BY AclStep
<1>3. QED
  BY <1>1, <1>2, PTL DEF Access!Spec

\* An instance has an operator of its own for the one its module takes from the library.
LEMMA SameCounts == \A S : Access!Cardinality(S) = Cardinality(S)
  BY DEF Access!Cardinality, Cardinality

\* Whichever way a level is asked for, the answer is a level the photo had while it was
\* worked out, unless two tables were edited meanwhile.
THEOREM ChecksHold ==
  ASSUME Access!AclConstants
  PROVE  Access!Spec => []Access!AnswersHeld
<1>1. AclInv => Access!AnswersHeld
  BY TwoMoved, SameCounts DEF AclInv, CheckRight, Access!AnswersHeld, Right
<1>2. QED
  BY <1>1, ChecksKeep, PTL


-------------------------------------------------------------------------------
(***************************************************************************)
(* Metadata.  There is a history H of each file, of the tags that each of  *)
(* its versions had: what a session has read is one of them, an edit's     *)
(* version differs from the one before by the edit, and a row that is not  *)
(* to be read again shows a version that the scanner takes for known, or a *)
(* later one.                                                              *)
(***************************************************************************)
Shows(tags, r)  == r.turn = tags.turn /\ (tags.taken # Tagging!None => r.taken = tags.taken)
Placed(tags, r) == tags.gps # Tagging!None => r.loc.at = tags.gps

\* What a session has to do with a photo whose file has this version.
AtWork(q, p, v, H) ==
  q # Tagging!Idle /\ q.photo = p =>
    /\ q.version <= v
    /\ q.op = "index" /\ q.pc = "commit" => q.tags = H[q.version]
    /\ q.op \in {"gps", "taken"} /\ q.pc = "commit" =>
         /\ q.version - 1 \in Tagging!Version
         /\ H[q.version] = IF q.op = "gps" THEN [H[q.version - 1] EXCEPT !.gps = q.want]
                           ELSE [H[q.version - 1] EXCEPT !.taken = q.want]

RowFits(r, l, v, H) ==
  /\ r.sig <= v
  /\ ~r.pending =>
       /\ "tags" \in l \/ \E w \in r.sig..v : Shows(H[w], r)
       /\ "loc" \in l \/ \E w \in r.sig..v : Placed(H[w], r)
  /\ r.loc.source = "estimated" => "loc" \in l \/ r.loc.at = Tagging!Guess

Histories == [Tagging!Version -> Tagging!Tags]
Known(p, H) ==
  /\ H[photoFile[p].version] = photoFile[p].tags
  /\ RowFits(photoRow[p], stale[p], photoFile[p].version, H)
  /\ \A s \in Editors : AtWork(editor[s], p, photoFile[p].version, H)

Wants ==
  \A s \in Editors : editor[s] # Tagging!Idle =>
    /\ editor[s].op = "gps" => editor[s].want \in Coordinates \cup {Tagging!None}
    /\ editor[s].op = "taken" => editor[s].want \in Times \cup {Tagging!None}

MetaInv == Tagging!TypeOK /\ Wants /\ \A p \in TaggedPhotos : \E H \in Histories : Known(p, H)

-------------------------------------------------------------------------------
LEMMA SessionFacts ==
  ASSUME MetaInv, NEW s \in Editors, editor[s] # Tagging!Idle
  PROVE  /\ editor[s] \in Tagging!Busy /\ editor[s].photo \in TaggedPhotos
         /\ editor[s].version \in Tagging!Version /\ editor[s].tags \in Tagging!Tags
            /\ editor[s].seen \in Tagging!Row
         /\ photoRow[editor[s].photo] \in Tagging!Row /\ photoFile[editor[s].photo] \in Tagging!File
         /\ stale[editor[s].photo] \in SUBSET {"tags", "loc"}
<1>1. editor[s] \in Tagging!Busy
  BY DEF MetaInv, Tagging!TypeOK
<1>2. QED
  BY <1>1 DEF MetaInv, Tagging!TypeOK, Tagging!Busy

\* A step that writes nothing and takes a session into another state keeps the invariant,
\* if what the session has read then is a version of the file.
LEMMA SessionStep ==
  ASSUME MetaInv, NEW s \in Editors, NEW q \in Tagging!Busy \cup {Tagging!Idle},
         editor' = [editor EXCEPT ![s] = q], UNCHANGED <<photoFile, photoRow, stale>>,
         q # Tagging!Idle => /\ q.op = "gps" => q.want \in Coordinates \cup {Tagging!None}
                             /\ q.op = "taken" => q.want \in Times \cup {Tagging!None}
                             /\ \A H \in Histories : Known(q.photo, H) =>
                                  AtWork(q, q.photo, photoFile[q.photo].version, H)
  PROVE  MetaInv'
<1>1. Tagging!TypeOK'
  BY DEF MetaInv, Tagging!TypeOK
<1>2. \A u \in Editors : editor'[u] = IF u = s THEN q ELSE editor[u]
  BY DEF MetaInv, Tagging!TypeOK
<1>3. Wants'
  BY <1>2 DEF MetaInv, Wants
<1>4. ASSUME NEW p \in TaggedPhotos PROVE \E H \in Histories : Known(p, H)'
  <2>1. PICK H \in Histories : Known(p, H)
    BY DEF MetaInv
  <2>2. AtWork(q, p, photoFile[p].version, H)
    <3>1. CASE q # Tagging!Idle /\ q.photo = p
      BY <2>1, <3>1
    <3>2. CASE ~(q # Tagging!Idle /\ q.photo = p)
      BY <3>2 DEF AtWork
    <3>3. QED
      BY <3>1, <3>2
  <2>3. \A u \in Editors : AtWork(editor'[u], p, photoFile[p].version, H)
    BY <1>2, <2>1, <2>2 DEF Known
  <2>4. H[photoFile'[p].version] = photoFile'[p].tags
        /\ RowFits(photoRow'[p], stale'[p], photoFile'[p].version, H)
    BY <2>1 DEF Known
  <2>5. Known(p, H)'
    BY <2>3, <2>4 DEF Known
  <2>6. QED
    BY <2>5
<1>5. QED
  BY <1>1, <1>3, <1>4 DEF MetaInv

\* A commit keeps the invariant if the row fits the file after it.
LEMMA RowStep ==
  ASSUME MetaInv, NEW p \in TaggedPhotos, UNCHANGED photoFile,
         photoRow' \in [TaggedPhotos -> Tagging!Row], \A o \in TaggedPhotos \ {p} : photoRow'[o] = photoRow[o],
         stale' \in [TaggedPhotos -> SUBSET {"tags", "loc"}], \A o \in TaggedPhotos \ {p} : stale'[o] = stale[o],
         editor' \in [Editors -> Tagging!Busy \cup {Tagging!Idle}],
         \A u \in Editors : editor'[u] \in {editor[u], Tagging!Idle},
         \A H \in Histories : Known(p, H) => RowFits(photoRow'[p], stale'[p], photoFile[p].version, H)
  PROVE  MetaInv'
<1>1. Tagging!TypeOK'
  BY DEF MetaInv, Tagging!TypeOK
<1>2. Wants'
  BY DEF MetaInv, Wants
<1>3. ASSUME NEW o \in TaggedPhotos PROVE \E H \in Histories : Known(o, H)'
  <2>1. PICK H \in Histories : Known(o, H)
    BY DEF MetaInv
  <2>2. RowFits(photoRow'[o], stale'[o], photoFile[o].version, H)
    <3>1. CASE o = p
      BY <2>1, <3>1
    <3>2. CASE o # p
      BY <2>1, <3>2 DEF Known
    <3>3. QED
      BY <3>1, <3>2
  <2>3. ASSUME NEW u \in Editors PROVE AtWork(editor'[u], o, photoFile[o].version, H)
    <3>1. AtWork(editor[u], o, photoFile[o].version, H)
      BY <2>1 DEF Known
    <3>2. AtWork(Tagging!Idle, o, photoFile[o].version, H)
      BY DEF AtWork
    <3>3. QED
      BY <3>1, <3>2
  <2>4. Known(o, H)'
    BY <2>1, <2>2, <2>3 DEF Known
  <2>5. QED
    BY <2>4
<1>4. QED
  BY <1>1, <1>2, <1>3 DEF MetaInv

\* The row of a photo fits after a step that keeps it and marks more.
LEMMA FitsMarked ==
  ASSUME NEW r, NEW l, NEW m, NEW v, NEW H, RowFits(r, l, v, H), l \subseteq m
  PROVE  RowFits(r, m, v, H)
  BY DEF RowFits

\* A file gets another version.
LEMMA FileStep ==
  ASSUME MetaInv, Tagging!MetadataConstants, NEW p \in TaggedPhotos, NEW t \in Tagging!Tags,
         photoFile[p].version < MaxVersion,
         photoFile' = [photoFile EXCEPT ![p] = [version |-> @.version + 1, tags |-> t]],
         UNCHANGED <<photoRow, stale>>, editor' \in [Editors -> Tagging!Busy \cup {Tagging!Idle}], Wants',
         \A u \in Editors : editor'[u] = editor[u] \/
           /\ editor'[u] # Tagging!Idle /\ editor'[u].photo = p
           /\ editor'[u].version = photoFile[p].version + 1
           /\ editor'[u].op \in {"gps", "taken"} =>
                t = IF editor'[u].op = "gps" THEN [photoFile[p].tags EXCEPT !.gps = editor'[u].want]
                    ELSE [photoFile[p].tags EXCEPT !.taken = editor'[u].want]
           /\ editor'[u].op # "index"
  PROVE  MetaInv'
<1> DEFINE v == photoFile[p].version
<1>1. photoFile \in [TaggedPhotos -> Tagging!File] /\ photoFile[p] \in Tagging!File /\ v \in Tagging!Version
      /\ v \in Nat /\ v + 1 \in Tagging!Version
      /\ MaxVersion \in Nat
  BY DEF MetaInv, Tagging!TypeOK, Tagging!File, Tagging!Version, Tagging!MetadataConstants
<1>2. photoFile'[p] = [version |-> v + 1, tags |-> t]
      /\ \A o \in TaggedPhotos \ {p} : photoFile'[o] = photoFile[o]
  BY <1>1
<1>3. Tagging!TypeOK'
  <2>1. photoFile' \in [TaggedPhotos -> Tagging!File]
    BY <1>1 DEF Tagging!File
  <2>2. QED
    BY <2>1 DEF MetaInv, Tagging!TypeOK
<1>4. ASSUME NEW o \in TaggedPhotos, o # p PROVE \E H \in Histories : Known(o, H)'
  <2>1. PICK H \in Histories : Known(o, H)
    BY DEF MetaInv
  <2>2. ASSUME NEW u \in Editors PROVE AtWork(editor'[u], o, photoFile[o].version, H)
    <3>1. CASE editor'[u] = editor[u]
      BY <2>1, <3>1 DEF Known
    <3>2. CASE editor'[u].photo = p
      BY <1>4, <3>2 DEF AtWork
    <3>3. QED
      BY <3>1, <3>2
  <2>3. Known(o, H)'
    BY <1>2, <1>4, <2>1, <2>2 DEF Known
  <2>4. QED
    BY <2>3
<1>5. \E H \in Histories : Known(p, H)'
  <2>1. PICK H \in Histories : Known(p, H)
    BY DEF MetaInv
  <2>2. PICK G \in Histories : G[v + 1] = t /\ \A w \in Tagging!Version : w # v + 1 => G[w] = H[w]
    <3>1. [w \in Tagging!Version |-> IF w = v + 1 THEN t ELSE H[w]] \in Histories
      BY <1>1 DEF Histories
    <3>2. QED
      BY <1>1, <3>1
  <2>3. H[v] = photoFile[p].tags /\ \A w \in 0..v : w \in Tagging!Version /\ G[w] = H[w]
    <3>1. \A w \in 0..v : w \in Tagging!Version /\ w # v + 1
      BY <1>1 DEF Tagging!Version
    <3>2. QED
      BY <2>1, <2>2, <3>1 DEF Known
  <2>4. RowFits(photoRow'[p], stale'[p], v + 1, G)
    <3>1. RowFits(photoRow[p], stale[p], v, H) /\ photoRow[p].sig \in Nat
      BY <2>1 DEF Known, MetaInv, Tagging!TypeOK, Tagging!Row, Tagging!Version
    <3>2. \A w \in photoRow[p].sig..v : w \in photoRow[p].sig..(v + 1) /\ w \in 0..v
      BY <1>1, <3>1
    <3>3. photoRow[p].sig <= v + 1
      BY <1>1, <3>1 DEF RowFits
    <3>4. QED
      BY <2>3, <3>1, <3>2, <3>3 DEF RowFits
  <2>5. ASSUME NEW u \in Editors PROVE AtWork(editor'[u], p, v + 1, G)
    <3>1. CASE editor'[u] = editor[u]
      <4>1. SUFFICES ASSUME editor[u] # Tagging!Idle, editor[u].photo = p PROVE AtWork(editor[u], p, v + 1, G)
        BY <3>1 DEF AtWork
      <4>2. AtWork(editor[u], p, v, H) /\ editor[u].version \in Nat
        BY <2>1, <4>1, SessionFacts DEF Known, Tagging!Version
      <4>3. editor[u].version <= v /\ editor[u].version <= v + 1
        BY <1>1, <4>1, <4>2 DEF AtWork
      <4>4. editor[u].version \in 0..v
            /\ (editor[u].version - 1 \in Tagging!Version => editor[u].version - 1 \in 0..v)
        BY <1>1, <4>2, <4>3 DEF Tagging!Version
      <4>5. QED
        BY <2>3, <4>1, <4>2, <4>3, <4>4 DEF AtWork
    <3>2. CASE editor'[u] # editor[u]
      <4>1. /\ editor'[u] # Tagging!Idle /\ editor'[u].photo = p
            /\ editor'[u].version = v + 1
            /\ editor'[u].op \in {"gps", "taken"} =>
                t = IF editor'[u].op = "gps" THEN [photoFile[p].tags EXCEPT !.gps = editor'[u].want]
                    ELSE [photoFile[p].tags EXCEPT !.taken = editor'[u].want]
            /\ editor'[u].op # "index"
        BY <3>2
      <4>2. v + 1 <= v + 1 /\ (v + 1) - 1 = v /\ v \in 0..v
        BY <1>1
      <4>3. G[v + 1] = t /\ G[v] = photoFile[p].tags
        BY <2>2, <2>3, <4>2
      <4>4. QED
        BY <1>1, <4>1, <4>2, <4>3 DEF AtWork
    <3>3. QED
      BY <3>1, <3>2
  <2>6. Known(p, G)'
    BY <1>2, <2>2, <2>4, <2>5 DEF Known
  <2>7. QED
    BY <2>2, <2>6
<1>6. QED
  BY <1>3, <1>4, <1>5 DEF MetaInv

-------------------------------------------------------------------------------
(***************************************************************************)
(* Sessions begin, read and write files.                                   *)
(***************************************************************************)
LEMMA MetaBegins ==
  ASSUME MetaInv, NEW s \in Editors, NEW p \in TaggedPhotos,
         NEW op \in Tagging!Edits \cup {"index", "estimate", "scan"},
         NEW pc \in {"work", "commit"}, NEW want \in Coordinates \cup Times \cup {Tagging!None}, NEW by \in 0..3,
         Tagging!Begin(s, op, pc, p, want, by), pc = "work" \/ op \notin {"gps", "taken", "index"},
         op = "gps" => want \in Coordinates \cup {Tagging!None}, op = "taken" => want \in Times \cup {Tagging!None}
  PROVE  MetaInv'
<1> DEFINE q == [op |-> op, photo |-> p, pc |-> pc, want |-> want, by |-> by, seen |-> photoRow[p],
                 version |-> photoFile[p].version, tags |-> photoFile[p].tags]
<1>1. photoRow[p] \in Tagging!Row /\ photoFile[p] \in Tagging!File
      /\ photoFile[p].version \in Tagging!Version /\ photoFile[p].tags \in Tagging!Tags
  BY DEF MetaInv, Tagging!TypeOK, Tagging!File
<1>2. q \in Tagging!Busy
  BY <1>1 DEF Tagging!Busy
<1>3. editor' = [editor EXCEPT ![s] = q] /\ UNCHANGED <<photoFile, photoRow, stale>>
  BY DEF Tagging!Begin
<1>4. q.op = op /\ q.pc = pc /\ q.photo = p /\ q.version = photoFile[p].version /\ q.want = want
  OBVIOUS
<1> HIDE DEF q
<1>5. \A H \in Histories : AtWork(q, q.photo, photoFile[q.photo].version, H)
  BY <1>1, <1>4 DEF AtWork, Tagging!Version
<1>6. QED
  BY <1>2, <1>3, <1>4, <1>5, SessionStep

LEMMA AskStep ==
  ASSUME Tagging!MetadataConstants, MetaInv, NEW s \in Editors, NEW p \in TaggedPhotos, Tagging!Ask(s, p)
  PROVE  MetaInv'
<1>1. ASSUME NEW place \in Coordinates \cup {Tagging!None}, Tagging!GpsBegin(s, p, place) PROVE MetaInv'
  BY <1>1, MetaBegins DEF Tagging!GpsBegin, Tagging!Edits
<1>2. ASSUME NEW t \in Times \cup {Tagging!None}, Tagging!TakenBegin(s, p, t) PROVE MetaInv'
  <2>1. photoRow[p].original \in Times \cup {Tagging!None}
    BY DEF MetaInv, Tagging!TypeOK, Tagging!Row
  <2>2. QED
    BY <1>2, <2>1, MetaBegins DEF Tagging!TakenBegin, Tagging!Edits
<1>3. ASSUME NEW d \in Turns, Tagging!RotateBegin(s, p, d) PROVE MetaInv'
  <2>1. d \in 0..3
    BY DEF Tagging!MetadataConstants
  <2>2. QED
    BY <1>3, <2>1, MetaBegins DEF Tagging!RotateBegin, Tagging!Edits
<1>4. CASE Tagging!ScanBegin(s, p)
  <2>1. Tagging!Begin(s, "scan", "commit", p, Tagging!None, 0)
    BY <1>4 DEF Tagging!ScanBegin
  <2>2. /\ "scan" \in Tagging!Edits \cup {"index", "estimate", "scan"} /\ "commit" \in {"work", "commit"}
        /\ Tagging!None \in Coordinates \cup Times \cup {Tagging!None} /\ 0 \in 0..3
        /\ "scan" \notin {"gps", "taken", "index"}
    OBVIOUS
  <2>3. QED
    BY <2>1, <2>2, MetaBegins
<1>5. CASE Tagging!IndexBegin(s, p)
  BY <1>5, MetaBegins DEF Tagging!IndexBegin
<1>6. CASE Tagging!EstimateBegin(s, p)
  BY <1>6, MetaBegins DEF Tagging!EstimateBegin
<1>7. QED
  BY <1>1, <1>2, <1>3, <1>4, <1>5, <1>6 DEF Tagging!Ask

LEMMA ExtractStep ==
  ASSUME MetaInv, NEW s \in Editors, Tagging!IndexExtract(s)
  PROVE  MetaInv'
<1> DEFINE p == editor[s].photo
           loaded == [editor[s].seen EXCEPT !.loc = photoRow[p].loc]
           q == [editor[s] EXCEPT !.pc = "commit", !.version = photoFile[p].version, !.tags = photoFile[p].tags,
                                  !.seen = loaded]
<1>1. editor[s].op = "index" /\ editor[s].pc = "work" /\ editor[s] # Tagging!Idle
  BY DEF Tagging!IndexExtract, Tagging!At, Tagging!Idle
<1>2. editor[s] \in Tagging!Busy /\ p \in TaggedPhotos /\ photoRow[p] \in Tagging!Row
      /\ photoFile[p] \in Tagging!File
      /\ editor[s].seen \in Tagging!Row
  BY <1>1, SessionFacts
<1>3. loaded \in Tagging!Row /\ photoFile[p].version \in Tagging!Version /\ photoFile[p].tags \in Tagging!Tags
  BY <1>2 DEF Tagging!Row, Tagging!File
<1>4. /\ q \in Tagging!Busy /\ q.op = "index" /\ q.pc = "commit" /\ q.photo = p
      /\ q.version = photoFile[p].version /\ q.tags = photoFile[p].tags
  BY <1>1, <1>2, <1>3 DEF Tagging!Busy
<1>5. editor' = [editor EXCEPT ![s] = q] /\ UNCHANGED <<photoFile, photoRow, stale>>
  BY DEF Tagging!IndexExtract
<1> HIDE DEF q, loaded
<1>6. ASSUME NEW H \in Histories, Known(q.photo, H)
      PROVE  AtWork(q, q.photo, photoFile[q.photo].version, H)
  BY <1>3, <1>4, <1>6 DEF AtWork, Known, Tagging!Version
<1>7. QED
  BY <1>4, <1>5, <1>6, SessionStep

LEMMA EditStep ==
  ASSUME Tagging!MetadataConstants, MetaInv, NEW s \in Editors, Tagging!EditFile(s)
  PROVE  MetaInv'
<1> DEFINE p == editor[s].photo
           t == Tagging!Written(s)
           loaded == [editor[s].seen EXCEPT !.loc = photoRow[p].loc]
           q == [editor[s] EXCEPT !.pc = "commit", !.version = photoFile[p].version + 1, !.seen = loaded]
<1>1. editor[s].op \in Tagging!Edits /\ editor[s].pc = "work" /\ editor[s] # Tagging!Idle
  BY DEF Tagging!EditFile, Tagging!Edits, Tagging!Idle
<1>2. editor[s] \in Tagging!Busy /\ p \in TaggedPhotos /\ photoRow[p] \in Tagging!Row
      /\ photoFile[p] \in Tagging!File
      /\ editor[s].seen \in Tagging!Row
  BY <1>1, SessionFacts
<1>3. loaded \in Tagging!Row /\ photoFile[p].version \in Tagging!Version /\ photoFile[p].tags \in Tagging!Tags
  BY <1>2 DEF Tagging!Row, Tagging!File
<1>4. photoFile[p].version < MaxVersion /\ photoFile[p].version + 1 \in Tagging!Version
  BY <1>3 DEF Tagging!EditFile, Tagging!Version, Tagging!MetadataConstants
<1>5. /\ q \in Tagging!Busy /\ q # Tagging!Idle /\ q.op = editor[s].op /\ q.photo = p
         /\ q.want = editor[s].want
      /\ q.version = photoFile[p].version + 1
  BY <1>1, <1>2, <1>3, <1>4 DEF Tagging!Busy, Tagging!Idle
<1>6. editor' = [editor EXCEPT ![s] = q]
  BY DEF Tagging!EditFile
<1>7. /\ q.op = "gps" => q.want \in Coordinates \cup {Tagging!None}
      /\ q.op = "taken" => q.want \in Times \cup {Tagging!None}
  BY <1>1, <1>5 DEF MetaInv, Wants
<1>8. t = IF q.op = "gps" THEN [photoFile[p].tags EXCEPT !.gps = q.want]
          ELSE IF q.op = "taken" THEN [photoFile[p].tags EXCEPT !.taken = q.want]
          ELSE [photoFile[p].tags EXCEPT !.turn = Tagging!Turned(s)]
  BY <1>1, <1>5 DEF Tagging!Written, Tagging!Edits
<1>9. t \in Tagging!Tags
  <2>1. Tagging!Turned(s) \in 0..3
    <3>1. editor[s].seen.turn \in 0..3 /\ editor[s].by \in 0..3
      BY <1>2 DEF Tagging!Busy, Tagging!Row
    <3>2. QED
      BY <3>1 DEF Tagging!Turned
  <2>2. QED
    BY <1>3, <1>7, <1>8, <2>1 DEF Tagging!Tags
<1>10. /\ photoFile' = [photoFile EXCEPT ![p] = [version |-> @.version + 1, tags |-> t]]
       /\ UNCHANGED <<photoRow, stale>>
  BY DEF Tagging!EditFile
<1> HIDE DEF q, loaded, t
<1>11. \A u \in Editors : editor'[u] = IF u = s THEN q ELSE editor[u]
  BY <1>6 DEF MetaInv, Tagging!TypeOK
<1>12. editor' \in [Editors -> Tagging!Busy \cup {Tagging!Idle}] /\ Wants'
  <2>1. editor' \in [Editors -> Tagging!Busy \cup {Tagging!Idle}]
    BY <1>5, <1>6 DEF MetaInv, Tagging!TypeOK
  <2>2. Wants'
    BY <1>5, <1>7, <1>11 DEF MetaInv, Wants
  <2>3. QED
    BY <2>1, <2>2
<1>13. q.op # "index" /\ (q.op \in {"gps", "taken"} =>
         t = IF q.op = "gps" THEN [photoFile[p].tags EXCEPT !.gps = q.want]
             ELSE [photoFile[p].tags EXCEPT !.taken = q.want])
  BY <1>1, <1>5, <1>8 DEF Tagging!Edits
<1>14. \A u \in Editors : editor'[u] = editor[u] \/
        /\ editor'[u] # Tagging!Idle /\ editor'[u].photo = p
        /\ editor'[u].version = photoFile[p].version + 1
        /\ editor'[u].op \in {"gps", "taken"} =>
             t = IF editor'[u].op = "gps" THEN [photoFile[p].tags EXCEPT !.gps = editor'[u].want]
                 ELSE [photoFile[p].tags EXCEPT !.taken = editor'[u].want]
        /\ editor'[u].op # "index"
  BY <1>5, <1>11, <1>13
<1>15. p \in TaggedPhotos
  BY <1>2
<1> HIDE DEF p
<1>16. QED
  BY <1>4, <1>9, <1>10, <1>12, <1>14, <1>15, FileStep

LEMMA OutsideStep ==
  ASSUME Tagging!MetadataConstants, MetaInv, NEW p \in TaggedPhotos,
         NEW tags \in Tagging!Rewrites(photoFile[p].tags), Tagging!Outside(p, tags)
  PROVE  MetaInv'
<1>1. tags \in Tagging!Tags
  <2>1. photoFile[p].tags \in Tagging!Tags
    BY DEF MetaInv, Tagging!TypeOK, Tagging!File
  <2>2. \A d \in Turns : (photoFile[p].tags.turn + d) % 4 \in 0..3
    BY <2>1 DEF Tagging!Tags, Tagging!MetadataConstants
  <2>3. QED
    BY <2>1, <2>2 DEF Tagging!Rewrites, Tagging!Tags
<1>2. editor' \in [Editors -> Tagging!Busy \cup {Tagging!Idle}] /\ Wants'
  BY DEF Tagging!Outside, MetaInv, Tagging!TypeOK, Wants
<1>3. QED
  BY <1>1, <1>2, FileStep DEF Tagging!Outside

-------------------------------------------------------------------------------
(***************************************************************************)
(* Commits.                                                                *)
(***************************************************************************)
LEMMA MarkFacts ==
  ASSUME MetaInv, NEW p \in TaggedPhotos, NEW what \in SUBSET {"tags", "loc"}, Tagging!Marks(p, what)
  PROVE  /\ stale' \in [TaggedPhotos -> SUBSET {"tags", "loc"}]
         /\ stale'[p] = stale[p] \cup what
         /\ \A o \in TaggedPhotos \ {p} : stale'[o] = stale[o]
  BY DEF MetaInv, Tagging!TypeOK, Tagging!Marks

LEMMA EndFacts ==
  ASSUME MetaInv, NEW s \in Editors, Tagging!Ends(s)
  PROVE  /\ editor' \in [Editors -> Tagging!Busy \cup {Tagging!Idle}]
         /\ \A u \in Editors : editor'[u] \in {editor[u], Tagging!Idle}
  BY DEF MetaInv, Tagging!TypeOK, Tagging!Ends

\* A session gives up.
LEMMA EndStep ==
  ASSUME MetaInv, NEW s \in Editors, Tagging!Ends(s), UNCHANGED <<photoFile, photoRow, stale>>
  PROVE  MetaInv'
  BY SessionStep DEF Tagging!Ends

\* A commit changes the row of its photo, marks it, and ends the session.
LEMMA CommitsRow ==
  ASSUME MetaInv, NEW s \in Editors, editor[s] # Tagging!Idle, Tagging!Ends(s), UNCHANGED photoFile,
         NEW r \in Tagging!Row, photoRow' = [photoRow EXCEPT ![editor[s].photo] = r],
         NEW what \in SUBSET {"tags", "loc"}, Tagging!Marks(editor[s].photo, what),
         \A H \in Histories : Known(editor[s].photo, H) =>
           RowFits(r, stale[editor[s].photo] \cup what, photoFile[editor[s].photo].version, H)
  PROVE  MetaInv'
<1> DEFINE p == editor[s].photo
<1>1. p \in TaggedPhotos
  BY SessionFacts
<1> HIDE DEF p
<1>2. photoRow' \in [TaggedPhotos -> Tagging!Row] /\ photoRow'[p] = r
      /\ \A o \in TaggedPhotos \ {p} : photoRow'[o] = photoRow[o]
  BY <1>1 DEF MetaInv, Tagging!TypeOK, p
<1>3. /\ stale' \in [TaggedPhotos -> SUBSET {"tags", "loc"}] /\ stale'[p] = stale[p] \cup what
      /\ \A o \in TaggedPhotos \ {p} : stale'[o] = stale[o]
  BY <1>1, MarkFacts DEF p
<1>4. \A H \in Histories : Known(p, H) => RowFits(photoRow'[p], stale'[p], photoFile[p].version, H)
  BY <1>2, <1>3 DEF p
<1>5. QED
  BY <1>1, <1>2, <1>3, <1>4, EndFacts, RowStep

\* Where nobody but the edit wrote the file, the row shows its version or the one before.
LEMMA AloneFacts ==
  ASSUME MetaInv, NEW s \in Editors, editor[s].op \in {"gps", "taken"}, editor[s].pc = "commit",
         Tagging!Alone(s), NEW H \in Histories, Known(editor[s].photo, H)
  PROVE  LET p == editor[s].photo  v == photoFile[p].version IN
         /\ v \in Nat /\ v \in Tagging!Version /\ v - 1 \in Tagging!Version
         /\ H[v - 1] \in Tagging!Tags
         /\ H[v] = IF editor[s].op = "gps" THEN [H[v - 1] EXCEPT !.gps = editor[s].want]
                   ELSE [H[v - 1] EXCEPT !.taken = editor[s].want]
         /\ photoRow[p].sig <= v
         /\ \A w \in photoRow[p].sig..v : w \in {v - 1, v}
<1> DEFINE p == editor[s].photo
           v == photoFile[p].version
<1>1. editor[s] # Tagging!Idle
  BY DEF Tagging!Idle
<1>2. p \in TaggedPhotos /\ photoFile[p] \in Tagging!File /\ photoRow[p] \in Tagging!Row
  BY <1>1, SessionFacts
<1>3. v \in Tagging!Version /\ v \in Nat /\ photoRow[p].sig \in Nat
  BY <1>2 DEF Tagging!File, Tagging!Row, Tagging!Version
<1>4. editor[s].version = v /\ photoRow[p].sig \in {v - 1, v}
  BY DEF Tagging!Alone
<1>5. AtWork(editor[s], p, v, H)
  BY DEF Known
<1>6. /\ v - 1 \in Tagging!Version
      /\ H[v] = IF editor[s].op = "gps" THEN [H[v - 1] EXCEPT !.gps = editor[s].want]
                ELSE [H[v - 1] EXCEPT !.taken = editor[s].want]
  BY <1>1, <1>4, <1>5 DEF AtWork
<1>7. H[v - 1] \in Tagging!Tags
  BY <1>6 DEF Histories
<1> HIDE DEF v
<1>8. photoRow[p].sig <= v /\ \A w \in photoRow[p].sig..v : w \in {v - 1, v}
  BY <1>3, <1>4
<1>9. QED
  BY <1>3, <1>6, <1>7, <1>8 DEF v

LEMMA GpsStep ==
  ASSUME Tagging!MetadataConstants, MetaInv, NEW s \in Editors, Tagging!GpsCommit(s)
  PROVE  MetaInv'
<1> DEFINE p == editor[s].photo
           v == photoFile[p].version
           loaded == editor[s].seen.loc
           place == editor[s].want
           new == IF loaded = Tagging!NoLoc THEN [at |-> place, source |-> "null"] ELSE [loaded EXCEPT !.at = place]
           loc == CASE place = Tagging!None -> IF loaded = Tagging!NoLoc THEN photoRow[p].loc ELSE Tagging!NoLoc
                    [] place # Tagging!None /\ loaded = Tagging!NoLoc -> new
                    [] place # Tagging!None /\ loaded # Tagging!NoLoc -> [photoRow[p].loc EXCEPT !.at = Tagging!Put(@, loaded.at, place)]
           what == (IF Tagging!Alone(s) THEN {} ELSE {"tags", "loc"})
                     \cup (IF loc.source = "estimated" \/ photoRow[p].loc # loaded THEN {"loc"} ELSE {})
           r == [photoRow[p] EXCEPT !.loc = loc, !.sig = v]
<1>1. editor[s].op = "gps" /\ editor[s].pc = "commit" /\ editor[s] # Tagging!Idle /\ Tagging!Ends(s)
      /\ UNCHANGED photoFile
  BY DEF Tagging!GpsCommit, Tagging!At, Tagging!Idle
<1>2. /\ editor[s] \in Tagging!Busy /\ p \in TaggedPhotos /\ photoRow[p] \in Tagging!Row
         /\ photoFile[p] \in Tagging!File
      /\ stale[p] \in SUBSET {"tags", "loc"}
  BY <1>1, SessionFacts
<1>3. place \in Coordinates \cup {Tagging!None} /\ photoRow[p].loc \in Tagging!Loc \cup {Tagging!NoLoc}
      /\ loaded \in Tagging!Loc \cup {Tagging!NoLoc}
      /\ v \in Tagging!Version /\ v \in Nat
  BY <1>1, <1>2 DEF MetaInv, Wants, Tagging!Busy, Tagging!Row, Tagging!File, Tagging!Version
<1>4. CASE place # Tagging!None /\ new # loaded /\ Tagging!Clash(s)
  <2>1. UNCHANGED <<photoFile, photoRow, stale>>
    BY <1>4 DEF Tagging!GpsCommit
  <2>2. QED
    BY <1>1, <2>1, EndStep
<1>5. CASE ~(place # Tagging!None /\ new # loaded /\ Tagging!Clash(s))
  <2>1. photoRow' = [photoRow EXCEPT ![p].loc = loc, ![p].sig = v] /\ Tagging!Marks(p, what)
    BY <1>5 DEF Tagging!GpsCommit, Tagging!RefreshedSignature
  <2>2. loc \in Tagging!Loc \cup {Tagging!NoLoc}
    <3>1. CASE place = Tagging!None
      BY <1>3, <3>1
    <3>2. CASE place # Tagging!None /\ loaded = Tagging!NoLoc
      <4>1. loc = [at |-> place, source |-> "null"]
        BY <3>2
      <4>2. QED
        BY <1>3, <3>2, <4>1 DEF Tagging!Loc
    <3>3. CASE place # Tagging!None /\ loaded # Tagging!NoLoc
      <4>1. loc = [photoRow[p].loc EXCEPT !.at = Tagging!Put(@, loaded.at, place)]
        BY <3>3
      <4>2. CASE photoRow[p].loc = Tagging!NoLoc
        <5>1. new = loaded /\ new = [loaded EXCEPT !.at = place]
          BY <1>5, <3>3, <4>2 DEF Tagging!Clash
        <5>2. loaded \in Tagging!Loc
          BY <1>3, <3>3
        <5>3. loaded.at = place
          BY <5>1, <5>2 DEF Tagging!Loc
        <5>4. loc = Tagging!NoLoc
          BY <4>1, <4>2, <5>3 DEF Tagging!Put, Tagging!NoLoc
        <5>5. QED
          BY <5>4
      <4>3. CASE photoRow[p].loc # Tagging!NoLoc
        <5>1. photoRow[p].loc \in Tagging!Loc
              /\ Tagging!Put(photoRow[p].loc.at, loaded.at, place) \in {photoRow[p].loc.at, place}
          BY <1>3, <4>3 DEF Tagging!Put
        <5>2. QED
          BY <1>3, <3>3, <4>1, <5>1 DEF Tagging!Loc
      <4>4. QED
        BY <4>2, <4>3
    <3>4. QED
      BY <3>1, <3>2, <3>3
  <2>3. what \in SUBSET {"tags", "loc"}
    OBVIOUS
  <2>4. loc.source = "estimated" \/ photoRow[p].loc # loaded \/ ~Tagging!Alone(s) => "loc" \in what
    OBVIOUS
  <2>5. ~Tagging!Alone(s) => "tags" \in what
    OBVIOUS
  <2>6. photoRow[p].loc = loaded /\ place # Tagging!None => loc.at = place
    <3>1. SUFFICES ASSUME photoRow[p].loc = loaded, place # Tagging!None PROVE loc.at = place
      OBVIOUS
    <3>2. CASE loaded = Tagging!NoLoc
      <4>1. loc = [at |-> place, source |-> "null"]
        BY <3>1, <3>2
      <4>2. QED
        BY <4>1
    <3>3. CASE loaded # Tagging!NoLoc
      <4>1. loc = [photoRow[p].loc EXCEPT !.at = Tagging!Put(@, loaded.at, place)]
            /\ photoRow[p].loc \in Tagging!Loc
        BY <1>3, <3>1, <3>3
      <4>2. Tagging!Put(photoRow[p].loc.at, loaded.at, place) = place
        BY <3>1 DEF Tagging!Put
      <4>3. QED
        BY <4>1, <4>2 DEF Tagging!Loc
    <3>4. QED
      BY <3>2, <3>3
  <2> HIDE DEF loc, what, new
  <2>7. r \in Tagging!Row /\ photoRow' = [photoRow EXCEPT ![p] = r]
    BY <1>2, <1>3, <2>1, <2>2 DEF Tagging!Row
  <2>8. r.sig = v /\ r.loc = loc /\ r.pending = photoRow[p].pending /\ r.turn = photoRow[p].turn
        /\ r.taken = photoRow[p].taken
    BY <1>2 DEF Tagging!Row
  <2> HIDE DEF r
  <2>9. ASSUME NEW H \in Histories, Known(p, H)
        PROVE  RowFits(r, stale[p] \cup what, v, H)
    <3>1. v \in r.sig..v /\ r.sig <= v
      BY <1>3, <2>8
    <3>2. CASE ~Tagging!Alone(s)
      BY <2>4, <2>5, <3>1, <3>2 DEF RowFits
    <3>3. CASE Tagging!Alone(s)
      <4>1. /\ H[v - 1] \in Tagging!Tags /\ H[v] = [H[v - 1] EXCEPT !.gps = place]
            /\ \A w \in photoRow[p].sig..v : w \in {v - 1, v}
        BY <1>1, <2>9, <3>3, AloneFacts
      <4>2. H[v].turn = H[v - 1].turn /\ H[v].taken = H[v - 1].taken /\ H[v].gps = place
        BY <4>1 DEF Tagging!Tags
      <4>3. ~photoRow[p].pending => "tags" \in stale[p] \/ \E w \in photoRow[p].sig..v : Shows(H[w], photoRow[p])
        BY <2>9 DEF Known, RowFits
      <4>4. ~r.pending => "tags" \in stale[p] \/ Shows(H[v], r)
        BY <2>8, <4>1, <4>2, <4>3 DEF Shows
      <4>5. "loc" \in what \/ Placed(H[v], r)
        BY <2>4, <2>6, <2>8, <4>2 DEF Placed
      <4>6. r.loc.source = "estimated" => "loc" \in what
        BY <2>4, <2>8
      <4>7. QED
        BY <3>1, <4>4, <4>5, <4>6 DEF RowFits
    <3>4. QED
      BY <3>2, <3>3
  <2>10. QED
    BY <1>1, <2>1, <2>3, <2>7, <2>9, CommitsRow
<1>6. QED
  BY <1>4, <1>5

LEMMA TakenStep ==
  ASSUME Tagging!MetadataConstants, MetaInv, NEW s \in Editors, Tagging!TakenCommit(s)
  PROVE  MetaInv'
<1> DEFINE p == editor[s].photo
           v == photoFile[p].version
           loaded == editor[s].seen
           want == editor[s].want
           reverts == want = loaded.original /\ loaded.original # Tagging!None
           original == IF reverts THEN Tagging!None
                       ELSE IF loaded.original = Tagging!None THEN loaded.taken ELSE loaded.original
           taken == Tagging!Put(photoRow[p].taken, loaded.taken, want)
           kept == Tagging!Put(photoRow[p].original, loaded.original, original)
           what == IF Tagging!Alone(s) /\ photoRow[p].taken = loaded.taken THEN {} ELSE {"tags", "loc"}
           r == [photoRow[p] EXCEPT !.taken = taken, !.original = kept, !.sig = v]
<1>1. editor[s].op = "taken" /\ editor[s].pc = "commit" /\ editor[s] # Tagging!Idle /\ Tagging!Ends(s)
      /\ UNCHANGED photoFile
  BY DEF Tagging!TakenCommit, Tagging!At, Tagging!Idle
<1>2. /\ editor[s] \in Tagging!Busy /\ p \in TaggedPhotos /\ photoRow[p] \in Tagging!Row
         /\ photoFile[p] \in Tagging!File /\ loaded \in Tagging!Row
      /\ stale[p] \in SUBSET {"tags", "loc"}
  BY <1>1, SessionFacts
<1>3. want \in Times \cup {Tagging!None} /\ v \in Tagging!Version /\ v \in Nat
  BY <1>1, <1>2 DEF MetaInv, Wants, Tagging!File, Tagging!Version
<1>4. taken \in Times \cup {Tagging!None} /\ kept \in Times \cup {Tagging!None}
  BY <1>2, <1>3 DEF Tagging!Put, Tagging!Row
<1>5. photoRow' = [photoRow EXCEPT ![p].taken = taken, ![p].original = kept, ![p].sig = v]
      /\ Tagging!Marks(p, what)
  BY DEF Tagging!TakenCommit, Tagging!RefreshedSignature
<1>6. what \in SUBSET {"tags", "loc"}
  OBVIOUS
<1>7. ~Tagging!Alone(s) \/ photoRow[p].taken # loaded.taken => what = {"tags", "loc"}
  OBVIOUS
<1>8. photoRow[p].taken = loaded.taken => taken = want
  BY DEF Tagging!Put
<1> HIDE DEF taken, kept, original, reverts, what
<1>9. r \in Tagging!Row /\ photoRow' = [photoRow EXCEPT ![p] = r]
  BY <1>2, <1>3, <1>4, <1>5 DEF Tagging!Row
<1>10. r.sig = v /\ r.taken = taken /\ r.loc = photoRow[p].loc /\ r.pending = photoRow[p].pending
       /\ r.turn = photoRow[p].turn
  BY <1>2 DEF Tagging!Row
<1> HIDE DEF r
<1>11. ASSUME NEW H \in Histories, Known(p, H)
       PROVE  RowFits(r, stale[p] \cup what, v, H)
  <2>1. v \in r.sig..v /\ r.sig <= v
    BY <1>3, <1>10
  <2>2. CASE ~(Tagging!Alone(s) /\ photoRow[p].taken = loaded.taken)
    BY <1>7, <2>1, <2>2 DEF RowFits
  <2>3. CASE Tagging!Alone(s) /\ photoRow[p].taken = loaded.taken
    <3>1. /\ H[v - 1] \in Tagging!Tags /\ H[v] = [H[v - 1] EXCEPT !.taken = want]
          /\ \A w \in photoRow[p].sig..v : w \in {v - 1, v}
      BY <1>1, <1>11, <2>3, AloneFacts
    <3>2. H[v].turn = H[v - 1].turn /\ H[v].gps = H[v - 1].gps /\ H[v].taken = want
      BY <3>1 DEF Tagging!Tags
    <3>3. ~photoRow[p].pending =>
            /\ "tags" \in stale[p] \/ \E w \in photoRow[p].sig..v : Shows(H[w], photoRow[p])
            /\ "loc" \in stale[p] \/ \E w \in photoRow[p].sig..v : Placed(H[w], photoRow[p])
      BY <1>11 DEF Known, RowFits
    <3>4. ~r.pending => "tags" \in stale[p] \/ Shows(H[v], r)
      BY <1>8, <1>10, <2>3, <3>1, <3>2, <3>3 DEF Shows
    <3>5. ~r.pending => "loc" \in stale[p] \/ Placed(H[v], r)
      BY <1>10, <3>1, <3>2, <3>3 DEF Placed
    <3>6. r.loc.source = "estimated" => "loc" \in stale[p] \/ r.loc.at = Tagging!Guess
      BY <1>10, <1>11 DEF Known, RowFits
    <3>7. QED
      BY <2>1, <3>4, <3>5, <3>6 DEF RowFits
  <2>4. QED
    BY <2>2, <2>3
<1>12. QED
  BY <1>1, <1>5, <1>6, <1>9, <1>11, CommitsRow

\* A row that is to be read again, or is marked in full, fits under any signature up to
\* the file's version.
LEMMA FitsPending ==
  ASSUME NEW p \in TaggedPhotos, NEW H, Known(p, H), NEW r, NEW what,
         r.sig <= photoFile[p].version, r.loc = photoRow[p].loc,
         ~r.pending => what = {"tags", "loc"}
  PROVE  RowFits(r, stale[p] \cup what, photoFile[p].version, H)
  BY DEF Known, RowFits

LEMMA RotateStep ==
  ASSUME Tagging!MetadataConstants, MetaInv, NEW s \in Editors, Tagging!RotateCommit(s)
  PROVE  MetaInv'
<1> DEFINE p == editor[s].photo
           loaded == editor[s].seen
           turn == Tagging!Put(photoRow[p].turn, loaded.turn, Tagging!Turned(s))
           pending == photoRow[p].pending \/ ~loaded.pending
           sig == Tagging!Put(photoRow[p].sig, loaded.sig, editor[s].version)
           what == IF photoRow'[p].pending THEN {} ELSE {"tags", "loc"}
           r == [photoRow[p] EXCEPT !.turn = turn, !.pending = pending, !.sig = sig]
<1>1. editor[s] # Tagging!Idle /\ Tagging!Ends(s) /\ UNCHANGED photoFile
  BY DEF Tagging!RotateCommit, Tagging!At, Tagging!Idle
<1>2. /\ editor[s] \in Tagging!Busy /\ p \in TaggedPhotos /\ photoRow[p] \in Tagging!Row
         /\ photoFile[p] \in Tagging!File /\ loaded \in Tagging!Row
      /\ editor[s].version \in Tagging!Version
  BY <1>1, SessionFacts
<1>3. Tagging!Turned(s) \in 0..3
  <2>1. loaded.turn \in 0..3 /\ editor[s].by \in 0..3
    BY <1>2 DEF Tagging!Busy, Tagging!Row
  <2>2. QED
    BY <2>1 DEF Tagging!Turned
<1>4. turn \in 0..3 /\ pending \in BOOLEAN /\ sig \in Tagging!Version
  BY <1>2, <1>3 DEF Tagging!Put, Tagging!Row
<1>5. /\ photoRow' = [photoRow EXCEPT ![p].turn = turn, ![p].pending = pending, ![p].sig = sig]
      /\ Tagging!Marks(p, what)
  BY DEF Tagging!RotateCommit
<1>6. sig \in {photoRow[p].sig, editor[s].version}
  BY DEF Tagging!Put
<1> HIDE DEF turn, pending, sig
<1>7. r \in Tagging!Row /\ photoRow' = [photoRow EXCEPT ![p] = r]
  BY <1>2, <1>4, <1>5 DEF Tagging!Row
<1>8. r.sig = sig /\ r.loc = photoRow[p].loc
  BY <1>2 DEF Tagging!Row
<1>9. photoRow'[p] = r
  BY <1>2, <1>7 DEF MetaInv, Tagging!TypeOK
<1> HIDE DEF r
<1>10. what \in SUBSET {"tags", "loc"} /\ (~r.pending => what = {"tags", "loc"})
  BY <1>9
<1> HIDE DEF what
<1>11. ASSUME NEW H \in Histories, Known(p, H)
       PROVE  RowFits(r, stale[p] \cup what, photoFile[p].version, H)
  <2>1. photoRow[p].sig <= photoFile[p].version /\ editor[s].version <= photoFile[p].version
    BY <1>1, <1>11 DEF Known, AtWork, RowFits
  <2>2. QED
    BY <1>2, <1>6, <1>8, <1>10, <1>11, <2>1, FitsPending
<1>12. QED
  BY <1>1, <1>5, <1>7, <1>10, <1>11, CommitsRow

LEMMA ScanStep ==
  ASSUME Tagging!MetadataConstants, MetaInv, NEW s \in Editors, Tagging!ScanCommit(s)
  PROVE  MetaInv'
<1> DEFINE p == editor[s].photo
           pending == photoRow[p].pending \/ ~editor[s].seen.pending
           what == IF photoRow'[p].pending THEN {} ELSE {"tags", "loc"}
           r == [photoRow[p] EXCEPT !.sig = editor[s].version, !.pending = pending]
<1>1. editor[s] # Tagging!Idle /\ Tagging!Ends(s) /\ UNCHANGED photoFile
  BY DEF Tagging!ScanCommit, Tagging!At, Tagging!Idle
<1>2. /\ editor[s] \in Tagging!Busy /\ p \in TaggedPhotos /\ photoRow[p] \in Tagging!Row
         /\ photoFile[p] \in Tagging!File
      /\ editor[s].seen \in Tagging!Row /\ editor[s].version \in Tagging!Version
  BY <1>1, SessionFacts
<1>3. pending \in BOOLEAN
  OBVIOUS
<1>4. photoRow' = [photoRow EXCEPT ![p].sig = editor[s].version, ![p].pending = pending]
      /\ Tagging!Marks(p, what)
  BY DEF Tagging!ScanCommit
<1> HIDE DEF pending
<1>5. r \in Tagging!Row /\ photoRow' = [photoRow EXCEPT ![p] = r]
  BY <1>2, <1>3, <1>4 DEF Tagging!Row
<1>6. r.sig = editor[s].version /\ r.loc = photoRow[p].loc
  BY <1>2 DEF Tagging!Row
<1>7. photoRow'[p] = r
  BY <1>2, <1>5 DEF MetaInv, Tagging!TypeOK
<1> HIDE DEF r
<1>8. what \in SUBSET {"tags", "loc"} /\ (~r.pending => what = {"tags", "loc"})
  BY <1>7
<1> HIDE DEF what
<1>9. ASSUME NEW H \in Histories, Known(p, H)
      PROVE  RowFits(r, stale[p] \cup what, photoFile[p].version, H)
  <2>1. editor[s].version <= photoFile[p].version
    BY <1>1, <1>9 DEF Known, AtWork
  <2>2. QED
    BY <1>2, <1>6, <1>8, <1>9, <2>1, FitsPending
<1>10. QED
  BY <1>1, <1>4, <1>5, <1>8, <1>9, CommitsRow

LEMMA UnreadStep ==
  ASSUME Tagging!MetadataConstants, MetaInv, NEW s \in Editors, Tagging!IndexUnread(s)
  PROVE  MetaInv'
<1> DEFINE p == editor[s].photo
           r == [photoRow[p] EXCEPT !.pending = FALSE]
<1>1. editor[s] # Tagging!Idle /\ Tagging!Ends(s) /\ UNCHANGED photoFile
  BY DEF Tagging!IndexUnread, Tagging!At, Tagging!Idle
<1>2. p \in TaggedPhotos /\ photoRow[p] \in Tagging!Row
  BY <1>1, SessionFacts
<1>3. r \in Tagging!Row /\ photoRow' = [photoRow EXCEPT ![p] = r] /\ Tagging!Marks(p, {"tags", "loc"})
  BY <1>2 DEF Tagging!Row, Tagging!IndexUnread
<1>4. r.sig = photoRow[p].sig /\ r.loc = photoRow[p].loc
  BY <1>2 DEF Tagging!Row
<1> HIDE DEF r
<1>5. ASSUME NEW H \in Histories, Known(p, H)
      PROVE  RowFits(r, stale[p] \cup {"tags", "loc"}, photoFile[p].version, H)
  <2>1. photoRow[p].sig <= photoFile[p].version
    BY <1>5 DEF Known, RowFits
  <2>2. QED
    BY <1>2, <1>4, <1>5, <2>1, FitsPending
<1>6. QED
  BY <1>1, <1>3, <1>5, CommitsRow

LEMMA IndexStep ==
  ASSUME Tagging!MetadataConstants, MetaInv, NEW s \in Editors, Tagging!IndexCommit(s)
  PROVE  MetaInv'
<1> DEFINE p == editor[s].photo
           v == photoFile[p].version
           w == editor[s].version
           tags == editor[s].tags
           loaded == editor[s].seen
           now == photoRow[p]
           refused == tags.gps # Tagging!None /\ loaded.loc # [at |-> tags.gps, source |-> "exif"] /\ Tagging!Clash(s)
           read == IF tags.taken = Tagging!None THEN loaded.taken ELSE tags.taken
           taken == Tagging!Put(now.taken, loaded.taken, read)
           turn == Tagging!Put(now.turn, loaded.turn, tags.turn)
           loc == Tagging!Extracted(tags, loaded.loc, now.loc)
           what == IF \/ now.sig > w
                      \/ now.taken # loaded.taken \/ now.turn # loaded.turn \/ now.loc # loaded.loc
                     THEN {"tags", "loc"} ELSE {}
           r == [now EXCEPT !.taken = taken, !.turn = turn, !.loc = loc, !.pending = FALSE]
<1>1. editor[s].op = "index" /\ editor[s].pc = "commit" /\ editor[s] # Tagging!Idle /\ Tagging!Ends(s)
      /\ UNCHANGED photoFile
  <2>1. Tagging!At(s, "index", "commit") /\ Tagging!Ends(s) /\ UNCHANGED photoFile
    BY DEF Tagging!IndexCommit
  <2>2. QED
    BY <2>1 DEF Tagging!At, Tagging!Idle
<1>2. /\ editor[s] \in Tagging!Busy /\ p \in TaggedPhotos /\ now \in Tagging!Row
         /\ photoFile[p] \in Tagging!File
      /\ loaded \in Tagging!Row /\ w \in Tagging!Version /\ tags \in Tagging!Tags
  BY <1>1, SessionFacts
<1>3. CASE refused
  <2>1. UNCHANGED <<photoFile, photoRow, stale>>
    BY <1>3 DEF Tagging!IndexCommit
  <2>2. QED
    BY <1>1, <2>1, EndStep
<1>4. CASE ~refused
  <2>1. /\ photoRow' = [photoRow EXCEPT ![p].taken = taken, ![p].turn = turn, ![p].loc = loc, ![p].pending = FALSE]
        /\ Tagging!Marks(p, what)
    BY <1>4 DEF Tagging!IndexCommit
  <2>2. taken \in Times \cup {Tagging!None} /\ turn \in 0..3
    BY <1>2 DEF Tagging!Put, Tagging!Row, Tagging!Tags
  <2>3. now.loc \in Tagging!Loc \cup {Tagging!NoLoc} /\ loaded.loc \in Tagging!Loc \cup {Tagging!NoLoc}
        /\ tags.gps \in Coordinates \cup {Tagging!None}
    BY <1>2 DEF Tagging!Row, Tagging!Tags
  <2>4. loc \in Tagging!Loc \cup {Tagging!NoLoc}
    <3>1. CASE tags.gps = Tagging!None
      BY <2>3, <3>1 DEF Tagging!Extracted
    <3>2. CASE tags.gps # Tagging!None /\ now.loc # Tagging!NoLoc
      <4>1. now.loc \in Tagging!Loc /\ now.loc.at \in Coordinates \cup {Tagging!Guess}
            /\ now.loc.source \in {"exif", "null", "estimated"}
        BY <2>3, <3>2 DEF Tagging!Loc
      <4>2. QED
        BY <2>3, <3>2, <4>1 DEF Tagging!Extracted, Tagging!Loc
    <3>3. CASE tags.gps # Tagging!None /\ now.loc = Tagging!NoLoc /\ loaded.loc = Tagging!NoLoc
      <4>1. loc = [at |-> tags.gps, source |-> "exif"]
        BY <3>3 DEF Tagging!Extracted
      <4>2. QED
        BY <2>3, <3>3, <4>1 DEF Tagging!Loc
    <3>4. CASE tags.gps # Tagging!None /\ now.loc = Tagging!NoLoc /\ loaded.loc # Tagging!NoLoc
      <4>1. loaded.loc = [at |-> tags.gps, source |-> "exif"]
        BY <1>4, <3>4 DEF Tagging!Clash
      <4>2. loc = [at |-> now.loc.at, source |-> now.loc.source]
        BY <3>4, <4>1 DEF Tagging!Extracted
      <4>3. QED
        BY <3>4, <4>2 DEF Tagging!NoLoc
    <3>5. QED
      BY <3>1, <3>2, <3>3, <3>4
  <2>5. what \in SUBSET {"tags", "loc"}
    OBVIOUS
  <2>6. what = {"tags", "loc"} \/
          (/\ ~(now.sig > w) /\ now.taken = loaded.taken /\ now.turn = loaded.turn /\ now.loc = loaded.loc)
    OBVIOUS
  <2>7. now.taken = loaded.taken => (tags.taken # Tagging!None => taken = tags.taken)
    BY DEF Tagging!Put
  <2>8. now.turn = loaded.turn => turn = tags.turn
    BY DEF Tagging!Put
  <2>9. now.loc = loaded.loc => (tags.gps # Tagging!None => loc.at = tags.gps)
    BY DEF Tagging!Extracted
  <2>10. now.loc = loaded.loc => loc = now.loc \/ loc.source # "estimated"
    BY DEF Tagging!Extracted
  <2> HIDE DEF taken, turn, loc, what, read
  <2>11. r \in Tagging!Row /\ photoRow' = [photoRow EXCEPT ![p] = r]
    BY <1>2, <2>1, <2>2, <2>4 DEF Tagging!Row
  <2>12. r.sig = now.sig /\ r.taken = taken /\ r.turn = turn /\ r.loc = loc /\ ~r.pending
    BY <1>2 DEF Tagging!Row
  <2> HIDE DEF r
  <2>13. now.sig \in Nat /\ w \in Nat /\ v \in Nat
    BY <1>2 DEF Tagging!Row, Tagging!File, Tagging!Version
  <2>14. ASSUME NEW H \in Histories, Known(p, H)
         PROVE  RowFits(r, stale[p] \cup what, v, H)
    <3>1. /\ now.sig <= v
          /\ now.loc.source = "estimated" => "loc" \in stale[p] \/ now.loc.at = Tagging!Guess
      BY <2>14 DEF Known, RowFits
    <3>2. w <= v /\ tags = H[w]
      BY <1>1, <2>14 DEF Known, AtWork
    <3>3. CASE what = {"tags", "loc"}
      BY <2>12, <3>1, <3>3 DEF RowFits
    <3>4. CASE ~(now.sig > w) /\ now.taken = loaded.taken /\ now.turn = loaded.turn /\ now.loc = loaded.loc
      <4>1. w \in now.sig..v
        BY <2>13, <3>2, <3>4
      <4>2. Shows(H[w], r)
        BY <2>7, <2>8, <2>12, <3>2, <3>4 DEF Shows
      <4>3. Placed(H[w], r)
        BY <2>9, <2>12, <3>2, <3>4 DEF Placed
      <4>4. r.loc.source = "estimated" => "loc" \in stale[p] \/ r.loc.at = Tagging!Guess
        BY <2>10, <2>12, <3>1, <3>4
      <4>5. QED
        BY <2>12, <3>1, <4>1, <4>2, <4>3, <4>4 DEF RowFits
    <3>5. QED
      BY <2>6, <3>3, <3>4
  <2>15. QED
    BY <1>1, <2>1, <2>5, <2>11, <2>14, CommitsRow
<1>5. QED
  BY <1>3, <1>4

\* A guess and no location at all are places for a file that names none.
LEMMA FitsGuess ==
  ASSUME Tagging!MetadataConstants, NEW r \in Tagging!Row, NEW q \in Tagging!Row, NEW l, NEW m, NEW v,
         NEW H \in Histories,
         v \in Tagging!Version, RowFits(r, l, v, H), l \subseteq m,
         q.sig = r.sig, q.pending = r.pending, q.turn = r.turn, q.taken = r.taken,
         q.loc.source = "estimated" => q.loc.at = Tagging!Guess,
         "loc" \in m \/ r.loc.at \in {Tagging!Guess, Tagging!None}
  PROVE  RowFits(q, m, v, H)
<1>1. ASSUME NEW w \in r.sig..v, r.loc.at \in {Tagging!Guess, Tagging!None}, Placed(H[w], r)
      PROVE  Placed(H[w], q)
  <2>1. w \in Tagging!Version
    <3>1. r.sig \in 0..MaxVersion /\ v \in 0..MaxVersion /\ MaxVersion \in Nat
      BY DEF Tagging!Row, Tagging!Version, Tagging!MetadataConstants
    <3>2. QED
      BY <3>1 DEF Tagging!Version
  <2>2. H[w].gps \in Coordinates \cup {Tagging!None}
    BY <2>1 DEF Histories, Tagging!Tags
  <2>3. H[w].gps = Tagging!None
    BY <1>1, <2>2 DEF Tagging!MetadataConstants, Placed
  <2>4. QED
    BY <2>3 DEF Placed
<1>2. \A w : Shows(H[w], r) => Shows(H[w], q)
  BY DEF Shows
<1>3. QED
  BY <1>1, <1>2 DEF RowFits

LEMMA EstimateStep ==
  ASSUME Tagging!MetadataConstants, MetaInv, NEW s \in Editors, Tagging!EstimateCommit(s)
  PROVE  MetaInv'
<1> DEFINE p == editor[s].photo
           loaded == editor[s].seen.loc
           loc == IF loaded = Tagging!NoLoc THEN [at |-> Tagging!Guess, source |-> "estimated"]
                  ELSE [photoRow[p].loc EXCEPT !.at = Tagging!Guess]
           what == IF photoRow[p].loc = loaded THEN {} ELSE {"loc"}
           r == [photoRow[p] EXCEPT !.loc = loc]
<1>1. editor[s] # Tagging!Idle /\ Tagging!Ends(s) /\ UNCHANGED photoFile
  BY DEF Tagging!EstimateCommit, Tagging!At, Tagging!Idle
<1>2. p \in TaggedPhotos /\ photoRow[p] \in Tagging!Row /\ photoFile[p] \in Tagging!File
  BY <1>1, SessionFacts
<1>3. CASE ~Tagging!Estimable(loaded) \/ Tagging!Clash(s)
  <2>1. UNCHANGED <<photoFile, photoRow, stale>>
    BY <1>3 DEF Tagging!EstimateCommit
  <2>2. QED
    BY <1>1, <2>1, EndStep
<1>4. CASE ~(~Tagging!Estimable(loaded) \/ Tagging!Clash(s))
  <2>1. photoRow' = [photoRow EXCEPT ![p].loc = loc] /\ Tagging!Marks(p, what)
    BY <1>4 DEF Tagging!EstimateCommit
  <2>2. photoRow[p].loc \in Tagging!Loc \cup {Tagging!NoLoc}
    BY <1>2 DEF Tagging!Row
  <2>3. loc \in Tagging!Loc /\ loc.at = Tagging!Guess
    <3>1. CASE loaded = Tagging!NoLoc
      BY <3>1 DEF Tagging!Loc
    <3>2. CASE loaded # Tagging!NoLoc
      <4>1. photoRow[p].loc \in Tagging!Loc
        BY <1>4, <2>2, <3>2 DEF Tagging!Clash
      <4>2. QED
        BY <3>2, <4>1 DEF Tagging!Loc
    <3>3. QED
      BY <3>1, <3>2
  <2>4. "loc" \in what \/ photoRow[p].loc = Tagging!NoLoc \/ photoRow[p].loc.source = "estimated"
    BY <1>4 DEF Tagging!Estimable
  <2>5. what \in SUBSET {"tags", "loc"}
    OBVIOUS
  <2> HIDE DEF loc, what
  <2>6. r \in Tagging!Row /\ photoRow' = [photoRow EXCEPT ![p] = r]
    BY <1>2, <2>1, <2>3 DEF Tagging!Row
  <2>7. r.loc = loc /\ r.sig = photoRow[p].sig /\ r.pending = photoRow[p].pending /\ r.turn = photoRow[p].turn
        /\ r.taken = photoRow[p].taken
    BY <1>2 DEF Tagging!Row
  <2> HIDE DEF r
  <2>8. ASSUME NEW H \in Histories, Known(p, H)
        PROVE  RowFits(r, stale[p] \cup what, photoFile[p].version, H)
    <3>1. RowFits(photoRow[p], stale[p], photoFile[p].version, H) /\ photoFile[p].version \in Tagging!Version
      BY <1>2, <2>8 DEF Known, Tagging!File
    <3>2. "loc" \in stale[p] \cup what \/ photoRow[p].loc.at \in {Tagging!Guess, Tagging!None}
      BY <2>4, <3>1 DEF RowFits, Tagging!NoLoc
    <3>3. stale[p] \subseteq stale[p] \cup what
      OBVIOUS
    <3>4. QED
      BY <1>2, <2>3, <2>6, <2>7, <3>1, <3>2, <3>3, FitsGuess
  <2>9. QED
    BY <1>1, <2>1, <2>5, <2>6, <2>8, CommitsRow
<1>5. QED
  BY <1>3, <1>4

LEMMA RejectStep ==
  ASSUME Tagging!MetadataConstants, MetaInv, NEW p \in TaggedPhotos, Tagging!Reject(p)
  PROVE  MetaInv'
<1> DEFINE r == [photoRow[p] EXCEPT !.loc = Tagging!NoLoc]
<1>1. photoRow[p] \in Tagging!Row /\ photoFile[p] \in Tagging!File
      /\ photoRow \in [TaggedPhotos -> Tagging!Row]
  BY DEF MetaInv, Tagging!TypeOK
<1>2. r \in Tagging!Row /\ photoRow' = [photoRow EXCEPT ![p] = r] /\ UNCHANGED <<photoFile, editor, stale>>
  BY <1>1 DEF Tagging!Reject, Tagging!Row
<1>3. r.loc = Tagging!NoLoc /\ r.sig = photoRow[p].sig /\ r.pending = photoRow[p].pending
      /\ r.turn = photoRow[p].turn
      /\ r.taken = photoRow[p].taken
  BY <1>1 DEF Tagging!Row
<1> HIDE DEF r
<1>4. photoRow' \in [TaggedPhotos -> Tagging!Row] /\ photoRow'[p] = r
      /\ \A o \in TaggedPhotos \ {p} : photoRow'[o] = photoRow[o]
  BY <1>1, <1>2
<1>5. ASSUME NEW H \in Histories, Known(p, H) PROVE RowFits(photoRow'[p], stale'[p], photoFile[p].version, H)
  <2>1. RowFits(photoRow[p], stale[p], photoFile[p].version, H) /\ photoFile[p].version \in Tagging!Version
    BY <1>1, <1>5 DEF Known, Tagging!File
  <2>2. "loc" \in stale[p] \/ photoRow[p].loc.at \in {Tagging!Guess, Tagging!None}
    BY <2>1 DEF RowFits, Tagging!Reject
  <2>3. r.loc.source = "estimated" => r.loc.at = Tagging!Guess
    BY <1>3 DEF Tagging!NoLoc, Tagging!None
  <2>4. RowFits(r, stale[p], photoFile[p].version, H)
    BY <1>1, <1>2, <1>3, <2>1, <2>2, <2>3, FitsGuess
  <2>5. QED
    BY <1>2, <1>4, <2>4
<1>6. /\ stale' \in [TaggedPhotos -> SUBSET {"tags", "loc"}]
         /\ \A o \in TaggedPhotos \ {p} : stale'[o] = stale[o]
      /\ editor' \in [Editors -> Tagging!Busy \cup {Tagging!Idle}]
      /\ \A u \in Editors : editor'[u] \in {editor[u], Tagging!Idle}
  BY <1>2 DEF MetaInv, Tagging!TypeOK
<1>7. QED
  BY <1>2, <1>4, <1>5, <1>6, RowStep

LEMMA MetaInit ==
  ASSUME Tagging!MetadataConstants, Tagging!Init
  PROVE  MetaInv
<1>1. PICK place \in Coordinates \cup {Tagging!None}, t \in Times :
        photoFile = [p \in TaggedPhotos |-> [version |-> 0, tags |-> [gps |-> place, taken |-> t, turn |-> 0]]]
  BY DEF Tagging!Init
<1> DEFINE tags == [gps |-> place, taken |-> t, turn |-> 0]
           r == [sig |-> 0, pending |-> TRUE, taken |-> Tagging!None, original |-> Tagging!None, turn |-> 0, loc |-> Tagging!NoLoc]
<1>2. 0 \in Tagging!Version /\ 0 \in 0..3
  BY DEF Tagging!Version, Tagging!MetadataConstants
<1>3. tags \in Tagging!Tags
  BY <1>2 DEF Tagging!Tags
<1>4. r \in Tagging!Row
  BY <1>2 DEF Tagging!Row
<1>5. Tagging!TypeOK
  <2>1. photoFile \in [TaggedPhotos -> Tagging!File]
    BY <1>1, <1>2, <1>3 DEF Tagging!File
  <2>2. photoRow \in [TaggedPhotos -> Tagging!Row]
    BY <1>4 DEF Tagging!Init
  <2>3. editor \in [Editors -> Tagging!Busy \cup {Tagging!Idle}]
        /\ stale \in [TaggedPhotos -> SUBSET {"tags", "loc"}]
    BY DEF Tagging!Init
  <2>4. QED
    BY <2>1, <2>2, <2>3 DEF Tagging!TypeOK
<1>6. Wants
  BY DEF Tagging!Init, Wants
<1>7. ASSUME NEW p \in TaggedPhotos PROVE \E H \in Histories : Known(p, H)
  <2> DEFINE H == [w \in Tagging!Version |-> tags]
  <2>1. H \in Histories /\ H[0] = tags
    BY <1>2, <1>3 DEF Histories
  <2>2. photoFile[p].version = 0 /\ photoFile[p].tags = tags
    BY <1>1
  <2>3. photoRow[p].sig = 0 /\ photoRow[p].pending /\ photoRow[p].loc.source = Tagging!None
    BY DEF Tagging!Init, Tagging!NoLoc
  <2>4. RowFits(photoRow[p], stale[p], 0, H)
    BY <2>3 DEF RowFits, Tagging!None
  <2>5. \A s \in Editors : editor[s] = Tagging!Idle
    BY DEF Tagging!Init
  <2>6. Known(p, H)
    BY <2>1, <2>2, <2>4, <2>5 DEF Known, AtWork
  <2>7. QED
    BY <2>1, <2>6
<1>8. QED
  BY <1>5, <1>6, <1>7 DEF MetaInv

LEMMA MetaNext ==
  ASSUME Tagging!MetadataConstants, MetaInv, Tagging!Next
  PROVE  MetaInv'
<1>1. ASSUME NEW s \in Editors, Tagging!Work(s) PROVE MetaInv'
  <2>1. CASE Tagging!EditFile(s)
    BY <2>1, EditStep
  <2>2. CASE Tagging!GpsCommit(s)
    BY <2>2, GpsStep
  <2>3. CASE Tagging!TakenCommit(s)
    BY <2>3, TakenStep
  <2>4. CASE Tagging!RotateCommit(s)
    BY <2>4, RotateStep
  <2>5. CASE Tagging!ScanCommit(s)
    BY <2>5, ScanStep
  <2>6. CASE Tagging!IndexExtract(s)
    BY <2>6, ExtractStep
  <2>7. CASE Tagging!IndexUnread(s)
    BY <2>7, UnreadStep
  <2>8. CASE Tagging!IndexCommit(s)
    BY <2>8, IndexStep
  <2>9. CASE Tagging!EstimateCommit(s)
    BY <2>9, EstimateStep
  <2>10. CASE Tagging!Fails(s)
    BY <2>10, EndStep DEF Tagging!Fails
  <2>11. QED
    BY <1>1, <2>1, <2>2, <2>3, <2>4, <2>5, <2>6, <2>7, <2>8, <2>9, <2>10 DEF Tagging!Work
<1>2. ASSUME NEW s \in Editors, NEW p \in TaggedPhotos, Tagging!Ask(s, p) PROVE MetaInv'
  BY <1>2, AskStep
<1>3. ASSUME NEW p \in TaggedPhotos, Tagging!Reject(p) PROVE MetaInv'
  BY <1>3, RejectStep
<1>4. ASSUME NEW p \in TaggedPhotos, NEW tags \in Tagging!Rewrites(photoFile[p].tags), Tagging!Outside(p, tags)
      PROVE  MetaInv'
  BY <1>4, OutsideStep
<1>5. QED
  BY <1>1, <1>2, <1>3, <1>4 DEF Tagging!Next

LEMMA MetaStep ==
  ASSUME Tagging!MetadataConstants, MetaInv, [Tagging!Next]_(Tagging!vars)
  PROVE  MetaInv'
<1>1. CASE Tagging!Next
  BY <1>1, MetaNext
<1>2. CASE UNCHANGED Tagging!vars
  <2>1. UNCHANGED <<photoFile, photoRow, editor, stale>>
    BY <1>2 DEF Tagging!vars
  <2>2. \A p \in TaggedPhotos, H \in Histories : Known(p, H)' <=> Known(p, H)
    BY <2>1 DEF Known
  <2>3. Tagging!TypeOK' /\ Wants'
    BY <2>1 DEF MetaInv, Tagging!TypeOK, Wants
  <2>4. QED
    BY <2>2, <2>3 DEF MetaInv
<1>3. QED
  BY <1>1, <1>2

LEMMA MetaAgrees ==
  ASSUME MetaInv
  PROVE  Tagging!TagsAgree
<1>1. ASSUME NEW p \in TaggedPhotos, Tagging!Settled(p)
      PROVE  LET tags == photoFile[p].tags IN
               /\ "tags" \notin stale[p] =>
                    photoRow[p].turn = tags.turn /\ (tags.taken # Tagging!None => photoRow[p].taken = tags.taken)
               /\ "loc" \notin stale[p] /\ tags.gps # Tagging!None => photoRow[p].loc.at = tags.gps
  <2>1. PICK H \in Histories : Known(p, H)
    BY DEF MetaInv
  <2>2. photoRow[p].sig = photoFile[p].version /\ ~photoRow[p].pending /\ photoFile[p].version \in Nat
    BY <1>1 DEF Tagging!Settled, MetaInv, Tagging!TypeOK, Tagging!File, Tagging!Version
  <2>3. \A w \in photoRow[p].sig..photoFile[p].version : w = photoFile[p].version
    BY <2>2
  <2>4. /\ "tags" \in stale[p] \/ Shows(photoFile[p].tags, photoRow[p])
        /\ "loc" \in stale[p] \/ Placed(photoFile[p].tags, photoRow[p])
    BY <2>1, <2>2, <2>3 DEF Known, RowFits
  <2>5. QED
    BY <2>4 DEF Shows, Placed
<1>2. QED
  BY <1>1 DEF Tagging!TagsAgree

-------------------------------------------------------------------------------
(***************************************************************************)
(* Guesses.                                                                *)
(***************************************************************************)
Yields(p) ==
  photoRow[p].loc.at \in Coordinates /\ photoRow'[p].loc.at = Tagging!Guess =>
    photoRow[p].loc.source = "estimated" \/ "loc" \in stale'[p]

LEMMA GpsYields ==
  ASSUME Tagging!MetadataConstants, MetaInv, NEW s \in Editors, Tagging!GpsCommit(s)
  PROVE  Yields(editor[s].photo)
<1> DEFINE p == editor[s].photo
           loaded == editor[s].seen.loc
           place == editor[s].want
           new == IF loaded = Tagging!NoLoc THEN [at |-> place, source |-> "null"] ELSE [loaded EXCEPT !.at = place]
           loc == CASE place = Tagging!None -> IF loaded = Tagging!NoLoc THEN photoRow[p].loc ELSE Tagging!NoLoc
                    [] place # Tagging!None /\ loaded = Tagging!NoLoc -> new
                    [] place # Tagging!None /\ loaded # Tagging!NoLoc -> [photoRow[p].loc EXCEPT !.at = Tagging!Put(@, loaded.at, place)]
<1>1. editor[s].op = "gps" /\ editor[s] # Tagging!Idle
  <2>1. Tagging!At(s, "gps", "commit")
    BY DEF Tagging!GpsCommit
  <2>2. QED
    BY <2>1 DEF Tagging!At, Tagging!Idle
<1>2. p \in TaggedPhotos /\ photoRow[p] \in Tagging!Row /\ place \in Coordinates \cup {Tagging!None}
      /\ photoRow \in [TaggedPhotos -> Tagging!Row]
  BY <1>1, SessionFacts DEF MetaInv, Wants, Tagging!TypeOK
<1>3. photoRow[p].loc \in Tagging!Loc \cup {Tagging!NoLoc}
  BY <1>2 DEF Tagging!Row
<1>4. photoRow' = photoRow \/ photoRow'[p].loc = loc
  <2>1. photoRow' = photoRow \/ photoRow' = [photoRow EXCEPT ![p].loc = loc, ![p].sig = Tagging!RefreshedSignature(p)]
    BY DEF Tagging!GpsCommit
  <2>2. QED
    BY <1>2, <2>1 DEF Tagging!Row
<1>5. ASSUME photoRow[p].loc.at \in Coordinates PROVE loc.at # Tagging!Guess
  <2>1. photoRow[p].loc \in Tagging!Loc
    BY <1>3, <1>5 DEF Tagging!MetadataConstants, Tagging!NoLoc
  <2>2. CASE place = Tagging!None
    BY <1>5, <2>2 DEF Tagging!MetadataConstants, Tagging!NoLoc, Tagging!None, Tagging!Guess
  <2>3. CASE place # Tagging!None /\ loaded = Tagging!NoLoc
    BY <1>2, <2>3 DEF Tagging!MetadataConstants
  <2>4. CASE place # Tagging!None /\ loaded # Tagging!NoLoc
    <3>1. loc = [photoRow[p].loc EXCEPT !.at = Tagging!Put(@, loaded.at, place)]
      BY <2>4
    <3>2. loc.at \in {photoRow[p].loc.at, place}
      BY <2>1, <3>1 DEF Tagging!Loc, Tagging!Put
    <3>3. QED
      BY <1>2, <1>5, <2>4, <3>2 DEF Tagging!MetadataConstants
  <2>5. QED
    BY <2>2, <2>3, <2>4
<1> HIDE DEF loc
<1>6. QED
  BY <1>4, <1>5 DEF Yields, Tagging!MetadataConstants

LEMMA IndexYields ==
  ASSUME Tagging!MetadataConstants, MetaInv, NEW s \in Editors, Tagging!IndexCommit(s)
  PROVE  Yields(editor[s].photo)
<1> DEFINE p == editor[s].photo
           tags == editor[s].tags
           loc == Tagging!Extracted(tags, editor[s].seen.loc, photoRow[p].loc)
           loaded == editor[s].seen
           taken == Tagging!Put(photoRow[p].taken, loaded.taken, IF tags.taken = Tagging!None THEN loaded.taken ELSE tags.taken)
           turn == Tagging!Put(photoRow[p].turn, loaded.turn, tags.turn)
<1>1. editor[s] # Tagging!Idle
  <2>1. Tagging!At(s, "index", "commit")
    BY DEF Tagging!IndexCommit
  <2>2. QED
    BY <2>1 DEF Tagging!At, Tagging!Idle
<1>2. p \in TaggedPhotos /\ photoRow[p] \in Tagging!Row /\ tags.gps \in Coordinates \cup {Tagging!None}
      /\ photoRow \in [TaggedPhotos -> Tagging!Row]
  BY <1>1, SessionFacts DEF MetaInv, Tagging!TypeOK, Tagging!Tags
<1>3. photoRow' = photoRow \/ photoRow'[p].loc = loc
  <2>1. photoRow' = photoRow \/ photoRow' = [photoRow EXCEPT ![p].taken = taken, ![p].turn = turn,
                                                            ![p].loc = loc, ![p].pending = FALSE]
    BY DEF Tagging!IndexCommit
  <2> HIDE DEF loc, taken, turn
  <2>2. QED
    BY <1>2, <2>1 DEF Tagging!Row
<1>4. loc.at = photoRow[p].loc.at \/ loc.at \in Coordinates
  BY <1>2 DEF Tagging!Extracted
<1> HIDE DEF loc
<1>5. QED
  BY <1>3, <1>4 DEF Yields, Tagging!MetadataConstants

LEMMA EstimateYields ==
  ASSUME Tagging!MetadataConstants, MetaInv, NEW s \in Editors, Tagging!EstimateCommit(s)
  PROVE  Yields(editor[s].photo)
<1> DEFINE p == editor[s].photo
           loaded == editor[s].seen.loc
<1>1. editor[s] # Tagging!Idle
  BY DEF Tagging!EstimateCommit, Tagging!At, Tagging!Idle
<1>2. p \in TaggedPhotos
  BY <1>1, SessionFacts
<1>3. CASE ~Tagging!Estimable(loaded) \/ Tagging!Clash(s)
  BY <1>3 DEF Tagging!EstimateCommit, Yields, Tagging!MetadataConstants
<1>4. CASE ~(~Tagging!Estimable(loaded) \/ Tagging!Clash(s))
  <2>1. Tagging!Marks(p, IF photoRow[p].loc = loaded THEN {} ELSE {"loc"})
    BY <1>4 DEF Tagging!EstimateCommit
  <2>2. CASE photoRow[p].loc = loaded
    BY <1>4, <2>2 DEF Tagging!Estimable, Yields, Tagging!MetadataConstants, Tagging!NoLoc
  <2>3. CASE photoRow[p].loc # loaded
    BY <1>2, <2>1, <2>3, MarkFacts DEF Yields
  <2>4. QED
    BY <2>2, <2>3
<1>5. QED
  BY <1>3, <1>4

\* A step that leaves a row's location alone, or takes it away, makes no guess.
LEMMA KeepsYields ==
  ASSUME Tagging!MetadataConstants, NEW p \in TaggedPhotos,
         photoRow'[p].loc \in {photoRow[p].loc, Tagging!NoLoc}
  PROVE  Yields(p)
  BY DEF Tagging!MetadataConstants, Yields, Tagging!NoLoc, Tagging!None, Tagging!Guess

LEMMA StepYields ==
  ASSUME Tagging!MetadataConstants, MetaInv, [Tagging!Next]_(Tagging!vars), NEW p \in TaggedPhotos
  PROVE  Yields(p)
<1> DEFINE Same(o) == photoRow'[o].loc \in {photoRow[o].loc, Tagging!NoLoc}
<1>1. photoRow \in [TaggedPhotos -> Tagging!Row]
  BY DEF MetaInv, Tagging!TypeOK
<1>2. ASSUME photoRow' = photoRow PROVE Yields(p)
  BY <1>2, KeepsYields
<1>3. ASSUME NEW s \in Editors, Tagging!Work(s) PROVE Yields(p)
  <2> DEFINE o == editor[s].photo
  <2>1. ASSUME editor[s] # Tagging!Idle, p # o, NEW r, photoRow' = [photoRow EXCEPT ![o] = r] PROVE Yields(p)
    <3>1. photoRow'[p] = photoRow[p]
      BY <1>1, <2>1
    <3>2. QED
      BY <3>1, KeepsYields
  <2>2. CASE Tagging!GpsCommit(s)
    <3>1. photoRow' = photoRow \/ \E r : photoRow' = [photoRow EXCEPT ![o] = r]
      BY <2>2 DEF Tagging!GpsCommit
    <3>2. editor[s] # Tagging!Idle
      BY <2>2 DEF Tagging!GpsCommit, Tagging!At, Tagging!Idle
    <3>3. QED
      BY <1>2, <2>1, <2>2, <3>1, <3>2, GpsYields
  <2>3. CASE Tagging!IndexCommit(s)
    <3>1. photoRow' = photoRow \/ \E r : photoRow' = [photoRow EXCEPT ![o] = r]
      BY <2>3 DEF Tagging!IndexCommit
    <3>2. editor[s] # Tagging!Idle
      <4>1. Tagging!At(s, "index", "commit")
        BY <2>3 DEF Tagging!IndexCommit
      <4>2. QED
        BY <4>1 DEF Tagging!At, Tagging!Idle
    <3>3. QED
      BY <1>2, <2>1, <2>3, <3>1, <3>2, IndexYields
  <2>4. CASE Tagging!EstimateCommit(s)
    <3>1. photoRow' = photoRow \/ \E r : photoRow' = [photoRow EXCEPT ![o] = r]
      BY <2>4 DEF Tagging!EstimateCommit
    <3>2. editor[s] # Tagging!Idle
      BY <2>4 DEF Tagging!EstimateCommit, Tagging!At, Tagging!Idle
    <3>3. QED
      BY <1>2, <2>1, <2>4, <3>1, <3>2, EstimateYields
  <2>5. CASE Tagging!TakenCommit(s)
    <3>1. photoRow'[p].loc = photoRow[p].loc
      BY <1>1, <2>5 DEF Tagging!TakenCommit, Tagging!Row
    <3>2. QED
      BY <3>1, KeepsYields
  <2>6. CASE Tagging!RotateCommit(s)
    <3>1. photoRow'[p].loc = photoRow[p].loc
      BY <1>1, <2>6 DEF Tagging!RotateCommit, Tagging!Row
    <3>2. QED
      BY <3>1, KeepsYields
  <2>7. CASE Tagging!ScanCommit(s)
    <3>1. photoRow'[p].loc = photoRow[p].loc
      BY <1>1, <2>7 DEF Tagging!ScanCommit, Tagging!Row
    <3>2. QED
      BY <3>1, KeepsYields
  <2>8. CASE Tagging!IndexUnread(s)
    <3>1. photoRow'[p].loc = photoRow[p].loc
      BY <1>1, <2>8 DEF Tagging!IndexUnread, Tagging!Row
    <3>2. QED
      BY <3>1, KeepsYields
  <2>9. CASE Tagging!EditFile(s) \/ Tagging!IndexExtract(s) \/ Tagging!Fails(s)
    BY <1>2, <2>9 DEF Tagging!EditFile, Tagging!IndexExtract, Tagging!Fails
  <2>10. QED
    BY <1>3, <2>2, <2>3, <2>4, <2>5, <2>6, <2>7, <2>8, <2>9 DEF Tagging!Work
<1>4. ASSUME NEW s \in Editors, NEW o \in TaggedPhotos, Tagging!Ask(s, o) PROVE photoRow' = photoRow
  BY <1>4 DEF Tagging!Ask, Tagging!GpsBegin, Tagging!TakenBegin, Tagging!RotateBegin,
     Tagging!ScanBegin, Tagging!IndexBegin, Tagging!EstimateBegin, Tagging!Begin
<1>5. ASSUME NEW o \in TaggedPhotos, Tagging!Reject(o) PROVE Yields(p)
  <2>1. photoRow'[p].loc \in {photoRow[p].loc, Tagging!NoLoc}
    BY <1>1, <1>5 DEF Tagging!Reject, Tagging!Row
  <2>2. QED
    BY <2>1, KeepsYields
<1>6. ASSUME NEW o \in TaggedPhotos, NEW tags, Tagging!Outside(o, tags) PROVE photoRow' = photoRow
  BY <1>6 DEF Tagging!Outside
<1>7. CASE UNCHANGED Tagging!vars
  BY <1>2, <1>7 DEF Tagging!vars
<1>8. QED
  BY <1>2, <1>3, <1>4, <1>5, <1>6, <1>7 DEF Tagging!Next

\* What the sessions have read is in the files' history, and what the rows show is too:
\* type correctness and MetaInv, for any photos, sessions and versions.
THEOREM TagsKeep ==
  ASSUME Tagging!MetadataConstants
  PROVE  Tagging!Spec => []MetaInv
<1>1. Tagging!Init => MetaInv
  BY MetaInit
<1>2. MetaInv /\ [Tagging!Next]_(Tagging!vars) => MetaInv'
  BY MetaStep
<1>3. QED
  BY <1>1, <1>2, PTL DEF Tagging!Spec

\* The row of a settled photo shows what its file says.
THEOREM TagsRight ==
  ASSUME Tagging!MetadataConstants
  PROVE  Tagging!Spec => []Tagging!TagsAgree
<1>1. MetaInv => Tagging!TagsAgree
  BY MetaAgrees
<1>2. QED
  BY <1>1, TagsKeep, PTL

\* A place that is known never becomes a guess.
THEOREM PlacesStay ==
  ASSUME Tagging!MetadataConstants
  PROVE  Tagging!Spec => Tagging!GuessesYield
<1>1. MetaInv /\ [Tagging!Next]_(Tagging!vars) =>
        [\A p \in TaggedPhotos :
           photoRow[p].loc.at \in Coordinates /\ photoRow'[p].loc.at = Tagging!Guess =>
             photoRow[p].loc.source = "estimated" \/ "loc" \in stale'[p]]_(Tagging!vars)
  BY StepYields DEF Yields
<1>2. QED
  BY <1>1, TagsKeep, PTL DEF Tagging!Spec, Tagging!GuessesYield
===============================================================================
