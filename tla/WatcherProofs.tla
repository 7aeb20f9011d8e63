----------------------------- MODULE WatcherProofs -----------------------------
(***************************************************************************)
(* Proofs about Watcher for every set of roots and every bound: scans do   *)
(* not pile up, and a change is forgotten only where a mark was dropped.   *)
(***************************************************************************)
EXTENDS Watcher, TLAPS

USE DEF Live, Slots

-------------------------------------------------------------------------------
(***************************************************************************)
(* The inductive invariant.  A dispatcher about to insert has seen no scan *)
(* and since then only the tick and the administrator can have added one;  *)
(* between its rounds nothing is drained.                                  *)
(***************************************************************************)
Scan == [status : {"none", "queued", "running"}, root : Roots \cup {"none"},
         by : {"none", "watcher", "tick", "admin"}, clean : BOOLEAN]

InsertsIntoIdle ==
  round.pc = "insert" => \A n \in Slots : Live(n) => scans[n].by # "watcher"

NothingHeldOver == round.pc = "wait" => round.todo = {}

WInv == TypeOK /\ InsertsIntoIdle /\ NothingHeldOver /\ ScansNeverStack /\ OnlyDropsForget

\* The same, part by part: the scans, and what the watcher and history keep.
ScansOK ==
  /\ scans \in [Slots -> Scan]
  /\ \A n \in Slots : Live(n) => scans[n].root \in Roots

RestOK ==
  /\ up \in BOOLEAN
  /\ last \in [Roots -> {"none", "fresh", "quiet"}]
  /\ inflight \subseteq Roots
  /\ round \in [pc : {"wait", "select", "insert"}, todo : SUBSET Roots]
  /\ round.pc = "insert" => round.todo # {}
  /\ due \subseteq Roots
  /\ stale \subseteq Roots /\ dropped \subseteq stale
  /\ left \in [events : 0..MaxEvents, upsets : 0..MaxUpsets]

LEMMA TypeParts == TypeOK <=> ScansOK /\ RestOK
  BY DEF TypeOK, ScansOK, RestOK, Scan

LEMMA Members ==
  /\ NoScan \in Scan /\ NoScan.status = "none"
  /\ Waiting \in [pc : {"wait", "select", "insert"}, todo : SUBSET Roots]
  /\ Waiting.pc = "wait" /\ Waiting.todo = {}
  BY DEF NoScan, Scan, Waiting

LEMMA Spent ==
  ASSUME RestOK, NEW what \in {"events", "upsets"}, Spend(what)
  PROVE  left' \in [events : 0..MaxEvents, upsets : 0..MaxUpsets]
  BY WatcherAssumption DEF RestOK, Spend

(***************************************************************************)
(* What a change to the table of scans keeps, whoever makes it.            *)
(***************************************************************************)
LEMMA EnqueuedScans ==
  ASSUME WInv, NEW r \in Roots, NEW by \in {"watcher", "tick", "admin"}, Enqueue(r, by)
  PROVE  \E n \in Slots :
           /\ ~Live(n)
           /\ scans' = [scans EXCEPT ![n] = [status |-> "queued", root |-> r, by |-> by,
                                             clean |-> FALSE]]
           /\ scans'[n] = [status |-> "queued", root |-> r, by |-> by, clean |-> FALSE]
           /\ \A k \in Slots : k # n => scans'[k] = scans[k]
           /\ ScansOK'
<1>1. ScansOK
  BY TypeParts DEF WInv
<1>2. PICK n \in Slots :
        /\ ~Live(n)
        /\ scans' = [scans EXCEPT ![n] = [status |-> "queued", root |-> r, by |-> by,
                                          clean |-> FALSE]]
  BY DEF Enqueue
<1> DEFINE new == [status |-> "queued", root |-> r, by |-> by, clean |-> FALSE]
<1>3. new \in Scan /\ new.root \in Roots
  BY DEF Scan
<1>4. scans'[n] = new /\ \A k \in Slots : k # n => scans'[k] = scans[k]
  BY <1>1, <1>2 DEF ScansOK
<1>5. scans' \in [Slots -> Scan]
  BY <1>1, <1>2, <1>3 DEF ScansOK
<1>6. ScansOK'
  BY <1>1, <1>3, <1>4, <1>5 DEF ScansOK
<1>7. QED
  BY <1>2, <1>4, <1>6

\* A change that goes on finding the scan it relied on is still covered.
LEMMA EnqueueCovers ==
  ASSUME WInv, NEW r \in Roots, NEW by \in {"watcher", "tick", "admin"}, Enqueue(r, by),
         last' = last, stale' = stale, dropped' = dropped,
         round'.todo = round.todo \/ round'.todo = round.todo \ {r}
  PROVE  OnlyDropsForget'
<1>1. PICK n \in Slots :
        /\ ~Live(n)
        /\ scans'[n] = [status |-> "queued", root |-> r, by |-> by, clean |-> FALSE]
        /\ \A k \in Slots : k # n => scans'[k] = scans[k]
  BY EnqueuedScans
<1>2. n \in ScansOf(r)' /\ scans'[n].status = "queued"
  BY <1>1 DEF ScansOf
<1>3. ASSUME NEW q \in Roots, NEW k \in ScansOf(q)
      PROVE  k \in ScansOf(q)' /\ scans'[k] = scans[k]
  BY <1>1, <1>3 DEF ScansOf
<1>4. ASSUME NEW q \in stale', q # r
      PROVE  \/ last'[q] # "none"
             \/ q \in round'.todo
             \/ \E k \in ScansOf(q)' : scans'[k].status = "queued" \/ scans'[k].clean
             \/ q \in dropped'
  <2>1. q \in Roots /\ q \in stale
    BY <1>4 DEF WInv, TypeOK
  <2>2. CASE \E k \in ScansOf(q) : scans[k].status = "queued" \/ scans[k].clean
    BY <1>3, <2>1, <2>2
  <2>3. CASE last[q] # "none" \/ q \in round.todo \/ q \in dropped
    BY <1>4, <2>3
  <2>4. QED
    BY <2>1, <2>2, <2>3 DEF WInv, OnlyDropsForget
<1>5. QED
  BY <1>2, <1>4 DEF OnlyDropsForget

-------------------------------------------------------------------------------
(***************************************************************************)
(* Steps that leave the table of scans alone.                              *)
(***************************************************************************)
LEMMA ScansKept ==
  ASSUME WInv, scans' = scans
  PROVE  /\ ScansOK' /\ ScansNeverStack'
         /\ \A r \in Roots : ScansOf(r)' = ScansOf(r)
         /\ round'.pc # "insert" => InsertsIntoIdle'
         /\ round' = round => InsertsIntoIdle' /\ NothingHeldOver'
<1>1. ScansOK
  BY TypeParts DEF WInv
<1>2. ScansOK' /\ ScansNeverStack'
  BY <1>1 DEF ScansOK, WInv, ScansNeverStack
<1>3. QED
  BY <1>2 DEF ScansOf, WInv, InsertsIntoIdle, NothingHeldOver

\* Every root that was stale is covered by what the step left in its place.
LEMMA StillCovered ==
  ASSUME WInv, scans' = scans, stale' \subseteq stale,
         \A r \in stale' :
           last[r] # "none" \/ r \in round.todo \/ r \in dropped =>
             last'[r] # "none" \/ r \in round'.todo \/ r \in dropped'
  PROVE  OnlyDropsForget'
<1> SUFFICES ASSUME NEW r \in stale'
             PROVE  \/ last'[r] # "none"
                    \/ r \in round'.todo
                    \/ \E n \in ScansOf(r)' : scans'[n].status = "queued" \/ scans'[n].clean
                    \/ r \in dropped'
  BY DEF OnlyDropsForget
<1>1. r \in Roots /\ r \in stale
  BY DEF WInv, TypeOK
<1>2. ScansOf(r)' = ScansOf(r)
  BY <1>1, ScansKept
<1>3. QED
  BY <1>1, <1>2 DEF WInv, OnlyDropsForget

LEMMA QuietStep ==
  ASSUME WInv, NEW r \in Roots, Quiet(r)
  PROVE  WInv'
<1>1. last' = [last EXCEPT ![r] = "quiet"] /\ scans' = scans /\ stale' = stale
      /\ round' = round /\ dropped' = dropped
  BY DEF Quiet
<1>2. RestOK'
  BY TypeParts DEF WInv, Quiet, RestOK
<1>3. TypeOK'
  BY <1>1, <1>2, ScansKept DEF TypeOK, ScansOK, RestOK, Scan
<1>4. \A q \in stale : last[q] # "none" => last'[q] # "none"
  BY <1>1, TypeParts DEF WInv, RestOK
<1>5. OnlyDropsForget'
  BY <1>1, <1>4, StillCovered
<1>6. QED
  BY <1>1, <1>3, <1>5, ScansKept DEF WInv

LEMMA DrainStep ==
  ASSUME WInv, Drain
  PROVE  WInv'
<1> DEFINE drained == {r \in Roots : Drainable(r)}
<1>1. /\ round' = [pc |-> "select", todo |-> drained]
      /\ last' = [r \in Roots |-> IF r \in drained THEN "none" ELSE last[r]]
      /\ round.todo = {} /\ scans' = scans /\ stale' = stale /\ dropped' = dropped
  BY DEF Drain, WInv, NothingHeldOver
<1>2. RestOK'
  BY <1>1, TypeParts DEF WInv, Drain, RestOK
<1>3. TypeOK'
  BY <1>1, <1>2, ScansKept DEF TypeOK, ScansOK, RestOK, Scan
<1>4. stale' \subseteq Roots
  BY <1>2 DEF RestOK
<1>5. OnlyDropsForget'
  BY <1>1, <1>4, StillCovered
<1>6. InsertsIntoIdle' /\ NothingHeldOver'
  BY <1>1 DEF InsertsIntoIdle, NothingHeldOver
<1>7. QED
  BY <1>1, <1>3, <1>5, <1>6, ScansKept DEF WInv

LEMMA SelectBusyStep ==
  ASSUME WInv, NEW r \in Roots, SelectBusy(r)
  PROVE  WInv'
<1>1. /\ round.pc = "select" /\ round' = [round EXCEPT !.todo = @ \ {r}]
      /\ dropped' = dropped \cup ({r} \cap stale)
      /\ last' = last /\ scans' = scans /\ stale' = stale
  BY DEF SelectBusy
<1>2. round'.pc = "select" /\ round'.todo = round.todo \ {r}
  BY <1>1, TypeParts DEF WInv, RestOK
<1>3. RestOK'
  BY <1>1, <1>2, TypeParts DEF WInv, SelectBusy, RestOK
<1>4. TypeOK'
  BY <1>1, <1>3, ScansKept DEF TypeOK, ScansOK, RestOK, Scan
<1>5. OnlyDropsForget'
  BY <1>1, <1>2, StillCovered
<1>6. InsertsIntoIdle' /\ NothingHeldOver'
  BY <1>2 DEF InsertsIntoIdle, NothingHeldOver
<1>7. QED
  BY <1>1, <1>4, <1>5, <1>6, ScansKept DEF WInv

\* The look at the queue: no scan at all, so none the watcher asked for.
LEMMA SelectIdleStep ==
  ASSUME WInv, SelectIdle
  PROVE  WInv'
<1>1. /\ round.todo # {} /\ ~Busy /\ round' = [round EXCEPT !.pc = "insert"]
      /\ last' = last /\ scans' = scans /\ stale' = stale /\ dropped' = dropped
  BY DEF SelectIdle
<1>2. round'.pc = "insert" /\ round'.todo = round.todo
  BY <1>1, TypeParts DEF WInv, RestOK
<1>3. RestOK'
  BY <1>1, <1>2, TypeParts DEF WInv, SelectIdle, RestOK
<1>4. TypeOK'
  BY <1>1, <1>3, ScansKept DEF TypeOK, ScansOK, RestOK, Scan
<1>5. OnlyDropsForget'
  BY <1>1, <1>2, StillCovered
<1>6. InsertsIntoIdle' /\ NothingHeldOver'
  BY <1>1, <1>2 DEF InsertsIntoIdle, NothingHeldOver, Busy
<1>7. QED
  BY <1>1, <1>4, <1>5, <1>6, ScansKept DEF WInv

LEMMA ClearInflightStep ==
  ASSUME WInv, ClearInflight
  PROVE  WInv'
<1>1. /\ round.todo = {} /\ round' = Waiting
      /\ last' = last /\ scans' = scans /\ stale' = stale /\ dropped' = dropped
  BY DEF ClearInflight
<1>2. RestOK'
  BY <1>1, Members, TypeParts DEF WInv, ClearInflight, RestOK
<1>3. TypeOK'
  BY <1>1, <1>2, ScansKept DEF TypeOK, ScansOK, RestOK, Scan
<1>4. OnlyDropsForget'
  BY <1>1, StillCovered
<1>5. InsertsIntoIdle' /\ NothingHeldOver'
  BY <1>1, Members DEF InsertsIntoIdle, NothingHeldOver
<1>6. QED
  BY <1>1, <1>3, <1>4, <1>5, ScansKept DEF WInv

LEMMA RoundFailsStep ==
  ASSUME WInv, RoundFails
  PROVE  WInv'
<1>1. /\ round' = Waiting /\ dropped' = dropped \cup (round.todo \cap stale)
      /\ last' = last /\ scans' = scans /\ stale' = stale
  BY DEF RoundFails
<1>2. RestOK'
  BY <1>1, Members, Spent, TypeParts DEF WInv, RoundFails, RestOK
<1>3. TypeOK'
  BY <1>1, <1>2, ScansKept DEF TypeOK, ScansOK, RestOK, Scan
<1>4. OnlyDropsForget'
  BY <1>1, StillCovered
<1>5. InsertsIntoIdle' /\ NothingHeldOver'
  BY <1>1, Members DEF InsertsIntoIdle, NothingHeldOver
<1>6. QED
  BY <1>1, <1>3, <1>4, <1>5, ScansKept DEF WInv

LEMMA WatcherStopsStep ==
  ASSUME WInv, WatcherStops
  PROVE  WInv'
<1>1. /\ round' = Waiting
      /\ dropped' = dropped \cup {r \in stale : last[r] # "none" \/ r \in round.todo}
      /\ scans' = scans /\ stale' = stale
  BY DEF WatcherStops
<1>2. RestOK'
  BY <1>1, Members, Spent, TypeParts DEF WInv, WatcherStops, RestOK
<1>3. TypeOK'
  BY <1>1, <1>2, ScansKept DEF TypeOK, ScansOK, RestOK, Scan
<1>4. OnlyDropsForget'
  BY <1>1, StillCovered
<1>5. InsertsIntoIdle' /\ NothingHeldOver'
  BY <1>1, Members DEF InsertsIntoIdle, NothingHeldOver
<1>6. QED
  BY <1>1, <1>3, <1>4, <1>5, ScansKept DEF WInv

LEMMA WatcherStartsStep ==
  ASSUME WInv, WatcherStarts
  PROVE  WInv'
<1>1. round' = round /\ scans' = scans /\ stale' = stale
  BY DEF WatcherStarts
<1>2. RestOK'
  BY TypeParts DEF WInv, WatcherStarts, RestOK
<1>3. TypeOK'
  BY <1>1, <1>2, ScansKept DEF TypeOK, ScansOK, RestOK, Scan
<1>4. OnlyDropsForget'
  <2>1. CASE CatchUp
    BY <1>1, <1>2, <2>1 DEF WatcherStarts, OnlyDropsForget, RestOK
  <2>2. CASE ~CatchUp
    BY <1>1, <2>2, StillCovered DEF WatcherStarts
  <2>3. QED
    BY <2>1, <2>2
<1>5. QED
  BY <1>1, <1>3, <1>4, ScansKept DEF WInv

LEMMA IntervalElapsesStep ==
  ASSUME WInv, NEW r \in Roots, IntervalElapses(r)
  PROVE  WInv'
<1>1. /\ round' = round /\ scans' = scans /\ stale' = stale
      /\ last' = last /\ dropped' = dropped
  BY DEF IntervalElapses
<1>2. RestOK'
  BY TypeParts DEF WInv, IntervalElapses, RestOK
<1>3. TypeOK'
  BY <1>1, <1>2, ScansKept DEF TypeOK, ScansOK, RestOK, Scan
<1>4. OnlyDropsForget'
  BY <1>1, StillCovered
<1>5. QED
  BY <1>1, <1>3, <1>4, ScansKept DEF WInv

-------------------------------------------------------------------------------
(***************************************************************************)
(* Steps that add a scan.                                                  *)
(***************************************************************************)
\* The new scan is the watcher's only one, or its root's only tick, or neither.
LEMMA EnqueueNeverStacks ==
  ASSUME WInv, NEW r \in Roots, NEW by \in {"watcher", "tick", "admin"}, Enqueue(r, by),
         by = "watcher" => \A n \in Slots : Live(n) => scans[n].by # "watcher",
         by = "tick" => ScansOf(r) = {}
  PROVE  ScansNeverStack'
<1>1. PICK n \in Slots :
        /\ scans'[n] = [status |-> "queued", root |-> r, by |-> by, clean |-> FALSE]
        /\ \A k \in Slots : k # n => scans'[k] = scans[k]
  BY EnqueuedScans
<1>2. scans'[n].by = by /\ scans'[n].root = r
  BY <1>1
<1> SUFFICES ASSUME NEW j \in Slots, NEW k \in Slots, Live(j)', Live(k)', j # k
             PROVE  /\ ~(scans'[j].by = "watcher" /\ scans'[k].by = "watcher")
                    /\ ~(/\ scans'[j].by = "tick" /\ scans'[k].by = "tick"
                         /\ scans'[j].root = scans'[k].root)
  BY DEF ScansNeverStack
<1>3. CASE j # n /\ k # n
  BY <1>1, <1>3 DEF WInv, ScansNeverStack
<1>4. ASSUME NEW m \in Slots, m # n, Live(m)'
      PROVE  /\ ~(by = "watcher" /\ scans'[m].by = "watcher")
             /\ ~(by = "tick" /\ scans'[m].root = r)
  BY <1>1, <1>4 DEF ScansOf
<1>5. QED
  BY <1>2, <1>3, <1>4

LEMMA InsertStep ==
  ASSUME WInv, NEW r \in Roots, Insert(r)
  PROVE  WInv'
<1>1. /\ round.pc = "insert" /\ Enqueue(r, "watcher")
      /\ round' = [pc |-> "select", todo |-> round.todo \ {r}]
      /\ last' = last /\ stale' = stale /\ dropped' = dropped
  BY DEF Insert
<1>2. ScansOK'
  BY <1>1, EnqueuedScans
<1>3. RestOK'
  BY <1>1, TypeParts DEF WInv, Insert, RestOK
<1>4. ScansNeverStack'
  BY <1>1, EnqueueNeverStacks DEF WInv, InsertsIntoIdle
<1>5. OnlyDropsForget'
  BY <1>1, EnqueueCovers
<1>6. InsertsIntoIdle' /\ NothingHeldOver'
  BY <1>1 DEF InsertsIntoIdle, NothingHeldOver
<1>7. QED
  BY <1>2, <1>3, <1>4, <1>5, <1>6 DEF WInv, TypeOK, ScansOK, RestOK, Scan

\* A scan of somebody else's leaves a dispatcher that is about to insert alone.
LEMMA OthersEnqueue ==
  ASSUME WInv, NEW r \in Roots, NEW by \in {"tick", "admin"}, Enqueue(r, by),
         by = "tick" => ScansOf(r) = {},
         round' = round, last' = last, stale' = stale, dropped' = dropped, RestOK'
  PROVE  WInv'
<1> by \in {"watcher", "tick", "admin"} /\ by # "watcher"
  OBVIOUS
<1>1. PICK n \in Slots :
        /\ scans'[n] = [status |-> "queued", root |-> r, by |-> by, clean |-> FALSE]
        /\ \A k \in Slots : k # n => scans'[k] = scans[k]
        /\ ScansOK'
  BY EnqueuedScans
<1>2. ScansNeverStack'
  BY EnqueueNeverStacks
<1>3. OnlyDropsForget'
  BY EnqueueCovers
<1>4. scans'[n].by # "watcher"
  BY <1>1
<1>5. InsertsIntoIdle' /\ NothingHeldOver'
  BY <1>1, <1>4 DEF WInv, InsertsIntoIdle, NothingHeldOver
<1>6. QED
  BY <1>1, <1>2, <1>3, <1>5 DEF WInv, TypeOK, ScansOK, RestOK, Scan

LEMMA DueTickStep ==
  ASSUME WInv, NEW r \in Roots, DueTick(r)
  PROVE  WInv'
<1>1. RestOK'
  BY TypeParts DEF WInv, DueTick, RestOK
<1>2. QED
  BY <1>1, OthersEnqueue DEF DueTick

LEMMA AdminScanStep ==
  ASSUME WInv, NEW r \in Roots, AdminScan(r)
  PROVE  WInv'
<1>1. /\ round' = round /\ last' = last /\ stale' = stale /\ dropped' = dropped
      /\ scans' = scans \/ Enqueue(r, "admin")
  BY DEF AdminScan
<1>2. RestOK'
  BY <1>1, Spent, TypeParts DEF WInv, AdminScan, RestOK
<1>3. CASE scans' = scans
  <2>1. TypeOK'
    BY <1>2, <1>3, ScansKept DEF TypeOK, ScansOK, RestOK, Scan
  <2>2. OnlyDropsForget'
    BY <1>1, <1>3, StillCovered
  <2>3. QED
    BY <1>1, <1>3, <2>1, <2>2, ScansKept DEF WInv
<1>4. CASE Enqueue(r, "admin")
  BY <1>1, <1>2, <1>4, OthersEnqueue
<1>5. QED
  BY <1>1, <1>3, <1>4

-------------------------------------------------------------------------------
(***************************************************************************)
(* Steps that change or end the scans there are.                           *)
(***************************************************************************)
\* A scan that goes on is of the same root and the same asker.
LEMMA NoNewScan ==
  ASSUME WInv, scans' \in [Slots -> Scan],
         \A n \in Slots : Live(n)' => /\ Live(n)
                                      /\ scans'[n].root = scans[n].root
                                      /\ scans'[n].by = scans[n].by
  PROVE  /\ ScansOK' /\ ScansNeverStack'
         /\ round' = round => InsertsIntoIdle' /\ NothingHeldOver'
<1>1. ScansOK'
  BY TypeParts DEF WInv, ScansOK
<1>2. ScansNeverStack'
  BY DEF WInv, ScansNeverStack
<1>3. round' = round => InsertsIntoIdle' /\ NothingHeldOver'
  BY DEF WInv, InsertsIntoIdle, NothingHeldOver
<1>4. QED
  BY <1>1, <1>2, <1>3

\* The change makes its own root stale and spoils only the scans of that root.
LEMMA EventStep ==
  ASSUME WInv, NEW r \in Roots, Event(r)
  PROVE  WInv'
<1>1. /\ stale' = stale \cup {r} /\ round' = round
      /\ scans' = [n \in Slots |-> IF n \in ScansOf(r) THEN [scans[n] EXCEPT !.clean = FALSE]
                                   ELSE scans[n]]
      /\ \/ last' = [last EXCEPT ![r] = "fresh"] /\ dropped' = dropped
         \/ last' = last /\ dropped' = dropped \cup {r}
  BY DEF Event, Touched
<1>2. ScansOK /\ RestOK
  BY TypeParts DEF WInv
<1>3. \A n \in Slots : /\ scans'[n] \in Scan
                       /\ scans'[n].status = scans[n].status
                       /\ scans'[n].root = scans[n].root
                       /\ scans'[n].by = scans[n].by
                       /\ scans[n].root # r => scans'[n] = scans[n]
  BY <1>1, <1>2 DEF ScansOK, Scan, ScansOf
<1>4. scans' \in [Slots -> Scan]
  BY <1>1, <1>3
<1>5. RestOK'
  BY <1>1, <1>2, Spent DEF Event, RestOK
<1>6. OnlyDropsForget'
  <2> SUFFICES ASSUME NEW q \in stale'
               PROVE  \/ last'[q] # "none"
                      \/ q \in round'.todo
                      \/ \E n \in ScansOf(q)' : scans'[n].status = "queued" \/ scans'[n].clean
                      \/ q \in dropped'
    BY DEF OnlyDropsForget
  <2>1. CASE q = r
    BY <1>1, <1>2, <2>1 DEF RestOK
  <2>2. CASE q # r
    <3>1. q \in stale /\ q \in Roots
      BY <1>1, <1>2, <2>2 DEF RestOK
    <3>2. last'[q] = last[q]
      BY <1>1, <1>2, <2>2, <3>1 DEF RestOK
    <3>3. \A n \in ScansOf(q) : n \in ScansOf(q)' /\ scans'[n] = scans[n]
      BY <1>3, <2>2 DEF ScansOf
    <3>4. QED
      BY <1>1, <3>1, <3>2, <3>3 DEF WInv, OnlyDropsForget
  <2>3. QED
    BY <2>1, <2>2
<1>7. QED
  BY <1>1, <1>3, <1>4, <1>5, <1>6, NoNewScan DEF WInv, TypeOK, ScansOK, RestOK, Scan

\* One scan changes: every root but its own keeps the scan that covers it.
LEMMA OneScanChanges ==
  ASSUME WInv, NEW n \in Slots, NEW new \in Scan, scans' = [scans EXCEPT ![n] = new],
         Live(n), new.status # "none" => new.root = scans[n].root /\ new.by = scans[n].by,
         round' = round, last' = last, RestOK',
         \A q \in stale' : q \in stale /\ (q \in dropped => q \in dropped'),
         scans[n].root \in stale' =>
           \/ new.status = "queued"
           \/ new.status # "none" /\ new.clean
           \/ scans[n].status = "running" /\ ~scans[n].clean
           \/ scans[n].root \in dropped'
  PROVE  WInv'
<1>1. scans \in [Slots -> Scan]
  BY TypeParts DEF WInv, ScansOK
<1>2. scans' \in [Slots -> Scan] /\ scans'[n] = new
      /\ \A k \in Slots : k # n => scans'[k] = scans[k]
  BY <1>1
<1>3. /\ ScansOK' /\ ScansNeverStack' /\ InsertsIntoIdle' /\ NothingHeldOver'
  BY <1>2, NoNewScan
<1>4. OnlyDropsForget'
  <2> SUFFICES ASSUME NEW q \in stale'
               PROVE  \/ last'[q] # "none"
                      \/ q \in round'.todo
                      \/ \E k \in ScansOf(q)' : scans'[k].status = "queued" \/ scans'[k].clean
                      \/ q \in dropped'
    BY DEF OnlyDropsForget
  <2>1. q \in stale /\ q \in Roots
    BY TypeParts DEF WInv, RestOK
  <2>2. CASE last[q] # "none" \/ q \in round.todo \/ q \in dropped
    BY <2>2
  <2>3. ASSUME NEW k \in ScansOf(q), scans[k].status = "queued" \/ scans[k].clean
        PROVE  \/ \E j \in ScansOf(q)' : scans'[j].status = "queued" \/ scans'[j].clean
               \/ q \in dropped'
    <3>1. CASE k # n
      <4>1. k \in ScansOf(q)' /\ scans'[k] = scans[k]
        BY <1>2, <3>1 DEF ScansOf
      <4>2. QED
        BY <2>3, <4>1
    <3>2. CASE k = n
      <4>1. scans[n].root = q /\ (scans[n].status = "queued" \/ scans[n].clean)
        BY <2>3, <3>2 DEF ScansOf
      <4>2. ~(scans[n].status = "running" /\ ~scans[n].clean)
        BY <4>1
      <4>3. \/ q \in dropped'
            \/ new.status # "none" /\ (new.status = "queued" \/ new.clean)
        BY <4>1, <4>2
      <4>4. CASE new.status # "none" /\ (new.status = "queued" \/ new.clean)
        <5>1. n \in ScansOf(q)'
          BY <1>2, <4>1, <4>4 DEF ScansOf
        <5>2. QED
          BY <1>2, <4>4, <5>1
      <4>5. QED
        BY <4>3, <4>4
    <3>3. QED
      BY <3>1, <3>2
  <2>4. QED
    BY <2>1, <2>2, <2>3 DEF WInv, OnlyDropsForget
<1>5. QED
  BY <1>3, <1>4 DEF WInv, TypeOK, ScansOK, RestOK, Scan

LEMMA BeginScanStep ==
  ASSUME WInv, NEW n \in Slots, BeginScan(n)
  PROVE  WInv'
<1> DEFINE new == [scans[n] EXCEPT !.status = "running", !.clean = TRUE]
<1>1. scans[n] \in Scan /\ scans \in [Slots -> Scan]
  BY TypeParts DEF WInv, ScansOK
<1>2. /\ new \in Scan /\ new.status = "running" /\ new.clean
      /\ new.root = scans[n].root /\ new.by = scans[n].by
  BY <1>1 DEF Scan
<1>3. scans' = [scans EXCEPT ![n] = new]
  BY <1>1 DEF BeginScan
<1>4. RestOK'
  BY TypeParts DEF WInv, BeginScan, RestOK
<1> HIDE DEF new
<1>5. QED
  BY <1>2, <1>3, <1>4, OneScanChanges DEF BeginScan

\* A scan that ends was clean, and its root is not stale any more, or it was
\* nobody's hope.
LEMMA EndScanStep ==
  ASSUME WInv, NEW n \in Slots, EndScan(n)
  PROVE  WInv'
<1>1. scans[n] \in Scan
  BY TypeParts DEF WInv, ScansOK
<1>2. /\ scans[n].status = "running" /\ scans' = [scans EXCEPT ![n] = NoScan]
      /\ round' = round /\ last' = last
      /\ \/ /\ scans[n].clean
            /\ stale' = stale \ {scans[n].root} /\ dropped' = dropped \ {scans[n].root}
         \/ ~scans[n].clean /\ stale' = stale /\ dropped' = dropped
  BY DEF EndScan
<1>3. RestOK'
  BY <1>2, TypeParts DEF WInv, EndScan, RestOK
<1>4. QED
  BY <1>2, <1>3, Members, OneScanChanges

LEMMA ScanFailsStep ==
  ASSUME WInv, NEW n \in Slots, ScanFails(n)
  PROVE  WInv'
<1> DEFINE new == [scans[n] EXCEPT !.status = "queued", !.clean = FALSE]
<1>1. scans[n] \in Scan /\ scans \in [Slots -> Scan]
  BY TypeParts DEF WInv, ScansOK
<1>2. /\ new \in Scan /\ new.status = "queued"
      /\ new.root = scans[n].root /\ new.by = scans[n].by
  BY <1>1 DEF Scan
<1>3. /\ scans[n].status = "running" /\ round' = round /\ last' = last /\ stale' = stale
      /\ \/ scans' = [scans EXCEPT ![n] = new] /\ dropped' = dropped
         \/ /\ scans' = [scans EXCEPT ![n] = NoScan]
            /\ dropped' = dropped \cup ({scans[n].root} \cap stale)
  BY <1>1 DEF ScanFails
<1>4. RestOK'
  BY <1>3, Spent, TypeParts DEF WInv, ScanFails, RestOK
<1> HIDE DEF new
<1>5. CASE scans' = [scans EXCEPT ![n] = new] /\ dropped' = dropped
  <2>1. Live(n) /\ \A q \in stale' : q \in stale /\ (q \in dropped => q \in dropped')
    BY <1>3, <1>5
  <2>2. QED
    BY <1>2, <1>3, <1>4, <1>5, <2>1, OneScanChanges
<1>6. CASE /\ scans' = [scans EXCEPT ![n] = NoScan]
           /\ dropped' = dropped \cup ({scans[n].root} \cap stale)
  BY <1>3, <1>4, <1>6, Members, OneScanChanges
<1>7. QED
  BY <1>3, <1>5, <1>6

-------------------------------------------------------------------------------
(***************************************************************************)
(* The invariant and what follows from it.                                 *)
(***************************************************************************)
LEMMA InitWInv == Init => WInv
<1> SUFFICES ASSUME Init PROVE WInv
  OBVIOUS
<1>1. ScansOK
  BY Members DEF Init, ScansOK
<1>2. left \in [events : 0..MaxEvents, upsets : 0..MaxUpsets]
  BY WatcherAssumption DEF Init
<1>3. RestOK
  BY <1>2, Members DEF Init, RestOK
<1>4. InsertsIntoIdle /\ NothingHeldOver /\ ScansNeverStack /\ OnlyDropsForget
  BY Members DEF Init, InsertsIntoIdle, NothingHeldOver, ScansNeverStack, OnlyDropsForget
<1>5. QED
  BY <1>1, <1>3, <1>4, TypeParts DEF WInv

LEMMA StepWInv == WInv /\ [Next]_vars => WInv'
<1> SUFFICES ASSUME WInv, [Next]_vars PROVE WInv'
  OBVIOUS
<1>1. ASSUME NEW r \in Roots,
             \/ Event(r) \/ Quiet(r) \/ IntervalElapses(r) \/ DueTick(r) \/ AdminScan(r)
             \/ SelectBusy(r) \/ Insert(r)
      PROVE  WInv'
  BY <1>1, EventStep, QuietStep, IntervalElapsesStep, DueTickStep, AdminScanStep,
     SelectBusyStep, InsertStep
<1>2. ASSUME NEW n \in Slots, BeginScan(n) \/ EndScan(n) \/ ScanFails(n)
      PROVE  WInv'
  BY <1>2, BeginScanStep, EndScanStep, ScanFailsStep
<1>3. CASE \/ Drain \/ SelectIdle \/ ClearInflight
           \/ RoundFails \/ WatcherStops \/ WatcherStarts
  BY <1>3, DrainStep, SelectIdleStep, ClearInflightStep, RoundFailsStep,
     WatcherStopsStep, WatcherStartsStep
<1>4. CASE UNCHANGED vars
  BY <1>4 DEF vars, WInv, TypeOK, InsertsIntoIdle, NothingHeldOver, ScansNeverStack,
              OnlyDropsForget, ScansOf
<1>5. QED
  BY <1>1, <1>2, <1>3, <1>4 DEF Next, Dispatcher, Worker

THEOREM WatcherInvariant == Spec => []WInv
  BY InitWInv, StepWInv, PTL DEF Spec

\* The state of the watcher, the dispatcher's round and the table of scans is
\* always of its type.
THEOREM WatcherTypes == Spec => []TypeOK
<1>1. WInv => TypeOK
  BY DEF WInv
<1>2. QED
  BY <1>1, WatcherInvariant, PTL

\* Whatever the roots, the slots and the faults: of the scans the watcher asked
\* for one at most is alive, and one at most per root of those the tick asked for.
THEOREM ScansStayFew == Spec => []ScansNeverStack
<1>1. WInv => ScansNeverStack
  BY DEF WInv
<1>2. QED
  BY <1>1, WatcherInvariant, PTL

\* A changed root is marked, drained or about to be seen by a scan, unless a
\* fault or a busy queue dropped its mark.
THEOREM ChangesAreCovered == Spec => []OnlyDropsForget
<1>1. WInv => OnlyDropsForget
  BY DEF WInv
<1>2. QED
  BY <1>1, WatcherInvariant, PTL

===============================================================================
