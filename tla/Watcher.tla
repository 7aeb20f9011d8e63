-------------------------------- MODULE Watcher --------------------------------
(***************************************************************************)
(* How a change below a root comes to be scanned: the watcher service with *)
(* its debouncer and dispatcher, the scheduler's tick for roots whose scan *)
(* interval has elapsed, an administrator's scan requests, and the scans.  *)
(*                                                                         *)
(* The watcher, the scheduler and the threads that scan share the jobs     *)
(* table only.  JobQueue models that table; here a scan is a discover_root *)
(* job that is queued, running or gone.                                    *)
(***************************************************************************)
EXTENDS Integers, FiniteSets

CONSTANTS
  Roots,      \* photo roots, enabled and watched
  CatchUp,    \* [watcher] initial_scan_on_start
  MaxScans,   \* bound: discover_root jobs alive at once
  MaxEvents,  \* bound: changes to files
  MaxUpsets   \* bound: scans an administrator asks for, scans and dispatcher
              \* rounds that fail, and stops of the watcher

Slots == 1..MaxScans

ASSUME WatcherAssumption ==
  /\ "none" \notin Roots
  /\ CatchUp \in BOOLEAN
  /\ MaxScans \in Nat /\ MaxEvents \in Nat /\ MaxUpsets \in Nat

VARIABLES
  up,        \* the watcher runs
  last,      \* the debouncer's marks: the root's last event, fresh or long ago
  inflight,  \* roots the watcher has asked a scan for
  round,     \* the dispatcher's round: where it is, and what drain_due returned
  scans,     \* discover_root jobs, queued or running, and whose they are
  due,       \* roots never scanned, or whose scan interval has elapsed
  stale,     \* roots with a change that no scan begun after it has finished
  dropped,   \* history: stale roots that a fault, or a busy queue, left unmarked
  left       \* what is left of the bounds

vars == <<up, last, inflight, round, scans, due, stale, dropped, left>>

NoScan  == [status |-> "none", root |-> "none", by |-> "none", clean |-> FALSE]
Waiting == [pc |-> "wait", todo |-> {}]

Live(n)     == scans[n].status # "none"
ScansOf(r)  == {n \in Slots : Live(n) /\ scans[n].root = r}
Queued(r)   == \E n \in ScansOf(r) : scans[n].status = "queued"

TypeOK ==
  /\ up \in BOOLEAN
  /\ last \in [Roots -> {"none", "fresh", "quiet"}]
  /\ inflight \subseteq Roots
  /\ round \in [pc : {"wait", "select", "insert"}, todo : SUBSET Roots]
  /\ round.pc = "insert" => round.todo # {}
  /\ scans \in [Slots -> [status : {"none", "queued", "running"}, root : Roots \cup {"none"},
                          by : {"none", "watcher", "tick", "admin"}, clean : BOOLEAN]]
  /\ \A n \in Slots : Live(n) => scans[n].root \in Roots
  /\ due \subseteq Roots
  /\ stale \subseteq Roots /\ dropped \subseteq stale
  /\ left \in [events : 0..MaxEvents, upsets : 0..MaxUpsets]

Init ==
  /\ up = FALSE
  /\ last = [r \in Roots |-> "none"]
  /\ inflight = {}
  /\ round = Waiting
  /\ scans = [n \in Slots |-> NoScan]
  /\ due = Roots
  /\ stale = {}
  /\ dropped = {}
  /\ left = [events |-> MaxEvents, upsets |-> MaxUpsets]

Spend(what) == left[what] > 0 /\ left' = [left EXCEPT ![what] = @ - 1]

\* A new job in a free slot, as enqueue inserts it.
Enqueue(r, by) ==
  \E n \in Slots :
    /\ ~Live(n) /\ \A k \in 1..(n - 1) : Live(k)
    /\ scans' = [scans EXCEPT ![n] = [status |-> "queued", root |-> r, by |-> by,
                                      clean |-> FALSE]]

-------------------------------------------------------------------------------
(***************************************************************************)
(* The watcher.                                                            *)
(***************************************************************************)
\* Mutant of Touched: an event does not count while a scan is in flight.
TouchedIdle(r) == IF r \in inflight THEN last ELSE [last EXCEPT ![r] = "fresh"]

Touched(r) == [last EXCEPT ![r] = "fresh"]

\* A file changes.  A watcher that is up marks the root; a scan that runs may
\* have walked past the file.
Event(r) ==
  /\ Spend("events")
  /\ stale' = stale \cup {r}
  /\ scans' = [n \in Slots |-> IF n \in ScansOf(r) THEN [scans[n] EXCEPT !.clean = FALSE]
                               ELSE scans[n]]
  /\ IF up THEN last' = Touched(r) /\ UNCHANGED dropped
           ELSE dropped' = dropped \cup {r} /\ UNCHANGED last
  /\ UNCHANGED <<up, inflight, round, due>>

\* debounce_seconds pass without an event.
Quiet(r) ==
  /\ last[r] = "fresh"
  /\ last' = [last EXCEPT ![r] = "quiet"]
  /\ UNCHANGED <<up, inflight, round, scans, due, stale, dropped, left>>

Drainable(r) == last[r] = "quiet" /\ r \notin inflight

Drain ==
  LET drained == {r \in Roots : Drainable(r)}
  IN /\ up /\ round.pc = "wait"
     /\ round' = [pc |-> "select", todo |-> drained]
     /\ last' = [r \in Roots |-> IF r \in drained THEN "none" ELSE last[r]]
  /\ UNCHANGED <<up, inflight, scans, due, stale, dropped, left>>

\* Mutant of Busy: only queued scans count, not running ones.
BusyQueued == \E n \in Slots : scans[n].status = "queued"

\* Any discover_root job holds the watcher off, whichever root it scans.
Busy == \E n \in Slots : Live(n)

\* _enqueue_scan_if_idle: the root's mark is gone already when the queue is busy.
SelectBusy(r) ==
  /\ round.pc = "select" /\ r \in round.todo /\ Busy
  /\ round' = [round EXCEPT !.todo = @ \ {r}]
  /\ dropped' = dropped \cup ({r} \cap stale)
  /\ UNCHANGED <<up, last, inflight, scans, due, stale, left>>

SelectIdle ==
  /\ round.pc = "select" /\ round.todo # {} /\ ~Busy
  /\ round' = [round EXCEPT !.pc = "insert"]
  /\ UNCHANGED <<up, last, inflight, scans, due, stale, dropped, left>>

\* The job is committed, then the root is marked in flight.
Insert(r) ==
  /\ round.pc = "insert" /\ r \in round.todo
  /\ Enqueue(r, "watcher")
  /\ inflight' = inflight \cup {r}
  /\ round' = [pc |-> "select", todo |-> round.todo \ {r}]
  /\ UNCHANGED <<up, last, due, stale, dropped, left>>

\* Roots in flight that have no queued or running scan any more.
Settled == {r \in inflight : ScansOf(r) = {}}

ClearInflight ==
  /\ round.pc = "select" /\ round.todo = {}
  /\ inflight' = inflight \ Settled
  /\ round' = Waiting
  /\ UNCHANGED <<up, last, scans, due, stale, dropped, left>>

\* An exception ends the round: what it drained and did not come to is lost.
RoundFails ==
  /\ round.pc # "wait"
  /\ Spend("upsets")
  /\ dropped' = dropped \cup (round.todo \cap stale)
  /\ round' = Waiting
  /\ UNCHANGED <<up, last, inflight, scans, due, stale>>

\* Marks live in the process's memory.
WatcherStops ==
  /\ up
  /\ Spend("upsets")
  /\ up' = FALSE
  /\ dropped' = dropped \cup
       {r \in stale : last[r] # "none" \/ r \in round.todo}
  /\ last' = [r \in Roots |-> "none"]
  /\ inflight' = {}
  /\ round' = Waiting
  /\ UNCHANGED <<scans, due, stale>>

\* A starting watcher marks every root, to catch up.
WatcherStarts ==
  /\ ~up
  /\ up' = TRUE
  /\ IF CatchUp
       THEN last' = [r \in Roots |-> "fresh"] /\ dropped' = {}
       ELSE UNCHANGED <<last, dropped>>
  /\ UNCHANGED <<inflight, round, scans, due, stale, left>>

-------------------------------------------------------------------------------
(***************************************************************************)
(* The scheduler, the administrator, and the scans.                        *)
(***************************************************************************)
\* The scheduler looks for due roots every ten minutes, the dispatcher for ended
\* scans every two seconds: it has found a root's scan over before the next tick.
IntervalElapses(r) ==
  /\ r \notin due
  /\ up => r \notin Settled
  /\ due' = due \cup {r}
  /\ UNCHANGED <<up, last, inflight, round, scans, stale, dropped, left>>

\* Mutant of Due: last_full_scan is compared the wrong way round.
DueEarly(r) == r \notin due

Due(r) == r \in due

\* _enqueue_due_root_scans: a queued or a running scan of the root is enough.
DueTick(r) ==
  /\ Due(r) /\ ScansOf(r) = {}
  /\ Enqueue(r, "tick")
  /\ UNCHANGED <<up, last, inflight, round, due, stale, dropped, left>>

\* Only a scan that is still queued covers what an administrator asks for.
AdminScan(r) ==
  /\ Spend("upsets")
  /\ IF Queued(r) THEN UNCHANGED scans ELSE Enqueue(r, "admin")
  /\ UNCHANGED <<up, last, inflight, round, due, stale, dropped>>

BeginScan(n) ==
  /\ scans[n].status = "queued"
  /\ scans' = [scans EXCEPT ![n].status = "running", ![n].clean = TRUE]
  /\ UNCHANGED <<up, last, inflight, round, due, stale, dropped, left>>

\* A finished scan sets last_full_scan.  It has seen every change if none came
\* while it ran.
EndScan(n) ==
  /\ scans[n].status = "running"
  /\ LET r == scans[n].root
     IN /\ due' = due \ {r}
        /\ IF scans[n].clean THEN stale' = stale \ {r} /\ dropped' = dropped \ {r}
                             ELSE UNCHANGED <<stale, dropped>>
  /\ scans' = [scans EXCEPT ![n] = NoScan]
  /\ UNCHANGED <<up, last, inflight, round, left>>

\* A scan that raises is queued again, or given up after its last attempt.
ScanFails(n) ==
  /\ scans[n].status = "running"
  /\ Spend("upsets")
  /\ \/ /\ scans' = [scans EXCEPT ![n].status = "queued", ![n].clean = FALSE]
        /\ UNCHANGED dropped
     \/ /\ scans' = [scans EXCEPT ![n] = NoScan]
        /\ dropped' = dropped \cup ({scans[n].root} \cap stale)
  /\ UNCHANGED <<up, last, inflight, round, due, stale>>

-------------------------------------------------------------------------------
Dispatcher ==
  \/ Drain \/ SelectIdle \/ ClearInflight
  \/ \E r \in Roots : SelectBusy(r) \/ Insert(r)

Worker(n) == BeginScan(n) \/ EndScan(n)

Next ==
  \/ \E r \in Roots : \/ Event(r) \/ Quiet(r) \/ IntervalElapses(r)
                      \/ DueTick(r) \/ AdminScan(r)
  \/ Dispatcher
  \/ RoundFails \/ WatcherStops \/ WatcherStarts
  \/ \E n \in Slots : Worker(n) \/ ScanFails(n)

Spec == Init /\ [][Next]_vars

\* Time passes, the scheduler ticks, queued scans are claimed and running ones
\* end, and the dispatcher thread keeps going round; between its look and its
\* insert only the bound on slots can hold it off, hence SF.  Nothing else is fair:
\* in particular the watcher may stay down.
Fairness ==
  /\ \A r \in Roots : WF_vars(Quiet(r)) /\ WF_vars(IntervalElapses(r)) /\ SF_vars(DueTick(r))
  /\ \A n \in Slots : WF_vars(Worker(n))
  /\ SF_vars(Dispatcher)

FairSpec == Spec /\ Fairness

-------------------------------------------------------------------------------
(***************************************************************************)
(* Properties.                                                             *)
(***************************************************************************)
\* Scans do not pile up: of those the watcher asked for one at most is queued
\* or running, whatever its dispatcher drained and however often it restarted,
\* and the due tick keeps one at most per root.
ScansNeverStack ==
  \A n, k \in {j \in Slots : Live(j)} :
    /\ scans[n].by = "watcher" /\ scans[k].by = "watcher" => n = k
    /\ scans[n].by = "tick" /\ scans[k].by = "tick" /\ scans[n].root = scans[k].root => n = k

\* A change is on its way to a scan: its root is marked, or drained, or has a
\* scan that will see it, unless a fault or a busy queue dropped the mark.
OnlyDropsForget ==
  \A r \in stale :
    \/ last[r] # "none"
    \/ r \in round.todo
    \/ \E n \in ScansOf(r) : scans[n].status = "queued" \/ scans[n].clean
    \/ r \in dropped

\* Every change is scanned in the end, with the watcher down, or its mark lost: the due
\* tick makes up for it.  A mark does not have to wait for that: the scan in flight that
\* keeps a root from being drained ends, and is found over.
ChangesScanned ==
  \A r \in Roots :
    /\ r \in stale ~> r \notin stale
    /\ last[r] # "none" ~> last[r] = "none"
===============================================================================
