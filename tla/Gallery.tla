-------------------------------- MODULE Gallery --------------------------------
(***************************************************************************)
(* The timeline of app/web/static/js/pages/index.js over Listing: an       *)
(* endless list that fetches the pages below and above what it shows, a    *)
(* scrubber that jumps into the middle, filters that start it anew, and    *)
(* deletions in place, while others change the library.  A fetch is a      *)
(* record of its own: the page may have moved on when the answer comes.    *)
(***************************************************************************)
EXTENDS Listing

CONSTANTS
  Tables,    \* the libraries to start with
  Places,    \* the places a photo may be given
  MaxCalls,  \* bound: fetches under way at a time
  MaxStarts, \* bound: jumps and changes of the filter
  MaxEdits   \* bound: changes of the library

VARIABLES
  screen,   \* the timeline: what is shown, its cursors and flags
  calls,    \* fetches under way
  edits     \* changes of the library so far
vars == <<rows, screen, calls, edits>>

\* `age' and `torn' are history: starts so far; whether an answer asked for before the
\* last start was put in, or the listing changed under what the timeline knows of it.
Screen == [filter : Filters, shown : Seq(PhotoIds), start : Nat, next : Nat, first : Nat,
           total : Nat, loading : BOOLEAN, done : BOOLEAN, topDone : BOOLEAN,
           age : 0..MaxStarts, torn : BOOLEAN]
Call == [dir : {"down", "up", "years", "delete"}, page : Nat, filter : Filters, count : BOOLEAN,
         age : 0..MaxStarts, pc : {"sent", "counted", "answered"}, total : Nat \cup {-1},
         items : Seq(PhotoIds)]

GalleryConstants ==
  /\ PageSize \in Nat \ {0} /\ CellLimit \in Nat \ {0} /\ NearbyLimit \in Nat \ {0}
  /\ MarkerLimit \in Nat \ {0} /\ MaxPhoto \in Nat /\ \A p \in PhotoIds : Home[p].year \in Int
  /\ \A p \in PhotoIds : Home[p].folder \in Seq(STRING)
  /\ Filters \subseteq Filter /\ Margin \in Nat /\ \A zoom \in 0..MaxZoom : Cell(zoom) \in Nat \ {0}
  /\ Tables \subseteq [PhotoIds -> Row] /\ Places \subseteq Nat \cup {Nowhere}
  /\ MaxCalls \in Nat \ {0} /\ MaxStarts \in Nat /\ MaxEdits \in Nat

TypeOK ==
  /\ table \in [PhotoIds -> Row] /\ hidden \subseteq Roots
  /\ screen \in Screen /\ calls \subseteq Call /\ Cardinality(calls) <= MaxCalls
  /\ edits \in 0..MaxEdits

Ask(dir, page, count, s) ==
  [dir |-> dir, page |-> page, filter |-> s.filter, count |-> count, age |-> s.age,
   pc |-> "sent", total |-> -1, items |-> <<>>]

\* The page is opened: what applyFilters sets, before the first fetch.
Opened(f, age) ==
  [filter |-> f, shown |-> <<>>, start |-> 0, next |-> 1, first |-> 1, total |-> 0,
   loading |-> FALSE, done |-> FALSE, topDone |-> TRUE, age |-> age, torn |-> FALSE]

Init ==
  /\ table \in Tables /\ hidden = {} /\ edits = 0
  /\ \E f \in Filters : screen = Opened(f, 0)
  /\ calls = {Ask("years", 0, FALSE, screen)}
--------------------------------------------------------------------------------
(***************************************************************************)
(* Fetches.                                                                *)
(***************************************************************************)
\* A call is sent while there is room for it in the bound.
Send(c) == calls' = calls \cup {c} /\ Cardinality(calls') <= MaxCalls
Settle(c) == calls' = calls \ {c}

\* loadNextPage, up to the fetch.  Only the first page asks for the total.
Down(s) == Ask("down", s.next, s.next = 1 \/ s.total <= 0, s)
LoadNextPage ==
  /\ ~screen.loading /\ ~screen.done
  /\ screen' = [screen EXCEPT !.loading = TRUE]
  /\ Send(Down(screen))
  /\ UNCHANGED <<rows, edits>>

\* loadPrevPage, up to the fetch.
LoadPrevPage ==
  /\ ~screen.loading /\ ~screen.topDone
  /\ IF screen.first <= 1
       THEN screen' = [screen EXCEPT !.topDone = TRUE] /\ UNCHANGED calls
       ELSE /\ screen' = [screen EXCEPT !.loading = TRUE]
            /\ Send(Ask("up", screen.first - 1, FALSE, screen))
  /\ UNCHANGED <<rows, edits>>

\* The server: list_photos counts and lists in two queries, date_histogram has one.
Serve(c) ==
  /\ c.dir # "delete" /\ c.pc # "answered"
  /\ calls' = (calls \ {c}) \cup
       {IF c.dir = "years"
          THEN [c EXCEPT !.pc = "answered", !.total = FoldFunction(+, 0, Histogram(c.filter))]
        ELSE IF c.pc = "sent" /\ c.count
          THEN [c EXCEPT !.pc = "counted", !.total = Cardinality(Listed(c.filter))]
        ELSE [c EXCEPT !.pc = "answered", !.items = Page(c.filter, c.page)]}
  /\ UNCHANGED <<rows, screen, edits>>

\* An answer asked for before the last start is taken like any other.
Stray(c) == c.age # screen.age
Arrived(c) == c \in calls /\ c.pc = "answered"

\* appendItems and what follows it.
NextPageArrives(c) ==
  LET shown == screen.shown \o c.items
      total == IF c.total >= 0 THEN c.total ELSE screen.total
  IN /\ Arrived(c) /\ c.dir = "down"
     /\ screen' = [screen EXCEPT
          !.shown = shown, !.total = total, !.next = @ + 1, !.loading = FALSE,
          !.done = @ \/ screen.start + Len(shown) >= total \/ c.items = <<>>,
          !.torn = @ \/ Stray(c)]
     /\ Settle(c)
     /\ UNCHANGED <<rows, edits>>

\* prependItems; an empty page is skipped for the one before it.
PrevPageArrives(c) ==
  LET k == Len(c.items) IN
  /\ Arrived(c) /\ c.dir = "up"
  /\ \/ /\ k > 0
        /\ screen' = [screen EXCEPT
             !.shown = c.items \o @, !.start = Max({0, @ - k}), !.first = Max({1, @ - 1}),
             !.topDone = @ \/ screen.first <= 2, !.loading = FALSE, !.torn = @ \/ Stray(c)]
        /\ Settle(c)
     \/ /\ k = 0
        /\ LET moved == [screen EXCEPT
                 !.first = c.page, !.start = (c.page - 1) * PageSize, !.torn = @ \/ Stray(c)]
               again == c.page > 1 /\ ~moved.topDone
           IN /\ screen' = [moved EXCEPT !.topDone = @ \/ c.page <= 1, !.loading = again]
              /\ calls' = (calls \ {c}) \cup
                   IF again THEN {Ask("up", c.page - 1, FALSE, moved)} ELSE {}
  /\ UNCHANGED <<rows, edits>>

\* The years' bars; they also set the total.
HistogramArrives(c) ==
  /\ Arrived(c) /\ c.dir = "years"
  /\ screen' = [screen EXCEPT !.total = c.total, !.torn = @ \/ Stray(c)]
  /\ Settle(c)
  /\ UNCHANGED <<rows, edits>>

\* A fetch fails: the flag is given back by `finally'.
FetchFails(c) ==
  /\ c \in calls /\ c.dir \in {"down", "up", "years"}
  /\ screen' = [screen EXCEPT !.loading = @ /\ c.dir = "years", !.torn = @ \/ Stray(c)]
  /\ Settle(c)
  /\ UNCHANGED <<rows, edits>>
--------------------------------------------------------------------------------
(***************************************************************************)
(* The user: a jump, another filter, a deletion in place.                  *)
(***************************************************************************)
\* Mutant of Jump: loadPrevPage goes on from the page the old timeline began with.
JumpKeepsFirst(page) ==
  /\ screen.age < MaxStarts
  /\ (page - 1) * PageSize < screen.total
  /\ LET emptied == [screen EXCEPT
           !.shown = <<>>, !.done = FALSE, !.start = (page - 1) * PageSize, !.next = page,
           !.topDone = page <= 1, !.age = @ + 1]
     IN /\ screen' = [emptied EXCEPT !.loading = TRUE]
        /\ Send(Down(emptied))
  /\ UNCHANGED <<rows, edits>>

\* jumpToPage clears the flag as well, though a fetch may be under way.
Jump(page) ==
  /\ screen.age < MaxStarts
  /\ (page - 1) * PageSize < screen.total
  /\ LET emptied == [screen EXCEPT
           !.shown = <<>>, !.done = FALSE, !.start = (page - 1) * PageSize, !.next = page,
           !.first = page, !.topDone = page <= 1, !.age = @ + 1]
     IN /\ screen' = [emptied EXCEPT !.loading = TRUE]
        /\ Send(Down(emptied))
  /\ UNCHANGED <<rows, edits>>

\* applyFilters: the histogram first; a sentinel in view may fetch the page before it
\* is there.
ApplyFilters(f) ==
  /\ screen.age < MaxStarts
  /\ screen' = Opened(f, screen.age + 1)
  /\ Send(Ask("years", 0, FALSE, screen'))
  /\ UNCHANGED <<rows, edits>>

\* bulk-delete of a photo that is shown.
Delete(p) ==
  /\ edits < MaxEdits
  /\ p \in ToSet(screen.shown)
  /\ Send([Ask("delete", 0, FALSE, screen) EXCEPT !.items = <<p>>])
  /\ UNCHANGED <<rows, screen, edits>>

Without(shown, gone) ==
  LET kept == Ordered({i \in DOMAIN shown : shown[i] \notin gone}, <)
  IN [i \in DOMAIN kept |-> shown[kept[i]]]

\* _removePhotosInPlace leaves the cursors alone.
Removed(c) ==
  LET shown == Without(screen.shown, ToSet(c.items))
      total == Max({0, screen.total - (Len(screen.shown) - Len(shown))})
  IN /\ Arrived(c) /\ c.dir = "delete"
     /\ screen' = [screen EXCEPT !.shown = shown, !.total = total,
                     !.done = @ \/ Len(shown) >= total, !.torn = @ \/ Stray(c)]
     /\ Settle(c)
     /\ UNCHANGED <<rows, edits>>
--------------------------------------------------------------------------------
(***************************************************************************)
(* The library changes.                                                    *)
(***************************************************************************)
\* The timeline has asked for nothing yet that the change could be missing from, and is
\* not done with an empty listing.
Blank ==
  /\ screen.shown = <<>> /\ screen.total = 0 /\ ~screen.done
  /\ \A c \in calls : ~Stray(c) => c.pc = "sent"
Changed ==
  /\ edits < MaxEdits /\ edits' = edits + 1
  /\ screen' = [screen EXCEPT
       !.torn = @ \/ (~Blank /\ \E f \in {screen.filter} : Timeline(f)' # Timeline(f))]

\* The bulk-delete's own request, and anybody else's.
Trash(p) == Active(p) /\ table' = [table EXCEPT ![p].status = "trashed"]
ServeDelete(c) ==
  /\ c.dir = "delete" /\ c.pc = "sent"
  /\ \E p \in ToSet(c.items) :
       \/ Trash(p) /\ UNCHANGED hidden /\ Changed
          /\ calls' = (calls \ {c}) \cup {[c EXCEPT !.pc = "answered"]}
       \/ ~Active(p) /\ UNCHANGED <<rows, screen, edits>>
          /\ calls' = (calls \ {c}) \cup {[c EXCEPT !.pc = "answered"]}

Edit(p) ==
  /\ \/ Trash(p)
     \/ ~Active(p) /\ table' = [table EXCEPT ![p].status = "active"]
     \/ \E v \in {"inherit", "private", "public"} : table' = [table EXCEPT ![p].vis = v]
     \/ table' = [table EXCEPT ![p].thumb = TRUE]
     \/ \E x \in Places : table' = [table EXCEPT ![p].place = x]
     \/ \E found \in {"some", "none"} : table' = [table EXCEPT ![p].text = found]
     \/ \E s \in Sources, t \in Tags : table' = [table EXCEPT ![p].tags = @ \cup {<<s, t>>}]
  /\ table' # table
  /\ UNCHANGED <<hidden, calls>>
  /\ Changed

SetRootAcl(r) ==
  /\ hidden' = IF r \in hidden THEN hidden \ {r} ELSE hidden \cup {r}
  /\ UNCHANGED <<table, calls>>
  /\ Changed

Next ==
  \/ LoadNextPage \/ LoadPrevPage
  \/ \E c \in calls :
       \/ Serve(c) \/ NextPageArrives(c) \/ PrevPageArrives(c) \/ HistogramArrives(c)
       \/ FetchFails(c) \/ ServeDelete(c) \/ Removed(c)
  \/ \E page \in 1..MaxPhoto : Jump(page)
  \/ \E f \in Filters : ApplyFilters(f)
  \/ \E p \in PhotoIds : Delete(p) \/ Edit(p)
  \/ \E r \in Roots : SetRootAcl(r)

Spec == Init /\ [][Next]_vars
--------------------------------------------------------------------------------
(***************************************************************************)
(* Properties; CountsAgree of Listing is the other one.                    *)
(***************************************************************************)
\* What is shown is one stretch of the listing, without gaps, doubles or strangers,
\* and ends where the listing does when the timeline says so: however jumps, filters,
\* failures and pages from below and above follow each other, unless an answer that
\* was under way at a start came in after it, or the listing changed.
PagesAgree ==
  LET all == Timeline(screen.filter)
      end == screen.start + Len(screen.shown)
  IN ~screen.torn =>
       /\ screen.shown # <<>> =>
            end <= Len(all) /\ screen.shown = SubSeq(all, screen.start + 1, end)
       /\ screen.done => end >= Len(all)
       /\ screen.topDone => screen.start = 0
================================================================================
