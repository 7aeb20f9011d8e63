-------------------------------- MODULE Listing --------------------------------
(***************************************************************************)
(* What the endpoints of app/api/routes_photos.py answer one viewer, who   *)
(* is no administrator and has no rule on a folder: the timeline's pages   *)
(* and years, the map's bubbles and what is in one, the counts beside      *)
(* tags, uploaders, folders and roots.  Each is a query of its own over    *)
(* the same rows; the pages, the years and the map share their filters,    *)
(* the markers and the tags have copies.  A place is a number: one         *)
(* coordinate stands for both.                                             *)
(***************************************************************************)
EXTENDS Integers, FiniteSetsExt, SequencesExt

CONSTANTS
  MaxPhoto,  \* bound: photos, numbered in the order of their ids
  Home,      \* of each photo: root, folder, owner, year, live (the video half of
             \* a Live Photo), sha; none of them changes
  Me,        \* the viewer
  Filters,   \* the filters the viewer uses
  MaxZoom,   \* zoom levels 0..MaxZoom; a cell of the last one is one unit wide
  Margin,    \* what the map shows around a place it opens on
  PageSize,
  CellLimit, NearbyLimit, MarkerLimit  \* as many photos an answer holds at most

VARIABLES
  table,   \* of each photo: status, visibility, thumb, place, text found in it, tags
  hidden   \* the roots hidden from the viewer
rows == <<table, hidden>>

PhotoIds == 1..MaxPhoto
Roots == {Home[p].root : p \in PhotoIds}
Years == {Home[p].year : p \in PhotoIds}
Uploaders == {Home[p].owner : p \in PhotoIds}
Folders == {Home[p].folder : p \in PhotoIds}
Tags == {"cat"}
Sources == {"user", "auto"}
Nowhere == -1

Row == [status : {"active", "trashed"}, vis : {"inherit", "private", "public"},
        thumb : BOOLEAN, place : Nat \cup {Nowhere}, text : {"pending", "some", "none"},
        tags : SUBSET (Sources \X Tags)]

\* A filter: sets of roots, years (0 is no date) and owners; `live' lists the videos
\* of Live Photos too, `gps' asks for photos with a place or without one, `text' for
\* photos with text or where none was found.
All == "all"
Filter == [root : SUBSET Roots, folder : Folders \cup {<<>>}, live : BOOLEAN,
           year : SUBSET Years, owner : SUBSET Uploaders, gps : {All, "some", "none"},
           text : {All, "some", "none"}, tag : Tags \cup {All}]
NoFilter == [root |-> Roots, folder |-> <<>>, live |-> FALSE, year |-> Years,
             owner |-> Uploaders, gps |-> All, text |-> All, tag |-> All]

Active(p) == table[p].status = "active"
Located(p) == table[p].place # Nowhere

\* The filter every list passes its query through.
Visible(p) ==
  CASE table[p].vis = "public" -> TRUE
    [] table[p].vis = "private" -> Home[p].owner = Me
    [] table[p].vis = "inherit" -> Home[p].root \notin hidden

\* _apply_scalar_filters, which the pages, the years and the map's queries call.
Scalar(f, p) ==
  /\ Home[p].root \in f.root
  /\ IsPrefix(f.folder, Home[p].folder)
  /\ f.live \/ ~Home[p].live
  /\ Home[p].year \in f.year
  /\ Home[p].owner \in f.owner
  /\ f.gps = All \/ (f.gps = "some") = Located(p)
  /\ f.text \in {All, table[p].text}

\* _apply_search_filters: a tag may be the user's or the ML worker's.
Search(f, p) == f.tag = All \/ \E s \in Sources : <<s, f.tag>> \in table[p].tags
--------------------------------------------------------------------------------
\* list_photos: the rows of a filter, latest first, undated ones last; one page.
Listed(f) == {p \in PhotoIds : Active(p) /\ Visible(p) /\ Scalar(f, p) /\ Search(f, p)}
Later(p, q) == Home[p].year > Home[q].year \/ (Home[p].year = Home[q].year /\ p > q)
Ordered(S, Before(_, _)) ==
  [i \in 1..Cardinality(S) |-> CHOOSE p \in S : Cardinality({q \in S : Before(q, p)}) = i - 1]
Timeline(f) == Ordered(Listed(f), Later)
Page(f, n) == LET t == Timeline(f) IN SubSeq(t, (n - 1) * PageSize + 1, Min({n * PageSize, Len(t)}))

\* Mutant of Histogram: the years count the videos of Live Photos, which the list leaves out.
HistogramWithVideos(f) ==
  [y \in Years |-> Cardinality({p \in PhotoIds :
     /\ Active(p) /\ Search(f, p) /\ Visible(p)
     /\ Scalar([f EXCEPT !.live = TRUE], p) /\ Home[p].year = y})]

\* date_histogram.
Histogram(f) ==
  LET found == {p \in PhotoIds : Active(p) /\ Search(f, p)}
  IN [y \in Years |-> Cardinality({p \in found :
        Active(p) /\ Visible(p) /\ Scalar(f, p) /\ Home[p].year = y})]

\* The map's photos are those with a place and a thumbnail, videos of Live Photos
\* included.
Mapped(f) ==
  {p \in PhotoIds : /\ Located(p) /\ Active(p) /\ table[p].thumb /\ Visible(p)
                    /\ Scalar([f EXCEPT !.live = TRUE], p) /\ Search(f, p)}

\* Cells of a zoom level; a bubble stands for the photos of the box in one cell.
Cell(zoom) == 2 ^ (MaxZoom - zoom)
Bin(zoom, x) == (x \div Cell(zoom)) * Cell(zoom)
Bubbles(f, zoom, box) ==
  LET inBox == {p \in Mapped(f) : table[p].place \in box}
  IN {[bin |-> b, photos |-> {p \in inBox : Bin(zoom, table[p].place) = b}] :
        b \in {Bin(zoom, table[p].place) : p \in inBox}}
Centre(b) == FoldSet(LAMBDA p, sum : sum + table[p].place, 0, b.photos) \div Cardinality(b.photos)

\* The first of some photos, latest first.
First(S, limit) == {p \in S : Cardinality({q \in S : Later(q, p)}) < limit}

\* list_photos_in_cell, whose upper edge is open by an epsilon.
AtCell(f, zoom, x) ==
  {p \in Mapped(f) : table[p].place \in Bin(zoom, x)..(Bin(zoom, x) + Cell(zoom))}
InCell(f, zoom, x, limit) == First(AtCell(f, zoom, x), limit)

\* list_nearby: the photos around one that has a place, whatever the filter.
Around(p) == {q \in Mapped(NoFilter) : table[q].place \in (table[p].place - Margin)..(table[p].place + Margin)}
Nearby(p) == First(Around(p), NearbyLimit)

\* list_locations: its copy of the filters knows neither places nor text.  It gives any
\* of the photos it finds, up to its limit.
Marked(f) ==
  {p \in PhotoIds : /\ Located(p) /\ Active(p) /\ table[p].thumb /\ Visible(p)
                    /\ Home[p].root \in f.root /\ IsPrefix(f.folder, Home[p].folder)
                    /\ Home[p].owner \in f.owner /\ Home[p].year \in f.year /\ Search(f, p)}
Markers(f) ==
  {S \in SUBSET Marked(f) : Cardinality(S) = Min({MarkerLimit, Cardinality(Marked(f))})}

\* locations_initial_bbox: the box around a fullest place.
InitialBoxes(f) ==
  LET at(x) == {p \in Mapped(f) : table[p].place = x}
      places == {table[p].place : p \in Mapped(f)}
  IN {(x - Margin)..(x + Margin) : x \in {y \in places :
        \A z \in places : Cardinality(at(z)) <= Cardinality(at(y))}}
--------------------------------------------------------------------------------
\* list_tags, with a copy of the filters: a count leaves out what is in a hidden root,
\* and looks at a photo's status only if there is a filter or a hidden root.
Filtered(f) == [f EXCEPT !.live = FALSE] # NoFilter
InTags(f, p) ==
  /\ Active(p) /\ Home[p].root \notin hidden
  /\ Home[p].root \in f.root /\ IsPrefix(f.folder, Home[p].folder)
  /\ Home[p].owner \in f.owner /\ Home[p].year \in f.year
  /\ f.gps # All => (f.gps = "some") = Located(p)
  /\ f.text # All => f.text = table[p].text
  /\ Search(f, p)
Tagged(f, source, tag) ==
  {p \in PhotoIds : /\ <<source, tag>> \in table[p].tags
                    /\ Filtered(f) \/ hidden # {} => InTags(f, p)}

\* list_uploaders, list_visible_roots.
UploadedBy(u) == {p \in PhotoIds : Active(p) /\ Visible(p) /\ Home[p].owner = u}
RootCount(r) == Cardinality({p \in PhotoIds : Active(p) /\ Home[p].root = r})

\* list_folders: the photos in a folder itself, and those under each folder in it.
Under(r, folder) ==
  {p \in PhotoIds : Home[p].root = r /\ Active(p) /\ IsPrefix(folder, Home[p].folder)}
Direct(r, folder) == {p \in Under(r, folder) : Home[p].folder = folder}
Children(r, folder) ==
  LET below == Under(r, folder) \ Direct(r, folder)
      name(p) == Home[p].folder[Len(folder) + 1]
  IN [n \in {name(p) : p \in below} |-> Cardinality({p \in below : name(p) = n})]

\* list_duplicates.
Copies(p) ==
  {q \in PhotoIds \ {p} : Active(q) /\ Home[q].sha = Home[p].sha /\ Home[q].root \notin hidden}
--------------------------------------------------------------------------------
(***************************************************************************)
(* Properties: what the screens show beside each other fits together.      *)
(***************************************************************************)
\* A year's bar is as long as the list of that year, and the bars add up to the
\* list the scrubber is drawn for.
YearsFit(f) ==
  /\ \A y \in Years : f.year = Years =>
       Histogram(f)[y] = Cardinality(Listed([f EXCEPT !.year = {y}]))
  /\ FoldFunction(+, 0, Histogram(f)) = Cardinality(Listed(f))

\* What is left out of the first of some photos are earlier ones than as many as the
\* limit allows.
FitsIn(S, answer, limit) ==
  \A p \in S \ answer : Cardinality(answer) = limit /\ \A q \in answer : Later(q, p)

\* A bubble opens the photos it stands for, the latest of them if they are too many or
\* if it asks for no more than it counts, besides those on the edge of the next cell;
\* the map shows what the list shows if it has a place and a thumbnail; its markers are
\* the same photos, but for the two filters they do not know and as many as there may
\* be; a marker opens photos around it, itself among them unless there are too many;
\* and the map opens on some of its photos.
MapFits(f) ==
  /\ \A zoom \in 0..MaxZoom : \A b \in Bubbles(f, zoom, Nat) :
       \A limit \in {CellLimit, Min({CellLimit, Cardinality(b.photos)})} :
         LET opened == InCell(f, zoom, Centre(b), limit)
         IN /\ FitsIn(b.photos, opened, limit)
            /\ \A p \in opened \ b.photos : table[p].place = b.bin + Cell(zoom)
  /\ Mapped(f) = {p \in Listed([f EXCEPT !.live = TRUE]) : Located(p) /\ table[p].thumb}
  /\ \A S \in Markers(f) :
       /\ S \subseteq Mapped([f EXCEPT !.gps = All, !.text = All])
       /\ f.gps # "none" /\ f.text = All /\ Cardinality(Mapped(f)) <= MarkerLimit => S = Mapped(f)
  /\ \A p \in Mapped(f) : FitsIn({p}, Nearby(p), NearbyLimit)
  /\ Mapped(f) # {} => \A box \in InitialBoxes(f) : Bubbles(f, 0, box) # {}

\* The counts beside a tag, an uploader, a folder and a root are those of the list
\* they lead to, with Live Photos' videos; but what a photo's own visibility adds to
\* the list or takes from it is counted by the uploaders' only, and the tags of no
\* filter count what is no longer active.
CountsFit(f) ==
  LET all == [f EXCEPT !.live = TRUE]
      everything == [NoFilter EXCEPT !.live = TRUE]
      plain == {p \in PhotoIds : table[p].vis = "inherit"}
  IN /\ \A u \in Uploaders : UploadedBy(u) = Listed([everything EXCEPT !.owner = {u}])
     /\ Filtered(f) /\ f.tag = All => \A t \in Tags :
          plain \cap UNION {Tagged(f, s, t) : s \in Sources} = plain \cap Listed([all EXCEPT !.tag = t])
     /\ \A r \in Roots \ hidden, folder \in Folders \cup {<<>>} :
          /\ plain \cap Under(r, folder) =
               plain \cap Listed([everything EXCEPT !.root = {r}, !.folder = folder])
          /\ Cardinality(Direct(r, folder)) + FoldFunction(+, 0, Children(r, folder)) =
               IF folder = <<>> THEN RootCount(r) ELSE Cardinality(Under(r, folder))

\* For every filter, the answers of the endpoints of routes_photos.py fit together:
\* years with the list, bubbles with what they open, counts with the lists they lead to.
CountsAgree == \A f \in Filters : YearsFit(f) /\ MapFits(f) /\ CountsFit(f)
================================================================================
