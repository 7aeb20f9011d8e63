-------------------------------- MODULE Metadata --------------------------------
(***************************************************************************)
(* What photo files say about themselves (place, time, orientation) and    *)
(* the copy of it in the database.  Administrators write both, the index   *)
(* stage reads the file again after the scanner has seen a change, and the *)
(* estimator fills in places the files do not name.  An edit takes a file  *)
(* and a database write with a pause between, and moves the signature on,  *)
(* so that the scanner takes the file for known.                           *)
(***************************************************************************)
EXTENDS Integers, FiniteSets

CONSTANTS
  Photos,
  Places,     \* coordinates
  Times,      \* capture times
  Turns,      \* how far a rotation may turn: some of 1..3, in quarters
  Sessions,   \* requests and worker threads, each with a database session
  MaxVersion  \* bound: versions of one file

VARIABLES
  file,     \* each file: its version, and its tags
  row,      \* each row of photos, with that of photo_locations
  session,  \* what each session does, and what it has loaded
  late      \* history: what of a photo no later scan corrects, see below

vars == <<file, row, session, late>>

None  == "none"
Guess == "guess"

Version == 0..MaxVersion
Tags    == [gps : Places \cup {None}, taken : Times \cup {None}, turn : 0..3]
File    == [version : Version, tags : Tags]

NoLoc == [at |-> None, source |-> None]
\* A source of NULL counts as `exif'.
Loc   == [at : Places \cup {Guess}, source : {"exif", "null", "estimated"}]

\* `sig' is the version the row knows, `pending' is exif_status, `original' is
\* taken_at_original.
Row == [sig : Version, pending : BOOLEAN, taken : Times \cup {None},
        original : Times \cup {None}, turn : 0..3, loc : Loc \cup {NoLoc}]

\* A place is a place; a rotation turns by quarters.
MetadataConstants ==
  /\ MaxVersion \in Nat /\ Turns \subseteq 0..3
  /\ None \notin Places /\ Guess \notin Places

Edits == {"gps", "taken", "rotate"}
Idle  == [op |-> "idle"]
Busy  == [op : Edits \cup {"index", "estimate", "scan"}, photo : Photos,
          pc : {"work", "commit"}, want : Places \cup Times \cup {None}, by : 0..3,
          seen : Row, version : Version, tags : Tags]

TypeOK ==
  /\ file \in [Photos -> File]
  /\ row \in [Photos -> Row]
  /\ session \in [Sessions -> Busy \cup {Idle}]
  /\ late \in [Photos -> SUBSET {"tags", "loc"}]

Init ==
  /\ \E place \in Places \cup {None}, t \in Times :
       file = [p \in Photos |->
                [version |-> 0, tags |-> [gps |-> place, taken |-> t, turn |-> 0]]]
  /\ row = [p \in Photos |-> [sig |-> 0, pending |-> TRUE, taken |-> None,
                              original |-> None, turn |-> 0, loc |-> NoLoc]]
  /\ session = [s \in Sessions |-> Idle]
  /\ late = [p \in Photos |-> {}]

-------------------------------------------------------------------------------
Begin(s, op, pc, p, want, by) ==
  /\ session[s] = Idle
  /\ session' = [session EXCEPT ![s] =
       [op |-> op, photo |-> p, pc |-> pc, want |-> want, by |-> by, seen |-> row[p],
        version |-> file[p].version, tags |-> file[p].tags]]
  /\ UNCHANGED <<file, row, late>>

At(s, op, pc) == session[s].op = op /\ session[s].pc = pc
Ends(s)       == session' = [session EXCEPT ![s] = Idle]

\* A session writes a column only if it changed what it had loaded.
Put(now, seen, new) == IF new = seen THEN now ELSE new

\* The location was made or deleted under the session: its INSERT or UPDATE fails.
Clash(s) == (session[s].seen.loc = NoLoc) # (row[session[s].photo].loc = NoLoc)

Marks(p, what) == late' = [late EXCEPT ![p] = @ \cup what]

-------------------------------------------------------------------------------
(***************************************************************************)
(* Edits: set_gps and bulk_gps (None clears), set_taken_at (None reverts   *)
(* to the original), bulk_rotate.                                          *)
(***************************************************************************)
GpsBegin(s, p, place) == Begin(s, "gps", "work", p, place, 0)
RotateBegin(s, p, d)  == Begin(s, "rotate", "work", p, None, d)
TakenBegin(s, p, t) ==
  /\ t = None => row[p].original # None
  /\ Begin(s, "taken", "work", p, IF t = None THEN row[p].original ELSE t, 0)

\* The orientation is the row's, turned on.
Turned(s) == (session[s].seen.turn + session[s].by) % 4

Written(s) ==
  LET tags == file[session[s].photo].tags
  IN CASE session[s].op = "gps"    -> [tags EXCEPT !.gps = session[s].want]
       [] session[s].op = "taken"  -> [tags EXCEPT !.taken = session[s].want]
       [] session[s].op = "rotate" -> [tags EXCEPT !.turn = Turned(s)]

\* ExifTool replaces the file; then the location is looked up.
EditFile(s) ==
  LET p == session[s].photo
  IN /\ session[s].op \in Edits /\ session[s].pc = "work"
     /\ file[p].version < MaxVersion
     /\ file' = [file EXCEPT ![p] = [version |-> @.version + 1, tags |-> Written(s)]]
     /\ session' = [session EXCEPT ![s].pc = "commit", ![s].version = file[p].version + 1,
                                   ![s].seen.loc = row[p].loc]
     /\ UNCHANGED <<row, late>>

\* Nobody else wrote the file, and the row knew the version before or knows this one.
Alone(s) ==
  LET p == session[s].photo  v == session[s].version
  IN file[p].version = v /\ row[p].sig \in {v - 1, v}

\* _refresh_file_signature: whatever version the file has by now.
RefreshedSignature(p) == file[p].version

\* A location that was estimated stays labelled so.  An UPDATE that changes nothing is
\* not sent, and a DELETE of what is gone does not fail.
GpsCommit(s) ==
  LET p == session[s].photo
      seen == session[s].seen.loc
      place == session[s].want
      new == IF seen = NoLoc THEN [at |-> place, source |-> "null"] ELSE [seen EXCEPT !.at = place]
      loc == CASE place = None -> IF seen = NoLoc THEN row[p].loc ELSE NoLoc
               [] place # None /\ seen = NoLoc -> new
               [] place # None /\ seen # NoLoc -> [row[p].loc EXCEPT !.at = Put(@, seen.at, place)]
  IN /\ At(s, "gps", "commit")
     /\ Ends(s)
     /\ IF place # None /\ new # seen /\ Clash(s) THEN UNCHANGED <<row, late>>
        ELSE /\ row' = [row EXCEPT ![p].loc = loc, ![p].sig = RefreshedSignature(p)]
             /\ Marks(p, (IF Alone(s) THEN {} ELSE {"tags", "loc"})
                         \cup (IF loc.source = "estimated" \/ row[p].loc # seen
                                 THEN {"loc"} ELSE {}))
     /\ UNCHANGED file

\* The first edit keeps the time the row had; a revert drops it.
TakenCommit(s) ==
  LET p == session[s].photo
      seen == session[s].seen
      reverts == session[s].want = seen.original /\ seen.original # None
      original == IF reverts THEN None
                  ELSE IF seen.original = None THEN seen.taken ELSE seen.original
  IN /\ At(s, "taken", "commit")
     /\ row' = [row EXCEPT ![p].taken = Put(@, seen.taken, session[s].want),
                           ![p].original = Put(@, seen.original, original),
                           ![p].sig = RefreshedSignature(p)]
     /\ Marks(p, IF Alone(s) /\ row[p].taken = seen.taken THEN {} ELSE {"tags", "loc"})
     /\ Ends(s)
     /\ UNCHANGED file

\* The signature is the one the file had when it was hashed again.
RotateCommit(s) ==
  LET p == session[s].photo  seen == session[s].seen
  IN /\ At(s, "rotate", "commit")
     /\ row' = [row EXCEPT ![p].turn = Put(@, seen.turn, Turned(s)),
                           ![p].pending = @ \/ ~seen.pending,
                           ![p].sig = Put(@, seen.sig, session[s].version)]
     /\ Marks(p, IF row'[p].pending THEN {} ELSE {"tags", "loc"})
     /\ Ends(s)
     /\ UNCHANGED file

-------------------------------------------------------------------------------
(***************************************************************************)
(* The scanner sees another version; the index stage reads the file.       *)
(***************************************************************************)
ScanBegin(s, p) == row[p].sig # file[p].version /\ Begin(s, "scan", "commit", p, None, 0)

\* Rows are committed in batches, after other files were visited.
ScanCommit(s) ==
  LET p == session[s].photo
  IN /\ At(s, "scan", "commit")
     /\ row' = [row EXCEPT ![p].sig = session[s].version,
                           ![p].pending = @ \/ ~session[s].seen.pending]
     /\ Marks(p, IF row'[p].pending THEN {} ELSE {"tags", "loc"})
     /\ Ends(s)
     /\ UNCHANGED file

IndexBegin(s, p) == row[p].pending /\ Begin(s, "index", "work", p, None, 0)

IndexExtract(s) ==
  LET p == session[s].photo
  IN /\ At(s, "index", "work")
     /\ session' = [session EXCEPT ![s].pc = "commit", ![s].version = file[p].version,
                      ![s].tags = file[p].tags, ![s].seen.loc = row[p].loc]
     /\ UNCHANGED <<file, row, late>>

\* No tool can read the file: it is not tried again before the file changes.
IndexUnread(s) ==
  LET p == session[s].photo
  IN /\ At(s, "index", "work")
     /\ row' = [row EXCEPT ![p].pending = FALSE]
     /\ Marks(p, {"tags", "loc"})
     /\ Ends(s)
     /\ UNCHANGED file

\* Mutant of Extracted: a place that was estimated is kept.
ExtractedNew(tags, seen, now) ==
  IF tags.gps = None \/ seen # NoLoc THEN now ELSE [at |-> tags.gps, source |-> "exif"]

\* A place in the file replaces whatever location there is; no place leaves it.
Extracted(tags, seen, now) ==
  IF tags.gps = None THEN now
  ELSE [at     |-> IF seen # NoLoc /\ seen.at = tags.gps THEN now.at ELSE tags.gps,
        source |-> IF seen # NoLoc /\ seen.source = "exif" THEN now.source ELSE "exif"]

IndexCommit(s) ==
  LET p == session[s].photo
      tags == session[s].tags
      seen == session[s].seen
      taken == IF tags.taken = None THEN seen.taken ELSE tags.taken
  IN /\ At(s, "index", "commit")
     /\ Ends(s)
     /\ IF tags.gps # None /\ seen.loc # [at |-> tags.gps, source |-> "exif"] /\ Clash(s)
          THEN UNCHANGED <<row, late>>
        ELSE /\ row' = [row EXCEPT ![p].taken = Put(@, seen.taken, taken),
                                   ![p].turn = Put(@, seen.turn, tags.turn),
                                   ![p].loc = Extracted(tags, seen.loc, @),
                                   ![p].pending = FALSE]
             /\ Marks(p, IF \/ row[p].sig > session[s].version
                            \/ row[p].taken # seen.taken \/ row[p].turn # seen.turn
                            \/ row[p].loc # seen.loc
                           THEN {"tags", "loc"} ELSE {})
     /\ UNCHANGED file

-------------------------------------------------------------------------------
(***************************************************************************)
(* Estimates, from neighbours that are left out: whether one is found is   *)
(* open.                                                                   *)
(***************************************************************************)
EstimateBegin(s, p) == row[p].taken # None /\ Begin(s, "estimate", "commit", p, None, 0)

\* Mutant of Estimable: a location of a file without a label counts as estimated.
EstimableUnlabelled(loc) == loc.source \in {None, "null", "estimated"}

\* Only an estimate may be replaced.
Estimable(loc) == loc = NoLoc \/ loc.source = "estimated"

EstimateCommit(s) ==
  LET p == session[s].photo  seen == session[s].seen.loc
  IN /\ At(s, "estimate", "commit")
     /\ Ends(s)
     /\ IF ~Estimable(seen) \/ Clash(s) THEN UNCHANGED <<row, late>>
        ELSE /\ row' = [row EXCEPT ![p].loc = IF seen = NoLoc
                          THEN [at |-> Guess, source |-> "estimated"]
                          ELSE [@ EXCEPT !.at = Guess]]
             /\ Marks(p, IF row[p].loc = seen THEN {} ELSE {"loc"})
     /\ UNCHANGED file

\* delete_estimated_location.
Reject(p) ==
  /\ row[p].loc.source = "estimated"
  /\ row' = [row EXCEPT ![p].loc = NoLoc]
  /\ UNCHANGED <<file, session, late>>

-------------------------------------------------------------------------------
\* ExifTool or the database fails, or the process goes down.
Fails(s) == session[s] # Idle /\ Ends(s) /\ UNCHANGED <<file, row, late>>

\* Another program writes one of the tags.
Rewrites(tags) ==
  {[tags EXCEPT !.gps = place] : place \in Places \cup {None}}
    \cup {[tags EXCEPT !.taken = t] : t \in Times \cup {None}}
    \cup {[tags EXCEPT !.turn = (@ + d) % 4] : d \in Turns}

Outside(p, tags) ==
  /\ file[p].version < MaxVersion
  /\ file' = [file EXCEPT ![p] = [version |-> @.version + 1, tags |-> tags]]
  /\ UNCHANGED <<row, session, late>>

Work(s) ==
  \/ EditFile(s) \/ GpsCommit(s) \/ TakenCommit(s) \/ RotateCommit(s)
  \/ ScanCommit(s) \/ IndexExtract(s) \/ IndexUnread(s) \/ IndexCommit(s) \/ EstimateCommit(s)
  \/ Fails(s)

Ask(s, p) ==
  \/ \E place \in Places \cup {None} : GpsBegin(s, p, place)
  \/ \E t \in Times \cup {None} : TakenBegin(s, p, t)
  \/ \E d \in Turns : RotateBegin(s, p, d)
  \/ ScanBegin(s, p) \/ IndexBegin(s, p) \/ EstimateBegin(s, p)

Next ==
  \/ \E s \in Sessions : Work(s) \/ \E p \in Photos : Ask(s, p)
  \/ \E p \in Photos : Reject(p) \/ \E tags \in Rewrites(file[p].tags) : Outside(p, tags)

Spec == Init /\ [][Next]_vars

-------------------------------------------------------------------------------
\* Nothing is left to do for the photo: the scanner takes its file for known, the
\* index stage has read it, and nobody is at work on it.
Settled(p) ==
  /\ row[p].sig = file[p].version /\ ~row[p].pending
  /\ \A s \in Sessions : session[s] # Idle => session[s].photo # p

\* The file is the source of truth: once a photo is settled, its row shows the time,
\* the orientation and the place that are in the file, through failed edits, other
\* programs' writes, scans and estimates; unless sessions overlapped on it, an edit
\* moved the signature past a change no scan had seen, or an administrator's place
\* was put into an estimated row.
TagsAgree ==
  \A p \in Photos : Settled(p) =>
    LET tags == file[p].tags IN
      /\ "tags" \notin late[p] =>
           row[p].turn = tags.turn /\ (tags.taken # None => row[p].taken = tags.taken)
      /\ "loc" \notin late[p] /\ tags.gps # None => row[p].loc.at = tags.gps

\* A place that was read from a file or set by an administrator never becomes a guess,
\* unless it is labelled as one, or it came to a row under an estimate's hands.
GuessesYield ==
  [][\A p \in Photos :
       row[p].loc.at \in Places /\ row'[p].loc.at = Guess =>
         row[p].loc.source = "estimated" \/ "loc" \in late'[p]]_vars
===============================================================================
