------------------------------- MODULE Services --------------------------------
(***************************************************************************)
(* What an installation offers, as one system: public links, accounts and  *)
(* sessions, access control, edits of what a photo's file says, the        *)
(* gallery a viewer scrolls, and classification.  The parts run in the     *)
(* same processes and on tables of their own: a step of the services is a  *)
(* step of one of them.                                                    *)
(***************************************************************************)
EXTENDS Shares

CONSTANTS
  \* Accounts
  UserNames, Seed, Browsers, WebThreads, MaxUser, MaxHash, Threshold, PerAddress, MaxFails,
  \* Acl
  RootPhotos, PathOf, Mine, RuleFolders, Levels, Similar,
  \* Metadata
  TaggedPhotos, Coordinates, Times, Turns, Editors, MaxVersion,
  \* Gallery
  MaxPhoto, Origin, Me, Filters, MaxZoom, Margin, PageSize, CellLimit, NearbyLimit,
  MarkerLimit, Tables, GivenPlaces, MaxCalls, MaxStarts, MaxChanges,
  \* Classify
  SeenPhotos, Walk, Ocr, Asks, Retries, Threads, MaxRequests, MaxFaults

VARIABLES
  users, session, request, recent, hashes, seeds, fails, raced,
  admin, visibility, rootRule, folderRule, check, seen, moved,
  photoFile, photoRow, editor, stale,
  table, veiled, screen, calls, changes,
  images, hashed, col, rolled, queued, thread, ask, work, retry, asks, faults, owed, drifted

Signing == INSTANCE Accounts WITH
  Names <- UserNames, Requests <- WebThreads, MaxId <- MaxUser, PerIp <- PerAddress,
  cookie <- session

Access == INSTANCE Acl WITH
  Photos <- RootPhotos, Home <- PathOf, Folders <- RuleFolders

Tagging == INSTANCE Metadata WITH
  Photos <- TaggedPhotos, Places <- Coordinates, Sessions <- Editors,
  file <- photoFile, row <- photoRow, session <- editor, late <- stale

Browsing == INSTANCE Gallery WITH
  Home <- Origin, Places <- GivenPlaces, MaxEdits <- MaxChanges, hidden <- veiled,
  edits <- changes

Vision == INSTANCE Classify WITH
  Photos <- SeenPhotos, request <- ask, requests <- asks

signingVars  == <<users, session, request, recent, hashes, seeds, fails, raced>>
accessVars   == <<admin, visibility, rootRule, folderRule, check, seen, moved>>
taggingVars  == <<photoFile, photoRow, editor, stale>>
browsingVars == <<table, veiled, screen, calls, changes>>
visionVars   == <<images, hashed, col, rolled, queued, thread, ask, work, retry, asks, faults,
                  owed, drifted>>
servicesVars == <<vars, signingVars, accessVars, taggingVars, browsingVars, visionVars>>

\* What the parts assume of their constants.
ASSUME ServicesAssumption ==
  /\ Signing!AccountsConstants /\ Access!AclConstants /\ Tagging!MetadataConstants
  /\ Browsing!GalleryConstants /\ Vision!ClassifyConstants

ServicesInit ==
  Init /\ Signing!Init /\ Access!Init /\ Tagging!Init /\ Browsing!Init /\ Vision!Init

ServicesNext ==
  \/ Next /\ UNCHANGED <<signingVars, accessVars, taggingVars, browsingVars, visionVars>>
  \/ Signing!Next /\ UNCHANGED <<vars, accessVars, taggingVars, browsingVars, visionVars>>
  \/ Access!Next /\ UNCHANGED <<vars, signingVars, taggingVars, browsingVars, visionVars>>
  \/ Tagging!Next /\ UNCHANGED <<vars, signingVars, accessVars, browsingVars, visionVars>>
  \/ Browsing!Next /\ UNCHANGED <<vars, signingVars, accessVars, taggingVars, visionVars>>
  \/ Vision!Next /\ UNCHANGED <<vars, signingVars, accessVars, taggingVars, browsingVars>>

ServicesSpec == ServicesInit /\ [][ServicesNext]_servicesVars

-------------------------------------------------------------------------------
(***************************************************************************)
(* The properties of the parts, under their names.                         *)
(***************************************************************************)
\* The types of each part.
TypesOK ==
  /\ TypeOK /\ Signing!TypeOK /\ Access!TypeOK /\ Tagging!TypeOK /\ Browsing!TypeOK
  /\ Vision!TypeOK

\* An administrator who can sign in remains, unless two removals raced.
AdminRemains == Signing!AdminRemains

\* Who is signed in knew the password.
SignedInKnow == Signing!SignedInKnow

\* A check answers a level the photo had while it was under way.
AnswersHeld == Access!AnswersHeld

\* A row says what the photo's file says.
TagsAgree == Tagging!TagsAgree

\* A guessed place never takes the place of one that is known.
GuessesYield == Tagging!GuessesYield

\* The pages of the timeline agree with the listing.
PagesAgree == Browsing!PagesAgree

\* The answers of the gallery's endpoints fit together.  They are read from the tables
\* alone, so they are looked at while the timeline shows nothing, as soon as the library
\* changed or nothing is under way.
CountsAgree ==
  /\ screen = Browsing!Opened(screen.filter, 0) /\ \A c \in calls : c.pc = "sent"
  /\ changes > 0 \/ calls = {}
  => Browsing!CountsAgree

\* A stage that was asked for is come to, or given up in a way that is named, and no
\* roll-up is left behind.
StagesSettle == Vision!StagesSettle
===============================================================================
