-------------------------------- MODULE Library --------------------------------
(***************************************************************************)
(* What an installation keeps, as one system: the documents of a root, the *)
(* folders of a photo root, the clean-up of duplicates, and the people in  *)
(* the photos.  The parts run in the same processes and on tables of their *)
(* own: a step of the library is a step of one of them.                    *)
(***************************************************************************)
EXTENDS Documents

CONSTANTS
  \* Folders; Requests, MaxId and MaxMade are those of Documents
  Dirs, FileNames, Sent, Stamped, Users, FolderUser,
  \* Dedup
  Copies, Sha, Rank, PageSize, ReadOnly, Admins, Cleaners, MaxJob, Days,
  \* Faces
  Photos, Shown, Small, FaceLabels, FirstFaces, FirstClusters, MaxFace, MaxCluster, MaxTurns

VARIABLES
  dirs, photoDisk, bin, rows, pending, folderRequest, folderScan, by, spent, strayed,
  status, onDisk, taken, cleanup, asked, cleaner, quiet, upset,
  photoStatus, faces, clusters, index, faceRequest, detector, rebuild, turns, drifted

Tree == INSTANCE Folders WITH
  Names <- FileNames, disk <- photoDisk, request <- folderRequest, scan <- folderScan

Cleanup == INSTANCE Dedup WITH
  Ids <- Copies, Workers <- Cleaners, job <- cleanup, worker <- cleaner, calm <- quiet

People == INSTANCE Faces WITH
  Names <- FaceLabels, status <- photoStatus, request <- faceRequest

treeVars    == <<dirs, photoDisk, bin, rows, pending, folderRequest, folderScan, by, spent,
                 strayed>>
cleanupVars == <<status, onDisk, taken, cleanup, asked, cleaner, quiet, upset>>
peopleVars  == <<photoStatus, faces, clusters, index, faceRequest, detector, rebuild, turns,
                 drifted>>
libraryVars == <<vars, treeVars, cleanupVars, peopleVars>>

\* What the parts assume of their constants.
ASSUME LibraryAssumption ==
  Tree!FoldersConstants /\ Cleanup!DedupConstants /\ People!FacesConstants

LibraryInit == Init /\ Tree!Init /\ Cleanup!Init /\ People!Init

LibraryNext ==
  \/ Next /\ UNCHANGED <<treeVars, cleanupVars, peopleVars>>
  \/ Tree!Next /\ UNCHANGED <<vars, cleanupVars, peopleVars>>
  \/ Cleanup!Next /\ UNCHANGED <<vars, treeVars, peopleVars>>
  \/ People!Next /\ UNCHANGED <<vars, treeVars, cleanupVars>>

LibrarySpec == LibraryInit /\ [][LibraryNext]_libraryVars

-------------------------------------------------------------------------------
(***************************************************************************)
(* The properties of the parts, under their names.                         *)
(***************************************************************************)
\* The types of each part.
TypesOK == TypeOK /\ Tree!TypeOK /\ Cleanup!TypeOK /\ People!TypeOK

\* A picture is on disk or in the trash, unless it was destroyed in a way that is named.
PicturesSurvive == Tree!PicturesSurvive

\* A photo is given to who uploaded it, or to the user its folder is named after.
OwnersUploaded == Tree!OwnersUploaded

\* Of every group of copies one stays where it was.
CopyStays == Cleanup!CopyStays

\* A cleanup that was left alone leaves no group with a copy it could have moved.
CleanupCleans == Cleanup!CleanupCleans

\* A cluster counts the faces that are in it.
FacesCounted == People!FacesCounted

\* A rebuild that was left alone puts each person's faces into one cluster.
RebuildRepairs == People!RebuildRepairs

\* Who has a new name can be searched for under it.
RenamesSearchable == People!RenamesSearchable
===============================================================================
