# MyPhotos: specifications, model checking and proofs

TLA+ modules for the parts of MyPhotos whose correctness depends on several
processes taking steps in an order nobody wrote down: the job queue, the
per-photo stage queue and the classification it feeds, the catalogue of files and
its trash, the watcher, documents, folders, duplicate cleanup, metadata edits,
people, public links, accounts, access rules and the timeline.

## 1. The system

Four services share one SQLite database (WAL mode) and the file system: the
**api** (FastAPI), the **watcher** (watchdog observers), the **worker**
(dispatcher threads, per-stage thread pools, a scheduler) and the **ml-worker**.
They do not call one another. A request is a row in `jobs` or `photo_work`, a
result is a change of a row, a file or a directory. A transaction of SQLite is
short, so every protocol among the services is made of several of them:
claim / work / settle, SELECT / INSERT, move a file / commit the row.

Four facts about the database layer (`app/db.py`) shape every module:

* no `BEGIN` precedes a SELECT, so what a session has read may be stale when it writes;
* a session keeps a row it has loaded until one of its own commits expires it, and an
  UPDATE writes only the columns whose value differs from the loaded one;
* `autoflush=False`: a query does not see what the session has changed but not flushed;
* ids of deleted rows are given out again (largest id plus one).

| Component | State | Operations | Shares state with | Hard behaviours | What makes it correct |
|---|---|---|---|---|---|
| Job queue, dispatchers (`worker/jobs.py`, `worker/dispatcher.py`, `admin/routes_jobs.py`) | table `jobs`: status, claim_token, started_at (the lease), priority; each thread's job | enqueue, enqueue_discover_root, enqueue_unique_for_photo, claim_one, complete, fail, renew_lease, reclaim_stale, purge, cancel | every service, through the table | leases and heartbeats, retries after "database is locked", thread death, crashes, ids that SQLite gives out again | one thread per job; an accepted request is not lost; a job is settled by its owner; every job ends |
| ML dispatcher (`worker_ml/dispatcher.py`) | the same table, no heartbeat | the same loop | job queue | a job longer than the lease | one thread per job (does not hold) |
| Stage queue (`worker/photo_work.py`) | table `photo_work`: a JSON map of stages, claim_token, claimed_at, priority; sessions' cached rows | enqueue_stage, claim_one_for_stage, the stage handlers, write, release, finish, reclaim_stale | API, scanner, indexer, bulk jobs | whole-map writes from cached rows, batch commits, deletion of the photo under a thread | a pending stage is run; claims end |
| Classification (`worker_ml/jobs.py`, `admin/routes_ml.py`, `admin/routes_indexing.py`) | status columns of `photos`, `classify_ml` jobs | enqueue_classify, _maybe_auto_enqueue, bulk_retry_stage, hand-off, run_classify_ml, roll-up | stage queue, job queue | requests coalesced into a running job, cached rows, jobs that start again | a stage asked for is come to, or given up for a reason the code has; the roll-up says what the columns say |
| Scanner (`scanner/discover.py`) | table `photos`, the walk's snapshot | discover_root: snapshot, walk, batch commits, reconcile | indexer, trash, disk | a walk takes minutes while rows and files change | rows follow the disk, trashed photos stay in the trash |
| Indexer, ingest dedup (`worker/index_file.py`) | `photos` | status guard, existence check, hash, duplicate check, self-trashing | scanner, trash, disk | reads that are stale when used | the last copy of a picture stays |
| Trash (`api/routes_photos.py`, `admin/routes_trash.py`) | `photos`, `data/trash/<id>/` | trash, restore, purge, empty, repair | scanner, indexer, disk | a crash or a failed commit between moves and commit; two requests on one photo | what is in the trash can be restored |
| Duplicate cleanup (`worker/dedup_cleanup.py`, `admin/routes_duplicates.py`) | `photos`, `dedup_cleanup` jobs | start, cancel, rounds of selection and trashing | job queue, indexer, users | a cancelled cleanup that has not noticed, beside a new one | a copy of each picture stays; no movable copy is left |
| Watcher (`watcher/main.py`, `watcher/coalescer.py`) | last event and in-flight set per root, in memory | touch, drain_due, enqueue if idle, clear in-flight, catch-up at start | `jobs` | events during a scan, rounds that fail, restarts | every change is scanned in the end, scans do not pile up |
| Scheduler (`worker/main.py`) | none | due-scan tick, job retention, stage-queue sweeper | `jobs`, `photo_work` | ticks beside slow work | in the modules of the tables it writes |
| Metadata (`api/routes_photos.py`, `worker/exif_write.py`, `worker/rotate.py`, `worker/location_estimator.py`, `worker/index_file.py`) | tags in the file, `photos`, `photo_locations`, the signature | set_gps, set_taken_at, rotate, scan, EXIF extraction, estimate, reject | indexer, scanner, disk | a file write and a commit far apart; edits that make a scan take the file for known | the row shows what the file says; a known place never becomes a guess |
| People (`worker_ml/faces.py`, `worker_ml/jobs.py`, `admin/routes_ml.py`, `fts.py`) | `photo_faces`, `face_clusters`, `photo_fts` | detect, recluster_all, rename, merge, delete, add_face, patch_face, delete_face | classification, trash | a rebuild in many commits beside corrections, unflushed changes | counts; one person, one cluster after a rebuild; a renamed person is found |
| Documents (`worker/index_generic.py`, `api/routes_files.py`, `scanner/discover.py`) | `files`, the disk, `data/trash/files/` | upload, rename, copy, move, delete, folder moves, scan, hash job | job queue, disk | a free name that is taken later; crashes between move and commit; a hash of a file that changed | no document is destroyed; a scan repairs; hash and content agree |
| Folders, uploads (`admin/routes_folders.py`) | directories, `photos`, `uploads_pending` | create, rename, delete, upload, scan | scanner, trash | a delete whose moves fail, notes about files that went elsewhere, owners by note or by folder | no picture is destroyed; a photo is given to who uploaded it, or to whom its folder is named after |
| Shares (`shares.py`) | `shares`, `share_items`, sessions' unlocked links, the throttle | create, patch, revoke, delete, purge, visits | photos, documents | a row read once per visit; a throttle around bcrypt; a purge by id | the cap holds; locations stay; guesses are bounded; purges spare live links |
| Accounts (`auth.py`, `api/routes_setup.py`) | `users`, cookies, failed logins | login, setup, change, reset, create, promote, demote, delete, restart | everything | a commit long after the checks; ids used again | an administrator remains; who is signed in knew the password |
| Access (`auth_acl.py`) | users, visibility, `root_acl`, `folder_acl` | the guard of one photo, of a batch, the filter of lists; edits | every endpoint | several queries, three computations | they agree with what the rules said |
| Timeline, map, lists (`api/routes_photos.py`, `web/static/js/pages/index.js`) | the page's window on the list, fetches under way | pages, jumps, filters, deletions in place; histogram, map, counts | photos | answers that come late or out of order; endpoints with filters and limits of their own | one stretch of the list is shown; counts fit the lists |

Not modelled: video proxies, thumbnails and export, settings, audit, migrations,
scripts, the desktop launcher. Section 8 says why; `PROJECT.json` lists each.

## 2. Modules

```
JobQueue ------------- LeasedJobs          (JobQueue implements LeasedJobs)
  |-- MCJobQueue, MCMlQueue                (instances)
  '-- JobQueueProofs
PhotoWork -- MCPhotoWork, PhotoWorkProofs
Catalog ---- MCCatalog, CatalogProofs
Watcher ---- MCWatcher, WatcherProofs

Shares ------------.
Accounts ----------|
Acl ---------------|
Metadata ----------+-- Services -- MCServices
Listing -- Gallery-|      '-- PartsProofs -- ServicesProofs
Classify ----------'
Documents (DocumentsProofs) -.
Folders ---------------------+-- Library (LibraryProofs) -- MCLibrary
Dedup -----------------------|
Faces -----------------------'
```

**Services** and **Library** compose what an installation has of these: `Services` extends
Shares and has an instance of each of the five others, `Library` extends Documents and has three. The
constants and variables that two parts would share by name alone are renamed in the `INSTANCE`.
The parts run in the same processes on tables of their own, so a step of the whole
is a step of one part that leaves the others alone; what each part assumes of its constants is
assumed by the whole.

Definitions have the source's names where it has one; `PROJECT.json` maps each
to its lines. In a module, a definition marked "Mutant of X" is X with a
plausible bug in it; nothing uses it but the tests that the properties can fail.
History variables only record what happened; no guard reads them.

**JobQueue** has one action per SQL statement with its commit. `claim_one` is
two statements and so two actions: `Claim` (the UPDATE that stamps a token) and
`Begin` or `ClaimLost` (the SELECT by that token). The enqueue helpers are
`Coalesce`, or `Decide` followed by `Insert`: a SELECT and an INSERT between which
anything may happen. What tells the three helpers apart is data: a request says
which live rows stand in for it (`covers`) and whether it raises their priority.
`Complete` is guarded by `status = 'running'` as in the code and `Fail` is not;
both go by the row's id. `Insert` gives the id after the largest one present, as
SQLite does without AUTOINCREMENT, so purged ids return. Time is a `Tick` that
ages running rows and threads' timers; the daemon heartbeat thread is the action
`Renew`. `owed` is a history variable: the works that somebody is owed a run of.

**LeasedJobs** is the promise of a queue to its users with no tokens, leases,
heartbeats or time: a job waits, is held by one worker and settled by it, and is
handed on only when its worker is gone. `JobQueue!KeepsPromise` maps a row's
status to a phase, and the threads at work on it to a holder.

**PhotoWork** models the ORM session as well as the table, since that is where
the difficulty is: a session keeps the row it loaded until one of its own commits
expires it (`cached`, `seen`), and writes the whole stage map back. Clients'
sessions (`batch`) read, merge and commit; a batch is written as a whole or
fails as a whole. Pool threads follow `_process_single_stage` step by step,
with a handler that may commit, hand a later stage on, succeed or fail, and that may take
longer than its lease: `overrun` is a history variable, the photos that happened to.

**Catalog** models one photo root: `disk`, `bin` (the trash folders), `rows`,
one scan, index threads, and requests that move files first and commit last.
Contents stand for size, mtime and SHA; `sig` is what the row last recorded of
the file and `sha` what was hashed, which a changed file keeps. `Rename` and
`Edit` are other programs at work on the root. `cut` is a history variable:
photos whose file move and commit came apart, or which a repair marked from
a stale read.

**Watcher** models the debouncer's marks, the dispatcher's round statement by
statement, the `jobs` table as far as `discover_root` jobs go, the due tick, an
administrator's scans, and the scans. `stale` holds roots with a change that no
scan begun after it has finished; `dropped` is a history variable, the stale
roots whose mark was lost.

**Shares.** A visit reads its link's row once (`Resolve`), takes a slot by the guarded
UPDATE of `_atomic_consume_download`, and sends; owners patch, revoke and delete, a purge
reads the rows and deletes by id, and ids return. Each route (original, file, video, zip,
unlock) has its own order of these steps. `open`, `steady` and `reused` are history.

**Accounts.** A request is the checks it makes (`read`, the row as it was) and a commit
later: bcrypt or a count lies between. Cookies carry the fingerprint of the password hash.
`overtaken` and `raced` are history.

**Acl.** The level of one user on the photos of one root by `effective` rules asked of
SQL (one photo), of copied tables (a batch) and of the list's filter; each query is a step,
and an administrator edits rules between them. LIKE's wildcards and case are `Similar`.

**Metadata.** One version number per file write; `row` has what the table says, the
signature included, `session` what each session loaded. Edits write the file, then the row,
then move the signature on; the scanner compares signatures; the index stage extracts; an
estimate is computed from a row and written by UPDATE. `late` says what no later scan corrects.

**Listing and Gallery.** Listing holds the answers of the endpoints as operators over one
table. The list, the histogram and the map's queries call `_apply_scalar_filters`, one helper in the
code and one operator (`Scalar`) here; `list_tags` and `list_locations` have filters of their
own, and so have `InTags` and `Marked`. Answers are cut at a limit where the code's are (a cell's
photos, nearby photos, markers). Gallery adds the page: what is shown, the page numbers it has reached in both
directions, its flags, and the fetches under way, each of which carries what it was asked.

**Classify.** A thread of the ML worker walks the stages with the row its session has
loaded; `row = NoRow` is a session whose commit expired it. Requests make columns pending
and coalesce with a live job; `bulk_retry_stage` is look, reset, fan-out; the hand-off from
`photo_work` is look, insert, finish. `owed` and `drifted` are history: a stage is owed from
the commit that makes it pending, and given up only in the steps that say so, each for a reason
they name, and only if nothing else will come to it (`Owe`). `Walk` names the rolled-up
stages in their order, so that an instance may have two of the three.

**Documents, Folders.** Requests choose a name, change the disk, commit last; each of these
is a step, and the scan walks file by file. In Documents contents are numbered, whole
folders move, a commit may be refused and a process may crash between any two steps
(`Crash`); `late` and `calm` are history. A transfer works on the rows as it loaded them. In Folders
a note of the uploader is left per file and expires (`Expire`); other programs drop files (`Drop`),
and the root's flag `owner_from_subfolder`, on or off for each scan, gives those
and rows without an owner to the user the folder is named after (`FromFolder`).

**Dedup.** Selection of a page of groups, moves one by one, one commit, then again; start
and cancel go by the job's row while a cancelled thread goes on until it looks.

**Faces.** An administrator's request, a detection and a rebuild are each a read and a write
(the rebuild: plan, create, assign, clear, drop, with a commit after each), and `Baked` composes
the index from the table without what the session has not flushed.

## 3. What is checked

| Run | Instance | What it shows |
|---|---|---|
| `queue_safety` | JobQueue: two threads with heartbeats, two clients, three kinds of request (manual scan, due-scan tick, duplicate cleanup), two purges, a cancellation, two faults | `LeaseOwnership`, `ExclusiveExecution`: no job is worked on twice. `NoLostRequest`: an accepted or interrupted request has a row that will be run from the start. `OwnerSettles`: only the owner settles a running row |
| `queue_liveness` | fair, one client, one fault, no purges | `KeepsPromise`: JobQueue implements LeasedJobs. `OwedIsServed`, `JobsSettle`: requests are served and jobs end although a process crashes or a thread dies |
| `ml_no_heartbeat` | JobQueue with `Beats = {}`, no fault at all | `ExclusiveExecution` fails (finding 1) |
| `photo_work` | fair, two photos, an index and an estimate thread, two clients, two requests, one fault | `ClaimHeld`: only a handler that outlasts its lease loses its claim; `OnlyOverlapsForget`: a pending stage is forgotten only if sessions overlapped on its row or a handler outlasted its lease; `PendingIsSettled` and `ClaimsEnd` under fairness |
| `photo_work_forget` | one photo, one client, three requests | `PendingSurvives` fails (finding 2) |
| `catalog` | two users, one index thread, one scan, one file or two copies, one crash, failed commit or outside change | `TrashedHasCopy`: a photo in the trash has its file there; `OnlyStaleReadsHide`: only a scan or an index thread with a stale read turns a trashed photo missing; `TypeOK`, in which an added photo's path is one file's and a purged row's id nobody's |
| `trash_hidden` | one user, no upset | `TrashedNeverMissing` fails (finding 3) |
| `last_copy` | no user, one file that is moved | `EarliestCopySurvives` fails (finding 4) |
| `watcher` | fair, two roots, two scans, one change, one upset | `ScansNeverStack`; `OnlyDropsForget`: a change is on its way to a scan unless a fault or a busy queue dropped it; `ChangesScanned` under fairness: it is scanned in the end, and no root stays marked behind a scan in flight |
| `services` | Shares, Accounts, Acl, Metadata, Gallery, Classify side by side | see below |
| `library` | Documents, Folders, Dedup, Faces side by side | see below |
| `names_unsearchable` | Faces: one name, nothing else happens | `RenamesSearchable` fails (finding 5) |

The parts of `Services`, and those of `Library`, share no state. One run checks each of these two
compositions: `focus` says which part an execution is of, and the others stay as they were, so that
the state space is the sum of the parts' and not their product. That the composition
keeps what its parts keep is proved (section 5).

| Module | Property | What it says |
|---|---|---|
| Shares | `CapHolds` | a link whose cap nobody changed is downloaded at most that often |
| | `LocationsStay` | a location leaves only through a link that did not promise to remove it at some moment of the visit |
| | `GuessesBounded` | wrong passwords in a window exceed the limit by no more than the attempts past the check |
| | `PurgeSpares` | a purge deletes no link that can be used and is the one it read |
| Accounts | `AdminRemains` | an administrator remains unless two removals overlapped |
| | `SignedInKnow` | who is signed in presented the password, unless the account changed under the login |
| Acl | `AnswersHeld` | each of the three computations of access gives a level that the rules gave at some moment of the check, or tables changed between its queries |
| Metadata | `TagsAgree` | a row shows what its file says once a scan and an index job have come after the last edit, but for `late` |
| | `GuessesYield` | an estimate never replaces a place that came from the file or an administrator, as the estimator read it |
| Gallery | `PagesAgree` | the timeline shows one stretch of the list it asked for |
| | `CountsAgree` | what ten endpoints answer fits together: years add up to the list, a bubble opens its photos or the latest of them, markers and tags, which filter by themselves, are the list's but for what they do not filter by, and counts beside uploaders, folders and roots are those of the lists they lead to |
| Classify | `StagesSettle` | a stage asked for and pending will be come to, unless it was given up in a named way (section 6); a roll-up with nothing under way says what the columns say |
| Documents | `DocumentsSurvive` | no request destroys a document, crash or not |
| | `IndexedIsCurrent` | a hash is of the content its signature names |
| | `ScanRepairs` | an undisturbed scan leaves active exactly the rows of the files on disk |
| Folders | `PicturesSurvive` | no upload, rename or deletion of a folder destroys a picture, but in the ways named |
| | `OwnersUploaded` | a photo is given to who uploaded it or to whom its folder is named after: never to the latter when it gets its row with a note there, to nobody else later, and nobody's photo is taken away |
| Dedup | `CopyStays` | a copy of each picture stays in its place |
| | `CleanupCleans` | a cleanup that ends left no copy of the first page that it could move |
| Faces | `FacesCounted` | a cluster counts the faces it holds, but for counts made from a stale read |
| | `RebuildRepairs` | after an undisturbed rebuild one person is one cluster |

Every property of a passing run fails when a definition is replaced by its
mutant (`PROJECT.json`, "mutants"), and between them the passing runs fire every
action and every disjunct. `TypesOK` is the conjunction of the parts' type invariants.

### Findings

1. **The ML worker runs long jobs twice.** Its dispatcher says it has the same
   shape as the regular one, and starts no heartbeat. `photo_work`'s claims have
   none either, and a transcode may take two hours: there `ClaimHeld` and `OnlyOverlapsForget` name
   the photos whose handler outlasted its lease (`overrun`).
2. **A stage enqueued while the photo is being worked on may be wiped.** The
   re-read after the handler returns the session's cached row unless the handler
   committed, and the map is written back whole.
3. **A trashed photo can still turn missing** and leave the trash list, the state
   that `repair_trash` calls the result of an earlier, fixed bug: the index
   thread's status guard and its existence check are separate reads. A scan's
   reconciliation does the same with the rows of its snapshot.
4. **Ingest dedup can trash the only copy.** The earlier row counts as a surviving
   copy although its file may have moved to the very path that is being indexed,
   until the next scan notices.
5. **A renamed person is not found by the new name.** Sessions do not flush by
   themselves, so the index is composed from the table while the name is still in memory.

Other disagreements met while modelling are in section 6; no run is spent on them.

## 4. Bounds, symmetry and fairness

*JobQueue.* Two threads are what it takes for one to take the other's job; two
row ids for a purged id to return while another job is live; three tokens cover
two rows and a thread whose row is gone. `Lease = 3, HbInterval = 1, RenewBy = 2,
SettleBound = 1` is the tightest instance of `HeartbeatsCoverLease`, so that a lease
that ended one tick early would be noticed. In the code the lease is 600 s, the
heartbeat 200 s, and the commit retries of one renewal take some 370 s at worst.
The liveness run purges nothing: the table fills up and arrivals end, so that
the state space is that of a finite load.

*PhotoWork.* Two photos let priorities and ids order claims; two clients and two
requests are the least that overlap. Requests are bounded, so the system may
stop: deadlock is not checked where that is so, and only there. A lease that runs out with a thread
at work takes one of the run's faults.

*Catalog.* Two paths and two ids are the least in which a copy, a moved file and a
new row under a purged id occur. `Bound` confines the disk's changes by other
programs to states with one photo, and overlapping requests to states with one photo that has one file.
`SkipIngest` is TRUE though the default is FALSE: without it the index thread has
fewer behaviours. A request may hold both photos, but then no other request, so no purge, is beside
it: one request on two photos whose commit fails for a row another request purged is not among the
run's behaviours, and only the proof of `TrashedHasCopy` covers it.

*Watcher.* Two roots, since any scan holds off the other root's; the change comes
in any state, during a scan as well as while the watcher is down.

*MCServices, MCLibrary.* Each component has an action constraint (`SharesBound`,
`AccountsBound`, `AclBound`, `MetadataBound`, `GalleryBound`, `ClassifyBound`, `DocumentsBound`,
`FacesBound`, `FewLate`), commented there. They leave the smallest number of actors that
overlap and confine overlaps to states in which nothing else is under way: two
visits of one browser with two links and one edit; two requests to two accounts; one check
beside edits of one table; two sessions on a file of two versions; two fetches of a list of
five photos and one edit; two requests for a classification with a fault, in fewer
combinations for the two together; two requests on three documents in nested folders, or one beside a scan or an
index job; two uploads and deletions; two cleanups and two pages; an administrator beside a
detection or a rebuild. Where a second link was made and edited, one of the two visits is idle;
once three passwords were hashed or guessed, one of the two requests is; no request comes while two
hash jobs wait, and no job while two requests are at work; a detection ends before the last turn. A
timeline that is torn and has no start left is not followed, as `PagesAgree` claims
nothing of it. In Folders one of two directories is named after a user; one file at most, the first, may be dropped
there from outside, and then one request is made; a scan that reads the flag as set runs beside uploads only.
`CellLimit`, `NearbyLimit` and `MarkerLimit` are 2 in a library of five photos, so that answers are cut;
in the code they are 500, 100 and 5000. `CountsAgree` reads the tables alone and is looked at while the
timeline shows nothing. The proofs have none of these bounds.

Tokens, paths, threads and clients are symmetric where no property and no
`CHOOSE` distinguishes them and no liveness is checked.

Fairness is asked of what the code's own loops repeat: threads' steps, the
heartbeat, the sweeper, the dispatcher's rounds, the scheduler's ticks, time, and
that handlers return (each is a bounded computation on one photo or root, and
external tools run with timeouts). It is weak, except for three. The due tick is
disabled by a live scan again and again and is tried every ten minutes for ever. The
watcher's dispatcher is held off only by the bound on scans alive, between its look and its insert.
The end of a handler (`HandlerEnds` of PhotoWork) is strongly fair: it happens once the
handler has computed, whoever has the row meanwhile. `PendingIsSettled` exempts a photo beside
one in `overrun`: two threads out of step at a photo may hand it to and fro and keep the pool from
the others. Nothing is asked of clients, administrators, other programs or faults; the
watcher may stay down for ever. A root's scan interval elapses only after the
dispatcher, which looks every two seconds, has noticed that the last scan ended;
the scheduler's period is ten minutes. The modules of `services` and `library` state safety only.

## 5. What is proved

For all values of the constants, so for any number of threads, rows, requests, photos, paths
and faults:

| Theorem | Statement |
|---|---|
| `JobQueueProofs!TypeCorrect` | `Spec => []TypeOK` |
| `JobQueueProofs!LeasesHold` | `HeartbeatsCoverLease /\ Spec => []LeaseInv` |
| `JobQueueProofs!Exclusive` | ... `=> []ExclusiveExecution` |
| `JobQueueProofs!Ownership` | ... `=> []LeaseOwnership` |
| `JobQueueProofs!NothingLost` | ... `=> []NoLostRequest` |
| `JobQueueProofs!OnlyOwnersSettle` | ... `=> OwnerSettles` |
| `JobQueueProofs!PromiseKept` | ... `=> KeepsPromise`: JobQueue implements LeasedJobs |
| `PhotoWorkProofs!PhotoWorkTypes` | `Spec => []TypeOK` |
| `PhotoWorkProofs!ClaimsHold` | `Spec => []ClaimHeld` |
| `PhotoWorkProofs!OverlapsForget` | `Spec => OnlyOverlapsForget` |
| `WatcherProofs!WatcherTypes` | `Spec => []TypeOK` |
| `WatcherProofs!ScansStayFew` | `Spec => []ScansNeverStack` |
| `WatcherProofs!ChangesAreCovered` | `Spec => []OnlyDropsForget` |
| `CatalogProofs!CatalogTypes` | `Spec => []TypeOK` |
| `CatalogProofs!TrashIsKept` | `Spec => []TrashedHasCopy` |
| `CatalogProofs!OnlyStaleReads` | `Spec => OnlyStaleReadsHide` |
| `PartsProofs!SharesTypes` | `Spec => []TypeOK` |
| `PartsProofs!CapsHold` | `Spec => []CapHolds` |
| `PartsProofs!LocationsStayHome` | `Spec => []LocationsStay` |
| `PartsProofs!GuessesAreBounded` | `Spec => []GuessesBounded` |
| `PartsProofs!PurgesSpare` | `Spec => PurgeSpares` |
| `PartsProofs!AccountsTypes` | `Signing!Spec => []Signing!TypeOK` (Accounts) |
| `PartsProofs!ChecksKeep` | `Access!Spec => []AclInv` (Acl) |
| `PartsProofs!TagsKeep` | `Tagging!Spec => []MetaInv` (Metadata) |
| `DocumentsProofs!DocumentTypes` | `Spec => [](TInv /\ TypeOK)` |
| `DocumentsProofs!NothingIsDestroyed` | `Spec => []DocumentsSurvive` |
| `DocumentsProofs!HashesAreCurrent` | `Spec => []IndexedIsCurrent` |
| `DocumentsProofs!ScansRepair` | `Spec => ScanRepairs` |
| `LibraryProofs!PartsHold` | `LibrarySpec` implements `Spec` of Documents, Folders, Dedup and Faces |
| `LibraryProofs!LibraryTypes` | `LibrarySpec => []TypesOK` |
| `LibraryProofs!TreeStays` | `Tree!Spec => []TreeInv` (Folders) |
| `LibraryProofs!PicturesStay` | `LibrarySpec => []PicturesSurvive` |
| `LibraryProofs!OwnersAreUploaders` | `LibrarySpec => OwnersUploaded` |
| `LibraryProofs!DedupHolds` | `Cleanup!Spec => []DInv` (Dedup) |
| `LibraryProofs!CopiesRemain` | `LibrarySpec => []CopyStays` |
| `LibraryProofs!CleanupsFinish` | `LibrarySpec => CleanupCleans` |
| `LibraryProofs!PeopleKeep` | `People!Spec => []PeopleInv` (Faces) |
| `LibraryProofs!CountsStay` | `LibrarySpec => []FacesCounted` |
| `LibraryProofs!RebuildsSort` | `LibrarySpec => RebuildRepairs` |
| `ServicesProofs!ServicesHold` | `ServicesSpec` implements `Spec` of Shares, Accounts, Acl, Metadata, Gallery and Classify |
| `ServicesProofs!ServicesTypes` | `ServicesSpec => []TypesOK` |
| `ServicesProofs!AdministratorsRemain` | `ServicesSpec => []AdminRemains` |
| `ServicesProofs!SignInsAreEarned` | `ServicesSpec => []SignedInKnow` |
| `ServicesProofs!AnswersStand` | `ServicesSpec => []AnswersHeld` |
| `ServicesProofs!StagesKeep` | `Vision!Spec => []StagesInv` (Classify) |
| `ServicesProofs!StagesAreSettled` | `ServicesSpec => []StagesSettle` |
| `ServicesProofs!RowsFollowFiles` | `ServicesSpec => []TagsAgree` |
| `ServicesProofs!PlacesAreKept` | `ServicesSpec => GuessesYield` |
| `ServicesProofs!PagesKeep` | `Browsing!Spec => []PagesInv` (Gallery) |
| `ServicesProofs!TimelineAgrees` | `ServicesSpec => []PagesAgree` |
| `ServicesProofs!CountsTogether` | `ServicesSpec => []CountsAgree` |

So every invariant and every action property of the passing runs is a theorem, and the type
invariant of every component is one.

*Assumptions.* What the constants are is assumed by name in each module
(`SharesAssumption`, `CatalogAssumption`, ...). The parts that Services and Library have as instances
state theirs as a definition (`AccountsConstants`, `MetadataConstants`, ...), which their own
theorems assume; `ServicesAssumption` and `LibraryAssumption` say that they hold, and TLC
evaluates these in the runs. Most are types: sets that are finite, bounds that are numbers.
`GalleryConstants` says besides that the width of a map cell, a power of two, is a positive number,
because the prover knows nothing of `^`. One assumption is about the system: `HeartbeatsCoverLease` says that every thread has a heartbeat,
that the longest time between two renewals plus the longest time of a settling write is
at most the lease, and that running rows are not purged. It is not an ASSUME of
the module, because the ML worker does not satisfy it (finding 1), nor does an
administrator's purge with `include_running`.

*JobQueue: why the invariant is what it is.* `ExclusiveExecution` is not inductive: nothing in
it prevents the sweeper from taking a row from a live thread. `LeaseOwnership`
(a working thread's row carries its token) says more, and fails only if the
sweeper's cutoff passes a live row. `LeaseFresh` bounds the age of a live thread's
row by its timer, and the timer by `RenewBy`, or after the handler the age by
`RenewBy + SettleBound`: with the assumption the age never exceeds `Lease`, and
the sweeper's comparison is strict. `TokensUnique` carries ownership through a
claim. `LeaseInv` is their conjunction with `TypeOK`.

*How the proof is built.* Most actions only make rows and threads let go of things.
`Weakens` states that once (a row or a thread that had a token has the same one
or none, and ages and timers did not grow apart) and `WeakensInv` shows that
such a step preserves the invariant; `Coalesce`, `Insert`, `Complete`, `Fail`,
`Sweep`, `Cancel`, `Purge`, crashes and deaths are instances. `Claim`, `Begin`,
`HandlerEnds`, `Renew` and `Tick` have lemmas of their own; in `Tick` the punctuality
of threads is used, in `StaleIsUnattended` the lease. `NoLostRequest` is inductive
relative to `LeaseInv`: a work stays owed until `Begin`, and whatever else takes its
queued row away gives another back or settles the debt.

*The refinement.* `OneHolder` shows from the token and ownership parts of `LeaseInv`
that a job has one holder at most, so that `Holder` is the thread itself and not a
choice. Each step of JobQueue is then a step of LeasedJobs, told pointwise of phases
and holders (`IsTake`, `IsLeave`, `IsVanish`, ...), or leaves every job in its place
(`KeepsPlaces`, `BeginPromise`). The two steps where the lease matters are the sweep,
which recovers unheld jobs only (`StaleIsUnattended` again), and the purge.

*PhotoWork.* Types alone need a strengthening (`Typed`): a batch entry that inserts a row
names a stage, and a map that a handler is about to write has one, or a write could
leave a row that is there and empty. `ClaimHeld` is inductive with four more facts:
busy threads are those with a token, no two rows or threads share one, a row that
vanished under its thread belongs to a deleted photo (so that no session inserts it
again beneath the thread), and a held row is within its lease or its photo in `overrun`: the code
renews no claim of this table, so `Tick` may pass the end of a lease with the thread at work
and then says so. Nothing is assumed of how long handlers take. As in
the job queue, most steps only let go of claims (`Weakens`, `WeakensClaim`).
`OnlyOverlapsForget` needs what a thread believes of its row: `Faithful` says that the map
it will write back has every stage of the row that is pending, and that a row about to
be finished has none, unless the row is torn or was overrun (`Marred`). A step then forgets nothing either because
the row keeps its stages (`StagesKept`), or because its holder, and nobody else
(`OneHolder`), writes a faithful map (`MapWritten`), or because a commit found the row as it
was read and unheld (`CommitFaithful`).

*Watcher.* `ScansNeverStack` needs one thing more: between its look at the queue and
its insert the dispatcher still has no scan of its own alive, because only the tick
and the administrator insert meanwhile (`InsertsIntoIdle`). `OnlyDropsForget` needs that
nothing is drained between two rounds (`NothingHeldOver`). Steps fall in three groups
with a lemma each: the scans are untouched (`ScansKept`, `StillCovered`), one is added
(`EnqueueNeverStacks`, `EnqueueCovers`), one changes or ends (`OneScanChanges`).
The theorems hold without any assumption on the order of the scheduler's and the
dispatcher's rounds, which only the liveness properties need.

*Catalog.* `TrashedHasCopy` speaks of rows that are trashed; what carries it through a request
is `MovedHasCopy`, about photos whose file has moved and whose row has not been written,
and `KeepsCopy`, which says of a trashed photo that nobody is taking out of the trash that its
file is there. The other parts keep the actors apart: an added path is staged once
(`StagedOnce`), an index thread past its guard works on a row that was not trashed then
(`IndexesUntrashed`), an idle actor holds nothing (`NoneIsEmpty`). `OnlyStaleReads` goes
action by action: only the index thread's mark and the scan's reconcile write "missing", and
both know the row from an earlier read.

*Shares.* What a visit read of its link is still true of the row under that id, or history says
why not: `CapMatches` (the cap a visit knows), `PromiseKnown` (that locations are removed).
`SawInactive` says of a link a purge has read that it stays unusable on the terms it was
read with, since counts only grow; `TokensIssued` tells it from a new link under its id.
For guesses the conserved quantity is the wrong passwords in the window together with the
attempts past the check (`Pressure`): an attempt joins below the limit only, and becomes a
wrong password once.

*Accounts.* Between a check and its commit an administrator may vanish: `RemovalChecked` says of a
removal under way that another administrator is there, unless `raced`. `LoginKnows` and
`SessionsKnow` tie a fingerprint to the password that was presented, and each change of a row
marks the requests it overtakes.

*Documents.* Types need `Formed`: a request's row and its target fit one another. In
`NothingIsDestroyed` each written content has a place on disk or in the trash, and a step that
moves one names its new place; a folder move shifts a set of paths at once, so it is shown
that prefixes split a path in one way only (`PathSplits`, `PathBelow`) and that no two files meet
(`MovesApart`). `HashesAreCurrent` needs what a running job believes (`JobRight`: the content it
hashes is its row's signature, or the row is marked `late`) beside the claim on rows
(`RowRight`). `ScansRepair` follows a calm scan (`ScanKnows`): what has been walked is matched
(`Matched`), what is still to be walked is listed as it was (`Listed`).

*Dedup.* Of each picture in a cleanup's hands there is a keeper (`Keeps`): an active copy in its
place that comes before all copies in anybody's hands. A look makes the first copy of the
group the keeper: it comes before the keeper other cleanups left, if there is one, so it is in
no hands either. That a first copy exists (`FirstCopy`) is well-foundedness of the naturals, twice.
`CleanupsClean` needs that a cleanup which was not disturbed still has every copy but the first in
`ids`, `moved` or `skipped` (`CalmKnows`), and that what was skipped stays unmovable (`SkipsBlocked`).

*The compositions.* `PartsHold` and `ServicesHold` show that a step of the whole is a step of each
part or leaves its variables as they were; so the whole implements each part, and each
property of a part, proved from its own specification, carries over by temporal logic.

*Folders.* A delete that has loaded rows answers for each picture it knows (`DeletesAnswer`): it is
filed in the trash, a move failed and nothing will be removed, or it is at its place and still
to be moved. That holds under other requests because rows outlive what was read of them (`RowsLast`)
and an upload chooses a name that is free or has the time in it (`UploadsSpare`), so that what it
overwrites came later and is named in `spent`. `NotesRight` says that a note which has not strayed
is about the picture at its path, so the scan that reads it credits its uploader; what the
scan gives by folder, it gives only where there is no note.

*Faces.* `FacesCounted` needs that what a request or a detection has read are two tables that
agree with each other (`RequestTyped`, `DetectorTyped`), and that every cluster is
marked while a rebuild is between its commits (`HalfDrifted`). A change moves one face at a time, so a
count changes by the faces that come and go. `RebuildRepairs` follows an undisturbed rebuild:
its plan has one group for each person with all their faces (`Planned`), and afterwards
the new clusters are those of the groups that are gathered, or still to be (`Sorted`).

*Acl.* The inductive invariant looks at an unfinished check: what it has read of a table is
current unless the table was edited (`Current`), and when one table at most was edited
(`Alone`), the level it is heading for, with what it has yet to read as it is now, is among those
the photo has had (`Foreseen`). When an edit changes what is still to be read, the new level
joins `seen` in the same step; when it changes what was read already, nothing else was edited.
The same invariant serves the three computations, and `Similar` (where LIKE and a comparison
differ) is the exemption the property names.

*Classify.* An owed, pending stage is `Reached`: a job is queued, a thread has not passed it yet, or
a retry's fan-out or a hand-off is about to make a job (`OwedReached`). `owed` grows whether or not
anything reaches the stage, so a request that made no job would break this: each step that makes a
stage pending has to show who comes to it, and each that takes a reason away, who else does.
`RollUpDue` gives
a roll-up that is behind its columns one who will write it, and `Unhashed` excludes that a job
walks a photo without a SHA and settles nothing. The walk over the stages is a sequence of any
length, so the steps of a thread are told by positions in it.

*Metadata.* The past of a file is not in the state: `MetaInv` says that there is a history H of the tags
of each version which fits everything at once (`Known`). What a session has read is
H of its version (`AtWork`), an edit's version differs from the one before in what
it edits, and a row not to be read again shows H of a version no older than its
signature (`RowFits`). A write of the file extends H, everything else keeps it. When the
row's signature is the file's version, the row shows the file: `TagsAgree`.

*Gallery.* `PagesInv` is about what an untorn timeline and its fetches know: the shown photos are
a stretch of the listing (`Stretch`) from where its first page begins to where its next page
does, or to the end; of this start at most one page is under way (`Waiting`), and it is
the one after or the one before (`Waits`). A fetch of an earlier start says nothing, and
putting its answer in tears the timeline. That a page begins where the stretch ends is
arithmetic on multiples of `PageSize` (`Appended`, `Prepended`). That the listing is a sequence as
long as the set it orders (`TimelineFacts`) rests on a rank being some member's in any finite
set with a strict total order (`Ranked`): an injection into as many numbers is onto.

*Listing.* Part of `CountsAgree` is equality of sets that the endpoints describe with filters of
their own. Four parts are not. That a bubble's answer, cut at its limit, is the bubble or its latest photos
(`Ranked`, `RanksFit`, `FirstFits`) rests on ranks in a finite set with a strict order: a photo that
is left out has as many before it as the limit. The bars of the years, and the counts beside the
folders below one, add up to the whole (`BarsSum`). A bubble's centre, the average of its places, lies
in the cell the bubble stands for (`SumBetween`, `Averaged`, `Divided`): the places are between the
cell's edges, so their sum is between the multiples of the edges. The folds are taken apart without
induction over data: a function of the subsets that grows as the fold does is exhibited, a count
of pairs, and a smallest subset on which they differ is refuted (`FoldSums`, `PlacesFold`).

*Only model-checked.* Liveness (`OwedIsServed`, `JobsSettle`, `PendingIsSettled`, `ClaimsEnd`,
`ChangesScanned`) is out of the prover's reach. No safety property of a passing run is left to TLC alone.

## 6. Modelling decisions and disagreements a reader should know

* JobQueue's `Tick` requires each live thread's heartbeat and settling write to be in
  time. `ml_no_heartbeat` shows what becomes of a thread that has none.
* An error in `claim_one`, or in `fail` after its retries, ends a dispatcher thread for
  good (`Die`); only a restart of the process brings it back.
* A coalesced request is owed to its client only if the row it met was still
  queued. `enqueue_unique_for_photo` also lets a running row stand in for a request:
  its docstring explains that the running stage loop picks the new work up.
* Watcher: a drained root that a live scan holds off loses its mark, since the result of
  `_enqueue_scan_if_idle` is ignored (`watcher/main.py:250`). `ChangesScanned` holds
  nevertheless: the due tick makes up for it after up to the root's scan interval.
* Catalog's `TrashMove` needs the file on disk, because the request checks that each
  file can be moved before it moves the first. A file that disappears between that
  check and its move is not modelled; nor are moves that fail, read-only roots, ignore
  paths, limits and companion files.
* A request of Catalog selects a photo when it moves its file; the code selects the whole
  list first. SQLite lets one session write at a time, and a purge holds that lock from
  its first DELETE: Catalog lets others commit meanwhile, which allows more than
  the code does. A changed photo keeps its SHA (`discover.py:423`).
* Catalog's `TrashedHasCopy` exempts photos in `cut`: a crash, a failed commit or two
  overlapping requests do leave trashed rows without a file. The property says
  that nothing else does.
* PhotoWork has the per-stage pools only. `claim_one`, `_process` and
  `run_worker_loop`, the walk over all stages that they replaced, are not started by
  anything. Rows that a crash leaves with every stage settled stay in `photo_work` for ever
  (`photo_work.py:485`), and a priority may be written back stale (`photo_work.py:140`): PhotoWork
  has both, no property is about them.
* Shares: a failure leaves the windows of its browser and of the link together, as both get
  one time. The eviction of windows beyond 10,000 keys is left out; it only
  forgets failures. A download is counted on the row as the visit read it, a purge goes by
  id, and a zip reads `strip_exif` again.
* Documents: one thing no later scan corrects. A scan sees a document, another program
  changes it, and its job hashes the change; a move crashes before its commit, a scan marks the
  row missing, and another document with the first content is moved to the path. The row is
  then active with the right signature and the wrong hash. `late.rows` names such rows, and
  `IndexedIsCurrent` exempts them. `open(..., "wb")` and the suffix of a free name are
  check-then-act: a file that comes to the name meanwhile is overwritten (`late.lost`). Moves and renames
  leave the status of a row alone (`_transfer` assigns the "active" it has loaded, which is no UPDATE), and
  a folder moves the rows it loaded before it moved the files.
* Folders: a scan that comes between an upload's file and the commit of its note (`upload_files`
  commits once, after the last file) credits the photo to the user its folder is named after, although
  `models.py:82` means that for files which "didn't arrive via the authenticated /upload flow"; and a row
  without an owner is credited so even if its file was uploaded, before the flag was set. Deleting a folder removes photos that were never indexed with it; a note about an
  upload may be taken by another file of that name.
* Dedup: the listing breaks ties by root id and the page by label; a first page that is all
  read-only hides the pages behind it.
* Accounts: the last-administrator check and the login's look at the row are long before the
  commit; a failed login's counter may be lost. `raced` and `overtaken` name these.
* Acl: the per-photo check compares case-sensitively and the SQL filter with LIKE
  (`auth_acl.py:97`); renaming a folder leaves its rules behind.
* Metadata: setting a place over an estimate leaves the label "estimated", so that a later estimate
  may replace the administrator's place, contrary to `location_estimator.py:253`; refreshing the
  signature after an edit hides an outside change that no scan had seen.
* Gallery: jumps and filters clear `loading` while a fetch is under way, although
  `index.js:731` says that the flag keeps the two from racing; deletions in place leave page offsets
  as they were, so the photos that follow are skipped. The docstring
  of `list_photos_in_cell` promises "exactly the photos a cluster bubble represents"
  (`routes_photos.py:865-866`): it is the latest 500 (`limit`), and its upper edge is open by an epsilon,
  so photos on the next cell's edge come with them. `list_nearby` says "the anchor is included"
  (line 1084), which its limit of 100 may cut. `list_locations` "accepts the same filters as
  list_photos" (line 1707) but has neither `gps_only`, as it explains, nor `text_only`: with that filter the map's
  markers show photos that the list and the bubbles do not. `list_tags` ignores the visibility of
  single photos, `list_folders` and `list_visible_roots` count private photos, uploaders count the
  videos of Live Photos.
* Classify: a stage that was asked for stays pending with nobody to come, and `StagesSettle` names
  it as given up, where: a request or a hand-off coalesces with a running job that has passed the stage
  (`Behind`), although `routes_ml.py:193` and `jobs.py:180` say that it lands "automatically"; `photo_work`
  was finishing the hand-off (`TooLate`); a bulk retry fails between its commits (`RetryFault`);
  the job reads the stage in a row loaded before, or finds no thumbnail, model or SHA (`Look`, `Leave`,
  `Claim`). The docstring of `run_ocr_text`
  ("leaves the job pending so it auto-resumes") is not what happens; a bulk retry that is cut
  off between its reset and its fan-out no longer matches its photos; `files_retry` asks for NULL with
  `in_`, which matches none.
* The proofs corrected the model in these places. Folders: an upload that overwrites what came
  to its name later is told from one that chose a taken name (`spares`), a delete no longer answers for
  pictures that a rename takes out of its folder (`Unwatched`), and a note is astray once its
  picture leaves the path (`Leave`). Classify: what a retry or a hand-off
  still owes is told stage by stage (`Owing`), since one photo may match a retry for one stage and not
  for another. Metadata: a rotation's commit marks what its new signature hides, an UPDATE that changes
  nothing is not sent, and a row that is gone is no error of a DELETE. Gallery: a timeline that is
  done with an empty listing is not blank, as a photo that is restored is never fetched.
* Faces: a rebuild can leave two clusters with one label, and a purge leaves counts high; faces of
  photos in the trash lose their cluster when people are rebuilt.

## 7. Plan

The order is that of importance: what runs everything else first.

1. Done: all modules of section 2, their runs, and proofs of every safety property of
   the passing runs, of the refinement of LeasedJobs, and of the two compositions.
2. An abstract specification of the stage queue (a stage asked for is run at
   least once after it was asked for) with PhotoWork's exemptions.
3. Liveness of the catalogue: rows follow the disk once it is left alone.
4. The proxy cache and its eviction.

## 8. Not modelled

Single-transaction requests (settings, roots, audit) have no protocol to model. Calls of external
tools (EXIF, thumbnails, transcoding, ML models) compute values that nothing here tells apart; their
failure is an outcome of the step that waits for them. Left out of modelled components: the limit of
50 unlocked links per browser, views, thumbnails, proxy requests and the legacy route of shares; nested
folders and filing of automatic uploads in Folders; folder levels deeper than two and other roots in
Acl; the tag cache of 30 seconds, so that the counts beside tags are
claimed of filtered answers only, which bypass it, and the panels of endless scrolling in Gallery; object boxes and a
merge together with a rename in Faces; `only_with_thumbs` and limits in Classify. Migrations, scripts, the
desktop launcher and the other web pages are deployment and user interface.
