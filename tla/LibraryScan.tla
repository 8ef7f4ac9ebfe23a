------------------------------ MODULE LibraryScan ------------------------------
(***************************************************************************)
(* The library scanner (apps/worker/src/scan): the 'scan' job, its         *)
(* checkpoint and resume, the media_files rows it maintains, and the       *)
(* watcher that turns filesystem activity into incremental scan jobs.      *)
(*                                                                         *)
(* What is abstracted:                                                     *)
(*  - Paths are the files whose extension and name the library accepts, in *)
(*    walk order (walk.ts sorts every directory by name); a library is one *)
(*    directory, whose entries are read when the walk opens it.            *)
(*  - A file is its content hash.  Size and mtime decide only whether the  *)
(*    hash is recomputed; "mtime cannot survive a real content edit", so   *)
(*    the row compares equal exactly when the content is unchanged.        *)
(*  - A media_files row keeps path, hash, the library of its item, how     *)
(*    long it has been missing (two grades: within the grace period, past  *)
(*    it) and whether a probe job was enqueued for its present content.    *)
(*  - Only the scanner writes these columns, and a worker runs one scan at *)
(*    a time (concurrency 1), so a statement sequence on rows that nobody  *)
(*    else can see half-done is one step; a crash may fall between any two *)
(*    transactions.  The disk may change between any two steps.            *)
(***************************************************************************)
EXTENDS Integers

CONSTANTS
  NULL,
  Libraries,
  Paths,            \* naturals: the order of the walk
  LibOf,            \* the library a path lies in
  InitialDisks,     \* contents of the disk at first
  Contents,         \* content hashes
  RowIds,           \* media_files ids
  JobIds,           \* jobs in the queue at once: an ended job leaves its id
  CheckpointEvery,  \* CHECKPOINT_INTERVAL_FILES
  RetryLimit,       \* JOB_QUEUE_OPTIONS.scan.retryLimit
  MaxChanges,       \* bound: changes of the disk or of a mount
  MaxAges,          \* bound: grace periods that pass
  MaxFaults         \* bound: failed statements, crashes and lost enqueues

ASSUME ScanAssumption ==
  /\ Paths \subseteq Nat
  /\ LibOf \in [Paths -> Libraries]
  /\ InitialDisks \subseteq [Paths -> Contents \cup {NULL}]
  /\ NULL \notin Paths /\ NULL \notin Contents
  /\ CheckpointEvery \in Nat \ {0} /\ RetryLimit \in Nat
  /\ MaxChanges \in Nat /\ MaxAges \in Nat /\ MaxFaults \in Nat

VARIABLES
  disk,     \* the content at each path, NULL where there is no file
  mounted,  \* the libraries whose directory can be opened
  rows,     \* media_files
  jobs,     \* scan jobs of the queue, with their scan_checkpoints row
  scan,     \* runScan's locals; NULL when no scan runs
  dirty,    \* libraries whose watch debounce is pending
  changes, ages, faults,
  fresh,    \* history: rows whose file the scanner saw within this grace period
  quiet,    \* history: jobs since whose first attempt nothing changed or failed
  excused   \* history: a change nobody scans for any more (see Converges)

world == <<disk, mounted, changes>>
bounds == <<ages, faults>>
vars == <<disk, mounted, rows, jobs, scan, dirty, changes, ages, faults, fresh, quiet, excused>>

-----------------------------------------------------------------------------
(* Types. *)

Missing == {"no", "recent", "old"}
Row == [path : Paths, hash : Contents, lib : Libraries, missing : Missing, probed : BOOLEAN]
Job == [lib : Libraries, full : BOOLEAN, attempts : 0 .. RetryLimit + 1, ckpt : Paths \cup {NULL}]
Stages == {"walk", "enqueue", "mark", "sweep", "purge", "finish"}
Scan == [job : JobIds, stage : Stages, todo : SUBSET Paths, seen : SUBSET Paths,
         target : Paths \cup {NULL}, last : Paths \cup {NULL}, n : Nat, stale : SUBSET RowIds]

ASSUME NullAssumption == NULL \notin Row /\ NULL \notin Job /\ NULL \notin Scan

TypeOK ==
  /\ disk \in [Paths -> Contents \cup {NULL}]
  /\ mounted \subseteq Libraries
  /\ rows \in [RowIds -> Row \cup {NULL}]
  /\ jobs \in [JobIds -> Job \cup {NULL}]
  /\ scan \in Scan \cup {NULL}
  /\ dirty \subseteq Libraries
  /\ changes \in Nat /\ ages \in Nat /\ faults \in Nat
  /\ fresh \subseteq RowIds /\ quiet \subseteq JobIds
  /\ excused \in BOOLEAN

-----------------------------------------------------------------------------
(* The catalog. *)

Visible(p) == LibOf[p] \in mounted /\ disk[p] # NULL
Entries(l) == {p \in Paths : LibOf[p] = l /\ Visible(p)}

Live == {r \in RowIds : rows[r] # NULL}
\* findFileByPath, findFileByContentHash (over every library)
ByPath(p) == {r \in Live : rows[r].path = p}
ByHash(c) == {r \in Live : rows[r].hash = c}
\* listMediaFilesForLibrary, listStaleMissingFiles
OfLibrary(l) == {r \in Live : rows[r].lib = l}
\* Mutant of it: the grace period is forgotten.
StaleAtOnce(l) == {r \in OfLibrary(l) : rows[r].missing # "no"}
Stale(l) == {r \in OfLibrary(l) : rows[r].missing = "old"}

FreeRow == CHOOSE r \in RowIds : rows[r] = NULL
NewRow(p, c, l) == [path |-> p, hash |-> c, lib |-> l, missing |-> "no", probed |-> FALSE]

\* The library a job scans.
Lib == jobs[scan.job].lib
\* The walk yields p next.
Yields(p) == p \in scan.todo /\ \A q \in scan.todo : p <= q

\* The walk has moved past file p; `new` ({p} or nothing) enters seenAbsPaths.
Passed(p, new, stage) ==
  [scan EXCEPT !.stage = stage, !.todo = @ \ {p}, !.last = p, !.n = @ + 1, !.seen = @ \cup new]

-----------------------------------------------------------------------------
(* The job queue. *)

FreeJobs == {j \in JobIds : jobs[j] = NULL}

NewJob(l, full) == [lib |-> l, full |-> full, attempts |-> 0, ckpt |-> NULL]
Enqueued(l, full) == [jobs EXCEPT ![CHOOSE j \in FreeJobs : TRUE] = NewJob(l, full)]

\* An administrator asks for a scan (POST /libraries/{id}/scan).
RequestScan(l, full) ==
  /\ FreeJobs = JobIds /\ dirty = {}     \* bound: when nothing is pending
  /\ jobs' = Enqueued(l, full)
  /\ UNCHANGED <<world, bounds, rows, scan, dirty, fresh, quiet, excused>>

\* Mutant: a scan of the library that is queued or running is thought to do.
WatchScanOnce(l) ==
  /\ l \in dirty /\ FreeJobs # {}
  /\ dirty' = dirty \ {l}
  /\ jobs' = IF \E j \in JobIds \ FreeJobs : jobs[j].lib = l THEN jobs ELSE Enqueued(l, FALSE)
  /\ UNCHANGED <<world, bounds, rows, scan, fresh, quiet, excused>>

\* The debounce of a library's watcher elapses: an incremental scan.
WatchScan(l) ==
  /\ l \in dirty /\ FreeJobs # {}
  /\ dirty' = dirty \ {l}
  /\ jobs' = Enqueued(l, FALSE)
  /\ UNCHANGED <<world, bounds, rows, scan, fresh, quiet, excused>>

\* That enqueue is fire and forget: when it fails, it is logged.  The event may
\* as well never reach the timer, when the watch thread is gone.
WatchScanFails(l) ==
  /\ l \in dirty /\ faults < MaxFaults
  /\ dirty' = dirty \ {l} /\ faults' = faults + 1 /\ excused' = TRUE
  /\ UNCHANGED <<world, ages, rows, jobs, scan, fresh, quiet>>

\* The worker takes a queued job: runScan reads its checkpoint and opens the walk.
BeginAttempt(j) ==
  /\ scan = NULL /\ jobs[j] # NULL
  /\ jobs' = [jobs EXCEPT ![j].attempts = @ + 1]
  /\ scan' = [job |-> j, stage |-> "walk", todo |-> Entries(jobs[j].lib), seen |-> {},
              target |-> jobs[j].ckpt, last |-> jobs[j].ckpt, n |-> 0, stale |-> {}]
  /\ quiet' = IF jobs[j].attempts = 0 THEN quiet \cup {j} ELSE quiet
  /\ UNCHANGED <<world, bounds, rows, dirty, fresh, excused>>

\* pg-boss retries a failed or expired attempt until retryLimit.
Requeued(j) == [jobs EXCEPT ![j] = IF @.attempts <= RetryLimit THEN @ ELSE NULL]

\* A statement outside the per-file try fails: runScan rethrows.
AttemptFails ==
  /\ scan # NULL /\ faults < MaxFaults
  /\ faults' = faults + 1
  /\ jobs' = Requeued(scan.job)
  /\ excused' = (excused \/ jobs'[scan.job] = NULL)
  /\ scan' = NULL
  /\ UNCHANGED <<world, ages, rows, dirty, fresh, quiet>>

\* The worker dies and starts again; the watcher's pending timers die with it.
Crash ==
  /\ faults < MaxFaults
  /\ faults' = faults + 1
  /\ jobs' = IF scan = NULL THEN jobs ELSE Requeued(scan.job)
  /\ excused' = (excused \/ dirty # {} \/ jobs' # jobs)
  /\ scan' = NULL /\ dirty' = {}
  /\ UNCHANGED <<world, ages, rows, fresh, quiet>>

-----------------------------------------------------------------------------
(* The walk: one file at a time, then maybe a checkpoint. *)

\* Mutant: a skipped file is not recorded as seen.
SkipFileUnseen(p) ==
  /\ scan # NULL /\ scan.stage = "walk" /\ Yields(p) /\ scan.target # NULL
  /\ scan' = [Passed(p, {}, "mark") EXCEPT !.target = IF p = @ THEN NULL ELSE @]
  /\ UNCHANGED <<world, bounds, rows, jobs, dirty, fresh, quiet, excused>>

\* The resume compares each path with the checkpoint and stops skipping at it.
SkipFile(p) ==
  /\ scan # NULL /\ scan.stage = "walk" /\ Yields(p) /\ scan.target # NULL
  /\ scan' = [Passed(p, {p}, "mark") EXCEPT !.target = IF p = @ THEN NULL ELSE @]
  /\ UNCHANGED <<world, bounds, rows, jobs, dirty, fresh, quiet, excused>>

Processing(p) == scan # NULL /\ scan.stage = "walk" /\ Yields(p) /\ scan.target = NULL

\* The file vanished between the walk and its stat.
FileVanished(p) ==
  /\ Processing(p) /\ ~Visible(p)
  /\ scan' = Passed(p, {}, "mark")
  /\ UNCHANGED <<world, bounds, rows, jobs, dirty, fresh, quiet, excused>>

\* Same path, same content: the row is present again.
FileUnchanged(p) ==
  /\ Processing(p) /\ Visible(p)
  /\ \E r \in ByPath(p) :
       /\ rows[r].hash = disk[p]
       /\ rows' = [rows EXCEPT ![r].missing = "no"]
       /\ fresh' = fresh \cup {r}
  /\ scan' = Passed(p, {p}, "mark")
  /\ UNCHANGED <<world, bounds, jobs, dirty, quiet, excused>>

\* Same path, other content: updateMediaFileHash, then a probe job.
FileReencoded(p) ==
  /\ Processing(p) /\ Visible(p)
  /\ \E r \in ByPath(p) :
       /\ rows[r].hash # disk[p]
       /\ rows' = [rows EXCEPT ![r].hash = disk[p], ![r].missing = "no", ![r].probed = FALSE]
       /\ fresh' = fresh \cup {r}
  /\ scan' = Passed(p, {}, "enqueue")
  /\ UNCHANGED <<world, bounds, jobs, dirty, quiet, excused>>

\* The file of row r is still where the row says it is.
IsCopy(r) == Visible(rows[r].path) /\ disk[rows[r].path] = rows[r].hash

\* An unknown path with known content: relinkFile moves the row, whatever
\* library its item is in and whether or not the old path is still there.
FileRelocated(p) ==
  /\ Processing(p) /\ Visible(p) /\ ByPath(p) = {}
  /\ \E r \in ByHash(disk[p]) :
       /\ rows' = [rows EXCEPT ![r].path = p, ![r].missing = "no"]
       /\ fresh' = fresh \cup {r}
       /\ excused' = (excused \/ IsCopy(r))
  /\ scan' = Passed(p, {p}, "mark")
  /\ UNCHANGED <<world, bounds, jobs, dirty, quiet>>

\* A genuinely new file: item and row in one transaction, then its jobs.
FileAdded(p) ==
  /\ Processing(p) /\ Visible(p)
  /\ ByPath(p) = {} /\ ByHash(disk[p]) = {} /\ Live # RowIds
  /\ rows' = [rows EXCEPT ![FreeRow] = NewRow(p, disk[p], Lib)]
  /\ fresh' = fresh \cup {FreeRow}
  /\ scan' = Passed(p, {}, "enqueue")
  /\ UNCHANGED <<world, bounds, jobs, dirty, quiet, excused>>

\* processOneFile throws before its write: the error is kept, the walk goes on.
FileFails(p) ==
  /\ Processing(p) /\ faults < MaxFaults
  /\ faults' = faults + 1 /\ quiet' = {} /\ excused' = TRUE
  /\ scan' = Passed(p, {}, "mark")
  /\ UNCHANGED <<world, ages, rows, jobs, dirty, fresh>>

\* queue.enqueue('probe') after the row was written; only then is the file seen.
EnqueueProbe ==
  /\ scan # NULL /\ scan.stage = "enqueue"
  /\ rows' = [r \in RowIds |-> IF r \in ByPath(scan.last) THEN [rows[r] EXCEPT !.probed = TRUE]
                                                          ELSE rows[r]]
  /\ scan' = [scan EXCEPT !.stage = "mark", !.seen = @ \cup {scan.last}]
  /\ UNCHANGED <<world, bounds, jobs, dirty, fresh, quiet, excused>>

\* It throws: the row stays, without a probe job, and the file is not seen.
EnqueueFails ==
  /\ scan # NULL /\ scan.stage = "enqueue" /\ faults < MaxFaults
  /\ faults' = faults + 1 /\ quiet' = {} /\ excused' = TRUE
  /\ scan' = [scan EXCEPT !.stage = "mark"]
  /\ UNCHANGED <<world, ages, rows, jobs, dirty, fresh>>

\* Mutant: the checkpoint names the file to do next, which a resume skips.
CheckpointNext ==
  /\ scan # NULL /\ scan.stage = "mark"
  /\ jobs' = IF scan.n % CheckpointEvery = 0 /\ scan.todo # {}
             THEN [jobs EXCEPT ![scan.job].ckpt = CHOOSE p \in Paths : Yields(p)] ELSE jobs
  /\ scan' = [scan EXCEPT !.stage = "walk"]
  /\ UNCHANGED <<world, bounds, rows, dirty, fresh, quiet, excused>>

MaybeCheckpoint ==
  /\ scan # NULL /\ scan.stage = "mark"
  /\ jobs' = IF scan.n % CheckpointEvery = 0
             THEN [jobs EXCEPT ![scan.job].ckpt = scan.last] ELSE jobs
  /\ scan' = [scan EXCEPT !.stage = "walk"]
  /\ UNCHANGED <<world, bounds, rows, dirty, fresh, quiet, excused>>

-----------------------------------------------------------------------------
(* After the walk: the final checkpoint, the full scan's sweep, the end. *)

WalkEnds ==
  /\ scan # NULL /\ scan.stage = "walk" /\ scan.todo = {}
  /\ jobs' = [jobs EXCEPT ![scan.job].ckpt = scan.last]
  /\ scan' = [scan EXCEPT !.stage = IF jobs[scan.job].full THEN "sweep" ELSE "finish"]
  /\ UNCHANGED <<world, bounds, rows, dirty, fresh, quiet, excused>>

Unseen == {r \in OfLibrary(Lib) : rows[r].path \notin scan.seen /\ rows[r].missing = "no"}

MarkFileMissing ==
  /\ scan # NULL /\ scan.stage = "sweep"
  /\ \E r \in Unseen : rows' = [rows EXCEPT ![r].missing = "recent"]
  /\ UNCHANGED <<world, bounds, jobs, scan, dirty, fresh, quiet, excused>>

SweepEnds ==
  /\ scan # NULL /\ scan.stage = "sweep" /\ Unseen = {}
  /\ scan' = [scan EXCEPT !.stage = "purge", !.stale = Stale(Lib)]
  /\ UNCHANGED <<world, bounds, rows, jobs, dirty, fresh, quiet, excused>>

\* A row whose file lies in another library than its item.
Astray(r) == LibOf[rows[r].path] # rows[r].lib

DeleteMediaFile ==
  /\ scan # NULL /\ scan.stage = "purge"
  /\ \E r \in scan.stale :
       /\ rows' = [rows EXCEPT ![r] = NULL]
       /\ scan' = [scan EXCEPT !.stale = @ \ {r}]
       /\ excused' = (excused \/ Astray(r))
       /\ quiet' = IF Astray(r) THEN {} ELSE quiet
  /\ UNCHANGED <<world, bounds, jobs, dirty, fresh>>

PurgeEnds ==
  /\ scan # NULL /\ scan.stage = "purge" /\ scan.stale = {}
  /\ scan' = [scan EXCEPT !.stage = "finish"]
  /\ UNCHANGED <<world, bounds, rows, jobs, dirty, fresh, quiet, excused>>

Finish ==
  /\ scan # NULL /\ scan.stage = "finish"
  /\ jobs' = [jobs EXCEPT ![scan.job] = NULL]
  /\ scan' = NULL
  /\ quiet' = quiet \ {scan.job}
  /\ UNCHANGED <<world, bounds, rows, dirty, fresh, excused>>

-----------------------------------------------------------------------------
(* The world around the scanner. *)

\* chokidar notices activity under the libraries ls (WatchScanFails is where
\* what it noticed is lost again).
Activity(ls) ==
  /\ quiet' = {}
  /\ dirty' = dirty \cup ls
  /\ UNCHANGED <<bounds, rows, jobs, scan, fresh, excused>>

Change == changes < MaxChanges /\ changes' = changes + 1

\* A file is written, replaced or removed.
ChangeFile(p, c) ==
  /\ disk[p] # c
  /\ disk' = [disk EXCEPT ![p] = c]
  /\ Change /\ Activity({LibOf[p]})
  /\ UNCHANGED mounted

\* A file is renamed, within a library or to another one.
MoveFile(p, q) ==
  /\ disk[p] # NULL /\ p # q
  /\ disk' = [disk EXCEPT ![p] = NULL, ![q] = disk[p]]
  /\ Change /\ Activity({LibOf[p], LibOf[q]})
  /\ UNCHANGED mounted

\* A library's directory goes away with its mount, and comes back.
Unmount(l) ==
  /\ l \in mounted /\ mounted' = mounted \ {l}
  /\ Change /\ Activity({l})
  /\ UNCHANGED disk

Mount(l) ==
  /\ l \notin mounted /\ mounted' = mounted \cup {l}
  /\ Activity({l})
  /\ UNCHANGED <<disk, changes>>

\* A whole grace period (missingFileGraceHours) passes.
Age ==
  /\ ages < MaxAges /\ ages' = ages + 1
  /\ rows' = [r \in RowIds |-> IF r \in Live /\ rows[r].missing = "recent"
                               THEN [rows[r] EXCEPT !.missing = "old"] ELSE rows[r]]
  /\ fresh' = {}
  /\ UNCHANGED <<world, faults, jobs, scan, dirty, quiet, excused>>

-----------------------------------------------------------------------------
\* New libraries, whose first scan an administrator requested.
Init ==
  /\ disk \in InitialDisks
  /\ mounted = Libraries
  /\ rows = [r \in RowIds |-> NULL]
  /\ jobs \in [JobIds -> {NewJob(l, TRUE) : l \in Libraries} \cup {NULL}]
  /\ \A l \in Libraries : \E j \in JobIds : jobs[j] = NewJob(l, TRUE)
  /\ scan = NULL /\ dirty = {}
  /\ changes = 0 /\ ages = 0 /\ faults = 0
  /\ fresh = {} /\ quiet = {} /\ excused = FALSE

ScanStep ==
  \/ \E j \in JobIds : BeginAttempt(j)
  \/ \E p \in Paths : \/ SkipFile(p) \/ FileVanished(p) \/ FileUnchanged(p)
                    \/ FileReencoded(p) \/ FileRelocated(p) \/ FileAdded(p)
  \/ EnqueueProbe \/ MaybeCheckpoint
  \/ WalkEnds \/ MarkFileMissing \/ SweepEnds \/ DeleteMediaFile \/ PurgeEnds \/ Finish

Fault ==
  \/ \E p \in Paths : FileFails(p)
  \/ EnqueueFails \/ AttemptFails \/ Crash
  \/ \E l \in Libraries : WatchScanFails(l)

World ==
  \/ \E l \in Libraries : Unmount(l) \/ Mount(l) \/ WatchScan(l) \/ \E full \in BOOLEAN : RequestScan(l, full)
  \/ \E p \in Paths : \E c \in Contents \cup {NULL} : ChangeFile(p, c)
  \/ \E p, q \in Paths : MoveFile(p, q)
  \/ Age

Next == ScanStep \/ Fault \/ World
Spec == Init /\ [][Next]_vars

\* The worker keeps fetching jobs and running them; pg-boss hands the oldest one
\* out first, so none is passed over for ever; a debounce timer fires.
Fairness ==
  /\ WF_vars(ScanStep)
  /\ \A j \in JobIds : SF_vars(BeginAttempt(j))
  /\ \A l \in Libraries : WF_vars(WatchScan(l))
FairSpec == Spec /\ Fairness

-----------------------------------------------------------------------------
(* Properties. *)

\* No two rows describe one path.  media_files.path is UNIQUE: the scanner looks a
\* path up before it writes it and never attempts what the constraint refuses.
PathsUnique == \A r, s \in Live : rows[r].path = rows[s].path => r = s

\* A row seen in this grace period is not stale, neither in the table nor in
\* the list a running scan deletes from.
FreshIsNotOld ==
  /\ \A r \in fresh \cap Live : rows[r].missing # "old"
  /\ scan # NULL => /\ scan.stale \cap fresh = {}
                    /\ scan.stage # "purge" => scan.stale = {}

\* The running scan has its job and the file it enqueues for, and no waiting
\* job is out of attempts.
ScanSane ==
  /\ scan # NULL => jobs[scan.job] # NULL /\ (scan.stage = "enqueue" => scan.last # NULL)
  /\ \A j \in JobIds : jobs[j] # NULL /\ (scan = NULL \/ scan.job # j) => jobs[j].attempts <= RetryLimit

\* What the deletion theorem rests on.
RowsInv == TypeOK /\ PathsUnique /\ FreshIsNotOld /\ ScanSane

\* The scanner deletes a row only when no scan saw its file for a whole grace
\* period: a dropped mount, a failed attempt or a rename never costs a row.
DeletesOnlyLongUnseen ==
  [][\A r \in RowIds : rows[r] # NULL /\ rows'[r] = NULL => r \notin fresh]_vars

Sole(p) == \A q \in Paths : disk[q] = disk[p] => q = p
HasRow(p, l) ==
  \E r \in ByPath(p) : rows[r].hash = disk[p] /\ (rows[r].missing = "no" \/ rows[r].lib # l)

\* A job that succeeds leaves the catalog exact, however many attempts it took
\* and wherever the earlier ones died, if nothing changed under it: the files
\* are there, and a full scan has flagged exactly the rows without one.
Exact(l, full) ==
  /\ \A p \in Entries(l) : Sole(p) => HasRow(p, l)
  /\ full => \A r \in OfLibrary(l) : rows[r].missing = "no" <=> rows[r].path \in Entries(l)
  /\ faults = 0 => \A r \in OfLibrary(l) : rows[r].probed
JobIsExact == [][Finish /\ scan.job \in quiet => Exact(Lib, jobs[scan.job].full)]_vars

\* While some job is quiet, so since before the running walk was opened, the walk is
\* ahead of nothing but what it has still to yield, and has seen what is there.
WalkInv ==
  scan # NULL /\ quiet # {} =>
    /\ scan.todo \cup scan.seen \subseteq Entries(Lib)
    /\ Entries(Lib) \subseteq
         scan.todo \cup scan.seen \cup (IF scan.stage = "enqueue" THEN {scan.last} ELSE {})
    /\ \A p \in Entries(Lib) \ scan.todo, q \in scan.todo : p < q
    /\ scan.stage \in {"enqueue", "mark"} => scan.last \in Entries(Lib) \ scan.todo
    /\ scan.stage \in {"sweep", "purge", "finish"} => scan.todo = {}

\* A file's row is there and present.
Settled(p) ==
  /\ Sole(p) => HasRow(p, LibOf[p])
  /\ \A r \in ByPath(p) : rows[r].lib = LibOf[p] => rows[r].missing = "no"

\* All files of the library up to p are settled.
SettledTo(p, l) == \A q \in Entries(l) : q <= p => Settled(q)

\* A quiet job's checkpoint, and its walk, have settled files behind them; the walk
\* skips towards a file that it will meet.
BehindInv ==
  /\ \A j \in JobIds : jobs[j] # NULL /\ jobs[j].attempts = 0 => jobs[j].ckpt = NULL
  /\ scan # NULL => jobs[scan.job].attempts > 0
  /\ \A j \in quiet : jobs[j] # NULL /\ jobs[j].ckpt # NULL =>
       jobs[j].ckpt \in Entries(jobs[j].lib) /\ SettledTo(jobs[j].ckpt, jobs[j].lib)
  /\ scan # NULL /\ scan.job \in quiet =>
       IF scan.target = NULL
         THEN /\ \A p \in Entries(Lib) \ scan.todo : Settled(p)
              /\ scan.last \in Entries(Lib) \cup {NULL}
         ELSE scan.target \in scan.todo /\ SettledTo(scan.target, Lib)

\* After the sweep every present row of the library was seen, and what is to be
\* deleted stays missing.
SweptInv ==
  scan # NULL =>
    /\ \A r \in scan.stale : r \in OfLibrary(Lib) /\ rows[r].missing = "old"
    /\ scan.stage = "purge" \/ (scan.stage = "finish" /\ jobs[scan.job].full) =>
         \A r \in OfLibrary(Lib) : rows[r].missing = "no" => rows[r].path \in scan.seen

\* Without a fault only the file about to be enqueued has no probe job.
ProbeInv ==
  faults = 0 =>
    \A r \in Live :
      rows[r].probed \/ (scan # NULL /\ scan.stage = "enqueue" /\ rows[r].path = scan.last)

\* The inductive invariant of the proofs.
IInv == RowsInv /\ WalkInv /\ BehindInv /\ SweptInv /\ ProbeInv

\* Once the disk is quiet the catalog catches up with it and stays so, unless
\* nobody is left to look: an event nobody saw, a job out of attempts, a file
\* that failed, a copy taken for a move, a row deleted for another library.
Indexed == \A p \in Paths : Visible(p) /\ Sole(p) => HasRow(p, LibOf[p])
Converges == <>[](Indexed \/ excused)
=============================================================================
