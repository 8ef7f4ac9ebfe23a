--------------------------- MODULE LibraryScanProofs ---------------------------
(***************************************************************************)
(* Machine-checked proofs about LibraryScan, for any libraries, paths,     *)
(* contents, queue length, retry limit, checkpoint interval and number of  *)
(* changes and faults.                                                     *)
(***************************************************************************)
EXTENDS LibraryScan, TLAPS

\* Moving past a file keeps the scan's job and its (empty) list of stale rows.
MovedPast(t, p, stage) ==
  /\ t \in Scan /\ t.job = scan.job /\ t.stage = stage /\ t.last = p /\ t.stale = scan.stale

LEMMA PassedFacts ==
  ASSUME scan \in Scan, NEW p \in Paths, NEW new \in SUBSET Paths, NEW stage \in Stages
  PROVE MovedPast(Passed(p, new, stage), p, stage)
<1>1. /\ scan.todo \in SUBSET Paths /\ scan.n \in Nat /\ scan.job \in JobIds
      /\ scan.target \in Paths \cup {NULL} /\ scan.stale \in SUBSET RowIds
      /\ scan.seen \in SUBSET Paths
      /\ scan = [job |-> scan.job, stage |-> scan.stage, todo |-> scan.todo, seen |-> scan.seen,
                 target |-> scan.target, last |-> scan.last, n |-> scan.n, stale |-> scan.stale]
  BY DEF Scan
<1> DEFINE todo == scan.todo \ {p}
           seen == scan.seen \cup new
<1>2. todo \in SUBSET Paths /\ scan.n + 1 \in Nat /\ seen \in SUBSET Paths
  BY <1>1
<1>3. Passed(p, new, stage) =
        [scan EXCEPT !.stage = stage, !.todo = todo, !.last = p, !.n = scan.n + 1, !.seen = seen]
  BY DEF Passed
<1> HIDE DEF todo, seen
<1>4. Passed(p, new, stage) =
        [job |-> scan.job, stage |-> stage, todo |-> todo, seen |-> seen,
         target |-> scan.target, last |-> p, n |-> scan.n + 1, stale |-> scan.stale]
  BY <1>1, <1>3
<1> QED BY <1>1, <1>2, <1>4 DEF MovedPast, Scan

\* A fresh job, its attempts all left.
LEMMA NewJobFacts ==
  \A l \in Libraries : \A full \in BOOLEAN : NewJob(l, full) \in Job /\ NewJob(l, full).attempts = 0
BY ScanAssumption DEF NewJob, Job

\* A job is put under an id no job has.
LEMMA EnqueuedFacts ==
  ASSUME TypeOK, FreeJobs # {}, NEW l \in Libraries, NEW full \in BOOLEAN
  PROVE /\ Enqueued(l, full) \in [JobIds -> Job \cup {NULL}]
        /\ \A j \in JobIds : \/ Enqueued(l, full)[j] = jobs[j]
                             \/ jobs[j] = NULL /\ Enqueued(l, full)[j] = NewJob(l, full)
        /\ NewJob(l, full) \in Job /\ NewJob(l, full).attempts = 0
<1> DEFINE k == CHOOSE j \in FreeJobs : TRUE
<1>1. k \in JobIds /\ jobs[k] = NULL
  BY DEF FreeJobs
<1>2. NewJob(l, full) \in Job /\ NewJob(l, full).attempts = 0
  BY NewJobFacts
<1>3. Enqueued(l, full) = [jobs EXCEPT ![k] = NewJob(l, full)]
  BY DEF Enqueued
<1> HIDE DEF k
<1> QED BY <1>1, <1>2, <1>3 DEF TypeOK

\* A step that enqueues a job keeps ScanSane.
LEMMA EnqueueStep ==
  ASSUME RowsInv, FreeJobs # {}, NEW l \in Libraries, NEW full \in BOOLEAN,
         jobs' = Enqueued(l, full), scan' = scan
  PROVE ScanSane' /\ jobs' \in [JobIds -> Job \cup {NULL}]
<1>1. TypeOK /\ ScanSane
  BY DEF RowsInv
<1>2. /\ jobs' \in [JobIds -> Job \cup {NULL}]
      /\ \A j \in JobIds : \/ jobs'[j] = jobs[j]
                           \/ jobs[j] = NULL /\ jobs'[j].attempts = 0
  BY <1>1, EnqueuedFacts
<1>3. scan # NULL => scan.job \in JobIds
  BY <1>1 DEF TypeOK, Scan
<1>4. jobs'[scan.job] = jobs[scan.job] \/ scan = NULL
  BY <1>1, <1>2, <1>3 DEF ScanSane
<1>5. 0 <= RetryLimit
  BY ScanAssumption
<1> QED BY <1>1, <1>2, <1>3, <1>4, <1>5 DEF ScanSane

\* A failed attempt leaves its job queued with attempts left, or ends it.
LEMMA RequeuedFacts ==
  ASSUME RowsInv, scan # NULL, jobs' = Requeued(scan.job), scan' = NULL
  PROVE ScanSane' /\ jobs' \in [JobIds -> Job \cup {NULL}]
<1>1. TypeOK /\ ScanSane /\ scan.job \in JobIds
  BY DEF RowsInv, TypeOK, Scan
<1>2. jobs[scan.job] \in Job
  BY <1>1 DEF TypeOK, ScanSane
<1>3. jobs' = [jobs EXCEPT ![scan.job] =
                 IF jobs[scan.job].attempts <= RetryLimit THEN jobs[scan.job] ELSE NULL]
  BY DEF Requeued
<1> QED BY <1>1, <1>2, <1>3 DEF TypeOK, ScanSane

\* Rewriting the row of a live r, seen where it is now, under a path no other
\* row has.
LEMMA SeenRow ==
  ASSUME RowsInv, NEW r \in RowIds, NEW row \in Row,
         rows' = [rows EXCEPT ![r] = row], fresh' = fresh \cup {r},
         row.missing = "no",
         \A s \in Live : rows[s].path = row.path => s = r,
         scan # NULL, scan.stage = "walk", scan' \in Scan, scan'.stale = scan.stale
  PROVE /\ rows' \in [RowIds -> Row \cup {NULL}] /\ fresh' \subseteq RowIds
        /\ PathsUnique' /\ FreshIsNotOld'
<1> USE DEF RowsInv
<1>1. /\ rows' \in [RowIds -> Row \cup {NULL}]
      /\ fresh' \subseteq RowIds
      /\ rows'[r] = row
      /\ \A s \in RowIds : s # r => rows'[s] = rows[s]
  BY DEF TypeOK
<1>2. PathsUnique'
  BY <1>1 DEF PathsUnique, Live
<1>3. scan.stale = {}
  BY DEF FreshIsNotOld
<1>4. FreshIsNotOld'
  BY <1>1, <1>3 DEF FreshIsNotOld, Live
<1> QED BY <1>1, <1>2, <1>4

\* A step that touches neither rows nor fresh keeps what is said about them.
LEMMA RowsKept ==
  ASSUME RowsInv, rows' = rows, fresh' = fresh,
         \/ scan' = NULL
         \/ scan' \in Scan /\ scan'.stale = {}
         \/ scan # NULL /\ scan' \in Scan /\ scan'.stage = scan.stage /\ scan'.stale = scan.stale
         \/ scan' = scan
  PROVE /\ rows' \in [RowIds -> Row \cup {NULL}] /\ fresh' \subseteq RowIds
        /\ PathsUnique' /\ FreshIsNotOld'
BY DEF RowsInv, TypeOK, PathsUnique, FreshIsNotOld, Live

\* Only the stage of the scan changes.
LEMMA StageFacts ==
  ASSUME scan \in Scan, NEW stage \in Stages
  PROVE /\ [scan EXCEPT !.stage = stage] \in Scan
        /\ [scan EXCEPT !.stage = stage].stage = stage
        /\ [scan EXCEPT !.stage = stage].job = scan.job
        /\ [scan EXCEPT !.stage = stage].last = scan.last
        /\ [scan EXCEPT !.stage = stage].stale = scan.stale
BY DEF Scan

\* Writing the running job's checkpoint.
LEMMA CheckpointKeepsJobs ==
  ASSUME RowsInv, scan # NULL, scan' \in Scan, scan'.job = scan.job, scan'.stage # "enqueue",
         jobs' = jobs \/ jobs' = [jobs EXCEPT ![scan.job].ckpt = scan.last]
  PROVE jobs' \in [JobIds -> Job \cup {NULL}] /\ ScanSane'
<1>1. /\ scan.job \in JobIds /\ jobs[scan.job] \in Job /\ scan.last \in Paths \cup {NULL}
      /\ jobs \in [JobIds -> Job \cup {NULL}]
  BY DEF RowsInv, TypeOK, Scan, ScanSane
<1> DEFINE job == [jobs[scan.job] EXCEPT !.ckpt = scan.last]
<1>2. job \in Job /\ job.attempts = jobs[scan.job].attempts
  BY <1>1 DEF Job
<1>3. jobs' = jobs \/ jobs' = [jobs EXCEPT ![scan.job] = job]
  OBVIOUS
<1> HIDE DEF job
<1>s. scan' # NULL
  BY NullAssumption
<1>4. CASE jobs' = jobs
  BY <1>1, <1>s, <1>4 DEF RowsInv, ScanSane
<1>5. CASE jobs' = [jobs EXCEPT ![scan.job] = job]
  <2>1. /\ jobs' \in [JobIds -> Job \cup {NULL}] /\ jobs'[scan.job] = job
        /\ \A j \in JobIds : j # scan.job => jobs'[j] = jobs[j]
    BY <1>1, <1>2, <1>5
  <2>2. job # NULL
    BY <1>2, NullAssumption
  <2> QED BY <1>1, <1>2, <1>s, <2>1, <2>2 DEF RowsInv, ScanSane
<1> QED BY <1>3, <1>4, <1>5

\* Every step of the scanner, of a fault and of the world keeps the invariant.
LEMMA Inductive == RowsInv /\ [Next]_vars => RowsInv'
<1> SUFFICES ASSUME RowsInv, [Next]_vars PROVE RowsInv'
  OBVIOUS
<1> USE ScanAssumption, NullAssumption DEF RowsInv, vars, world, bounds
<1>t. /\ scan # NULL => scan \in Scan /\ scan.job \in JobIds /\ jobs[scan.job] \in Job
      /\ \A p \in Paths : disk[p] # NULL => disk[p] \in Contents
      /\ \A r \in Live : r \in RowIds /\ rows[r] \in Row
      /\ \A j \in JobIds : jobs[j] # NULL => jobs[j] \in Job
  BY DEF TypeOK, Scan, ScanSane, Live
<1>st. Stages = {"walk", "enqueue", "mark", "sweep", "purge", "finish"}
  BY DEF Stages
<1>w. scan # NULL /\ scan.stage # "purge" => scan.stale = {}
  BY DEF FreshIsNotOld
<1>1. ASSUME NEW j \in JobIds, BeginAttempt(j) PROVE RowsInv'
  <2> USE <1>1 DEF BeginAttempt
  <2>1. /\ jobs[j] \in Job /\ jobs[j].attempts \in 0 .. RetryLimit
        /\ jobs[j].ckpt \in Paths \cup {NULL}
    BY <1>t DEF ScanSane, Job
  <2>2. Entries(jobs[j].lib) \in SUBSET Paths
    BY DEF Entries
  <2>3. scan' \in Scan /\ scan'.stale = {} /\ scan'.job = j /\ scan'.stage = "walk"
    BY <1>st, <2>1, <2>2 DEF Scan
  <2>4. /\ jobs' \in [JobIds -> Job \cup {NULL}]
        /\ jobs'[j] # NULL
        /\ \A k \in JobIds : k # j => jobs'[k] = jobs[k]
    BY <2>1 DEF TypeOK, Job
  <2>5. ScanSane'
    BY <2>3, <2>4 DEF ScanSane
  <2>6. PathsUnique' /\ FreshIsNotOld'
    BY <2>3, RowsKept
  <2>7. quiet' \subseteq JobIds
    BY DEF TypeOK
  <2> QED BY <2>3, <2>4, <2>5, <2>6, <2>7 DEF TypeOK
<1>2. ASSUME NEW p \in Paths, SkipFile(p) PROVE RowsInv'
  <2> USE <1>2 DEF SkipFile
  <2>1. /\ Passed(p, {p}, "mark") \in Scan
        /\ Passed(p, {p}, "mark").job = scan.job
        /\ Passed(p, {p}, "mark").stage = "mark"
        /\ Passed(p, {p}, "mark").stale = {}
    BY <1>t, <1>st, <1>w, PassedFacts DEF MovedPast
  <2>2. scan' \in Scan /\ scan'.job = scan.job /\ scan'.stage = "mark" /\ scan'.stale = {}
    BY <2>1 DEF Scan
  <2>3. ScanSane'
    BY <2>2 DEF ScanSane
  <2>4. PathsUnique' /\ FreshIsNotOld'
    BY <2>2, RowsKept
  <2> QED BY <2>2, <2>3, <2>4 DEF TypeOK
<1>3. ASSUME NEW p \in Paths, FileVanished(p) \/ FileFails(p) PROVE RowsInv'
  <2> USE <1>3 DEF FileVanished, FileFails, Processing
  <2>1. /\ scan' \in Scan /\ scan'.job = scan.job /\ scan'.stage = "mark" /\ scan'.stale = {}
        /\ jobs' = jobs /\ scan # NULL
    BY <1>t, <1>st, <1>w, PassedFacts DEF MovedPast
  <2>2. ScanSane'
    BY <2>1 DEF ScanSane
  <2>3. PathsUnique' /\ FreshIsNotOld'
    BY <2>1, RowsKept
  <2>4. CASE FileVanished(p)
    BY <2>1, <2>2, <2>3, <2>4 DEF TypeOK
  <2>5. CASE FileFails(p)
    BY <2>1, <2>2, <2>3, <2>5 DEF TypeOK
  <2> QED BY <2>4, <2>5
<1>4. ASSUME NEW p \in Paths, FileUnchanged(p) PROVE RowsInv'
  <2> USE <1>4 DEF FileUnchanged, Processing
  <2>1. PICK r \in ByPath(p) : /\ rows' = [rows EXCEPT ![r].missing = "no"]
                               /\ fresh' = fresh \cup {r}
    OBVIOUS
  <2>2. r \in Live /\ r \in RowIds /\ rows[r] \in Row /\ rows[r].path = p
    BY <1>t DEF ByPath
  <2> DEFINE row == [rows[r] EXCEPT !.missing = "no"]
  <2>3. row \in Row /\ row.missing = "no" /\ row.path = p
    BY <2>2 DEF Row, Missing
  <2>4. rows' = [rows EXCEPT ![r] = row]
    BY <2>1
  <2>5. \A s \in Live : rows[s].path = row.path => s = r
    BY <2>2, <2>3 DEF PathsUnique
  <2>6. /\ scan' \in Scan /\ scan'.job = scan.job /\ scan'.stage = "mark"
        /\ scan'.stale = scan.stale
    <3>1. scan' = Passed(p, {p}, "mark") /\ scan \in Scan /\ "mark" \in Stages
      BY <1>t, <1>st
    <3>2. MovedPast(scan', p, "mark")
      BY ONLY <3>1, p \in Paths, PassedFacts
    <3>3. p # NULL
      OBVIOUS
    <3> QED BY ONLY <3>2, <3>3 DEF MovedPast
  <2> HIDE DEF row
  <2>7. /\ rows' \in [RowIds -> Row \cup {NULL}] /\ fresh' \subseteq RowIds
        /\ PathsUnique' /\ FreshIsNotOld'
    <3>1. scan # NULL /\ scan.stage = "walk"
      OBVIOUS
    <3>2. RowsInv
      OBVIOUS
    <3> QED BY ONLY <2>1, <2>2, <2>3, <2>4, <2>5, <2>6, <3>1, <3>2, SeenRow
  <2>8. ScanSane'
    BY <2>6 DEF ScanSane
  <2> QED BY <2>6, <2>7, <2>8 DEF TypeOK
<1>5. ASSUME NEW p \in Paths, FileReencoded(p) PROVE RowsInv'
  <2> USE <1>5 DEF FileReencoded, Processing
  <2>1. PICK r \in ByPath(p) :
          /\ rows' = [rows EXCEPT ![r].hash = disk[p], ![r].missing = "no", ![r].probed = FALSE]
          /\ fresh' = fresh \cup {r}
    OBVIOUS
  <2>2. r \in Live /\ r \in RowIds /\ rows[r] \in Row /\ rows[r].path = p /\ disk[p] \in Contents
    BY <1>t DEF ByPath, Visible
  <2> DEFINE row == [rows[r] EXCEPT !.hash = disk[p], !.missing = "no", !.probed = FALSE]
  <2>3. row \in Row /\ row.missing = "no" /\ row.path = p
    BY <2>2 DEF Row, Missing
  <2>4. rows' = [rows EXCEPT ![r] = row]
    <3>1. rows \in [RowIds -> Row \cup {NULL}]
      BY DEF TypeOK
    <3>2. [rows EXCEPT ![r].hash = disk[p], ![r].missing = "no", ![r].probed = FALSE]
            = [rows EXCEPT ![r] = [rows[r] EXCEPT !.hash = disk[p], !.missing = "no", !.probed = FALSE]]
      BY ONLY <2>2, <3>1
    <3>3. rows' = [rows EXCEPT ![r].hash = disk[p], ![r].missing = "no", ![r].probed = FALSE]
      BY ONLY <2>1
    <3> QED BY ONLY <3>2, <3>3 DEF row
  <2>5. \A s \in Live : rows[s].path = row.path => s = r
    BY <2>2, <2>3 DEF PathsUnique
  <2>6. /\ scan' \in Scan /\ scan'.job = scan.job /\ scan'.stage = "enqueue"
        /\ scan'.stale = scan.stale /\ scan'.last # NULL
    <3>1. scan' = Passed(p, {}, "enqueue") /\ scan \in Scan /\ "enqueue" \in Stages
      BY <1>t, <1>st
    <3>2. MovedPast(scan', p, "enqueue")
      BY ONLY <3>1, p \in Paths, PassedFacts
    <3>3. p # NULL
      OBVIOUS
    <3> QED BY ONLY <3>2, <3>3 DEF MovedPast
  <2> HIDE DEF row
  <2>7. /\ rows' \in [RowIds -> Row \cup {NULL}] /\ fresh' \subseteq RowIds
        /\ PathsUnique' /\ FreshIsNotOld'
    <3>1. scan # NULL /\ scan.stage = "walk"
      OBVIOUS
    <3>2. RowsInv
      OBVIOUS
    <3> QED BY ONLY <2>1, <2>2, <2>3, <2>4, <2>5, <2>6, <3>1, <3>2, SeenRow
  <2>8. ScanSane'
    BY <2>6 DEF ScanSane
  <2> QED BY <2>6, <2>7, <2>8 DEF TypeOK
<1>6. ASSUME NEW p \in Paths, FileRelocated(p) PROVE RowsInv'
  <2> USE <1>6 DEF FileRelocated, Processing
  <2>1. PICK r \in ByHash(disk[p]) : /\ rows' = [rows EXCEPT ![r].path = p, ![r].missing = "no"]
                                     /\ fresh' = fresh \cup {r}
                                     /\ excused' = (excused \/ IsCopy(r))
    OBVIOUS
  <2>2. r \in Live /\ r \in RowIds /\ rows[r] \in Row
    BY <1>t DEF ByHash
  <2> DEFINE row == [rows[r] EXCEPT !.path = p, !.missing = "no"]
  <2>3. row \in Row /\ row.missing = "no" /\ row.path = p
    BY <2>2 DEF Row, Missing
  <2>4. rows' = [rows EXCEPT ![r] = row]
    <3>1. rows \in [RowIds -> Row \cup {NULL}]
      BY DEF TypeOK
    <3>2. [rows EXCEPT ![r].path = p, ![r].missing = "no"]
            = [rows EXCEPT ![r] = [rows[r] EXCEPT !.path = p, !.missing = "no"]]
      BY ONLY <2>2, <3>1
    <3>3. rows' = [rows EXCEPT ![r].path = p, ![r].missing = "no"]
      BY ONLY <2>1
    <3> QED BY ONLY <3>2, <3>3 DEF row
  <2>5. \A s \in Live : rows[s].path = row.path => s = r
    BY <2>3 DEF ByPath
  <2>6. /\ scan' \in Scan /\ scan'.job = scan.job /\ scan'.stage = "mark"
        /\ scan'.stale = scan.stale
    <3>1. scan' = Passed(p, {p}, "mark") /\ scan \in Scan /\ "mark" \in Stages
      BY <1>t, <1>st
    <3>2. MovedPast(scan', p, "mark")
      BY ONLY <3>1, p \in Paths, PassedFacts
    <3>3. p # NULL
      OBVIOUS
    <3> QED BY ONLY <3>2, <3>3 DEF MovedPast
  <2> HIDE DEF row
  <2>7. /\ rows' \in [RowIds -> Row \cup {NULL}] /\ fresh' \subseteq RowIds
        /\ PathsUnique' /\ FreshIsNotOld'
    <3>1. scan # NULL /\ scan.stage = "walk"
      OBVIOUS
    <3>2. RowsInv
      OBVIOUS
    <3> QED BY ONLY <2>1, <2>2, <2>3, <2>4, <2>5, <2>6, <3>1, <3>2, SeenRow
  <2>8. ScanSane'
    BY <2>6 DEF ScanSane
  <2>9. excused' \in BOOLEAN
    BY <2>1
  <2> QED BY <2>6, <2>7, <2>8, <2>9 DEF TypeOK
<1>7. ASSUME NEW p \in Paths, FileAdded(p) PROVE RowsInv'
  <2> USE <1>7 DEF FileAdded, Processing
  <2>1. FreeRow \in RowIds /\ rows[FreeRow] = NULL
    BY DEF FreeRow, Live
  <2>2. disk[p] \in Contents /\ Lib \in Libraries
    BY <1>t DEF Visible, Lib, Job
  <2> DEFINE row == NewRow(p, disk[p], Lib)
             r == FreeRow
  <2>3. row \in Row /\ row.missing = "no" /\ row.path = p
    BY <2>2 DEF NewRow, Row, Missing
  <2>4. \A s \in Live : rows[s].path = row.path => s = r
    BY <2>3 DEF ByPath
  <2>5. /\ scan' \in Scan /\ scan'.job = scan.job /\ scan'.stage = "enqueue"
        /\ scan'.stale = scan.stale /\ scan'.last # NULL
    <3>1. scan' = Passed(p, {}, "enqueue") /\ scan \in Scan /\ "enqueue" \in Stages
      BY <1>t, <1>st
    <3>2. MovedPast(scan', p, "enqueue")
      BY ONLY <3>1, p \in Paths, PassedFacts
    <3>3. p # NULL
      OBVIOUS
    <3> QED BY ONLY <3>2, <3>3 DEF MovedPast
  <2>6. /\ rows' \in [RowIds -> Row \cup {NULL}] /\ fresh' \subseteq RowIds
        /\ PathsUnique' /\ FreshIsNotOld'
    <3>1. rows' = [rows EXCEPT ![r] = row] /\ fresh' = fresh \cup {r} /\ r \in RowIds
      BY <2>1
    <3> HIDE DEF row, r
    <3> QED BY <2>3, <2>4, <2>5, <3>1, SeenRow
  <2>7. ScanSane'
    BY <2>5 DEF ScanSane
  <2> QED BY <2>5, <2>6, <2>7 DEF TypeOK
<1>8. ASSUME EnqueueProbe PROVE RowsInv'
  <2> USE <1>8 DEF EnqueueProbe
  <2>1. \A r \in RowIds : /\ rows'[r] = NULL <=> rows[r] = NULL
                          /\ rows[r] # NULL => /\ rows'[r] \in Row
                                               /\ rows'[r].path = rows[r].path
                                               /\ rows'[r].missing = rows[r].missing
    <3>0. rows' = [r \in RowIds |-> IF r \in ByPath(scan.last) THEN [rows[r] EXCEPT !.probed = TRUE]
                                                              ELSE rows[r]]
      OBVIOUS
    <3> TAKE r \in RowIds
    <3>1. CASE r \notin ByPath(scan.last)
      <4>1. rows'[r] = rows[r]
        BY ONLY <3>0, <3>1
      <4>2. rows[r] # NULL => rows[r] \in Row
        BY <1>t DEF Live
      <4> QED BY ONLY <4>1, <4>2
    <3>2. CASE r \in ByPath(scan.last)
      <4>1. rows[r] \in Row
        BY <1>t, <3>2 DEF ByPath, Live
      <4>2. rows'[r] = [rows[r] EXCEPT !.probed = TRUE]
        BY ONLY <3>0, <3>2
      <4>3. rows'[r] \in Row /\ rows'[r].path = rows[r].path /\ rows'[r].missing = rows[r].missing
        BY ONLY <4>1, <4>2 DEF Row
      <4> QED BY ONLY <4>1, <4>3, NullAssumption
    <3> QED BY <3>1, <3>2
  <2>2. rows' \in [RowIds -> Row \cup {NULL}]
    BY <2>1
  <2>3. scan.last \in Paths
    BY <1>t DEF ScanSane, Scan
  <2>4. scan' \in Scan /\ scan'.job = scan.job /\ scan'.stage = "mark" /\ scan'.stale = {}
    BY <1>t, <1>st, <1>w, <2>3 DEF Scan
  <2>5. PathsUnique'
    BY <2>1 DEF PathsUnique, Live
  <2>6. FreshIsNotOld'
    BY <2>1, <2>4 DEF FreshIsNotOld, Live
  <2>7. ScanSane'
    BY <2>4 DEF ScanSane
  <2> QED BY <2>2, <2>4, <2>5, <2>6, <2>7 DEF TypeOK
<1>9. ASSUME EnqueueFails PROVE RowsInv'
  <2> USE <1>9 DEF EnqueueFails
  <2>1. scan' \in Scan /\ scan'.job = scan.job /\ scan'.stage = "mark" /\ scan'.stale = {}
    BY <1>t, <1>st, <1>w, StageFacts
  <2>2. PathsUnique' /\ FreshIsNotOld'
    BY <2>1, RowsKept
  <2>3. ScanSane'
    BY <2>1 DEF ScanSane
  <2> QED BY <2>1, <2>2, <2>3 DEF TypeOK
<1>10. ASSUME MaybeCheckpoint PROVE RowsInv'
  <2> USE <1>10 DEF MaybeCheckpoint
  <2>1. scan' \in Scan /\ scan'.job = scan.job /\ scan'.stage = "walk" /\ scan'.stale = {}
    BY <1>t, <1>st, <1>w, StageFacts
  <2>2. jobs' = jobs \/ jobs' = [jobs EXCEPT ![scan.job].ckpt = scan.last]
    OBVIOUS
  <2>3. jobs' \in [JobIds -> Job \cup {NULL}] /\ ScanSane'
    BY <1>t, <2>1, <2>2, CheckpointKeepsJobs
  <2>4. PathsUnique' /\ FreshIsNotOld'
    BY <2>1, RowsKept
  <2> QED BY <2>1, <2>3, <2>4 DEF TypeOK
<1>11. ASSUME WalkEnds PROVE RowsInv'
  <2> USE <1>11 DEF WalkEnds
  <2> DEFINE stage == IF jobs[scan.job].full THEN "sweep" ELSE "finish"
  <2>1. stage \in {"sweep", "finish"}
    OBVIOUS
  <2>2. scan' = [scan EXCEPT !.stage = stage]
    OBVIOUS
  <2> HIDE DEF stage
  <2>3. /\ scan' \in Scan /\ scan'.job = scan.job /\ scan'.stage # "enqueue"
        /\ scan'.stage # "purge" /\ scan'.stale = {}
    BY <1>t, <1>st, <1>w, <2>1, <2>2, StageFacts
  <2>4. jobs' \in [JobIds -> Job \cup {NULL}] /\ ScanSane'
    BY <1>t, <2>3, CheckpointKeepsJobs
  <2>5. PathsUnique' /\ FreshIsNotOld'
    BY <2>3, RowsKept
  <2>6. excused' \in BOOLEAN
    BY <1>t DEF TypeOK
  <2> QED BY <2>3, <2>4, <2>5, <2>6 DEF TypeOK
<1>12. ASSUME MarkFileMissing PROVE RowsInv'
  <2> USE <1>12 DEF MarkFileMissing
  <2>1. PICK r \in Unseen : rows' = [rows EXCEPT ![r].missing = "recent"]
    OBVIOUS
  <2>2. r \in RowIds /\ rows[r] \in Row
    BY <1>t DEF Unseen, OfLibrary
  <2> DEFINE row == [rows[r] EXCEPT !.missing = "recent"]
  <2>3. row \in Row /\ row.missing = "recent" /\ row.path = rows[r].path
    BY <2>2 DEF Row, Missing
  <2>4. rows' = [rows EXCEPT ![r] = row]
    BY <2>1
  <2> HIDE DEF row
  <2>5. /\ rows' \in [RowIds -> Row \cup {NULL}] /\ rows'[r] = row
        /\ \A s \in RowIds : s # r => rows'[s] = rows[s]
    BY <2>2, <2>3, <2>4 DEF TypeOK
  <2>6. PathsUnique'
    BY <2>2, <2>3, <2>5 DEF PathsUnique, Live
  <2>7. FreshIsNotOld'
    BY <2>2, <2>3, <2>5 DEF FreshIsNotOld, Live
  <2> QED BY <2>5, <2>6, <2>7 DEF TypeOK, ScanSane
<1>13. ASSUME SweepEnds PROVE RowsInv'
  <2> USE <1>13 DEF SweepEnds
  <2>1. Stale(Lib) \in SUBSET RowIds /\ \A r \in Stale(Lib) : r \in Live /\ rows[r].missing = "old"
    BY DEF Stale, OfLibrary, Live
  <2>2. /\ scan' \in Scan /\ scan'.job = scan.job /\ scan'.stage = "purge"
        /\ scan'.stale = Stale(Lib)
    BY <1>t, <1>st, <2>1 DEF Scan
  <2>3. FreshIsNotOld'
    BY <2>1, <2>2 DEF FreshIsNotOld, Live
  <2> QED BY <2>2, <2>3 DEF TypeOK, ScanSane, PathsUnique, Live
<1>14. ASSUME DeleteMediaFile PROVE RowsInv'
  <2> USE <1>14 DEF DeleteMediaFile
  <2>1. PICK r \in scan.stale : /\ rows' = [rows EXCEPT ![r] = NULL]
                               /\ scan' = [scan EXCEPT !.stale = scan.stale \ {r}]
                               /\ excused' = (excused \/ Astray(r))
                               /\ quiet' = IF Astray(r) THEN {} ELSE quiet
    OBVIOUS
  <2>2. r \in RowIds /\ scan.stale \in SUBSET RowIds
    BY <1>t DEF Scan
  <2>3. scan.stale \ {r} \in SUBSET RowIds
    BY <2>2
  <2>4. /\ scan' \in Scan /\ scan'.job = scan.job /\ scan'.stage = "purge"
        /\ scan'.stale = scan.stale \ {r}
    BY <1>t, <1>st, <2>1, <2>3 DEF Scan
  <2>5. /\ rows' \in [RowIds -> Row \cup {NULL}] /\ rows'[r] = NULL
        /\ \A s \in RowIds : s # r => rows'[s] = rows[s]
    BY <2>1, <2>2 DEF TypeOK
  <2>6. PathsUnique'
    BY <2>2, <2>5 DEF PathsUnique, Live
  <2>7. FreshIsNotOld'
    BY <2>2, <2>4, <2>5 DEF FreshIsNotOld, Live
  <2>8. quiet' \subseteq JobIds /\ excused' \in BOOLEAN
    BY <2>1, Zenon DEF TypeOK
  <2> QED BY <2>4, <2>5, <2>6, <2>7, <2>8 DEF TypeOK, ScanSane
<1>15. ASSUME PurgeEnds PROVE RowsInv'
  <2> USE <1>15 DEF PurgeEnds
  <2>1. scan' \in Scan /\ scan'.job = scan.job /\ scan'.stage = "finish" /\ scan'.stale = {}
    BY <1>t, <1>st, StageFacts
  <2>2. PathsUnique' /\ FreshIsNotOld'
    BY <2>1, RowsKept
  <2> QED BY <2>1, <2>2 DEF TypeOK, ScanSane
<1>16. ASSUME Finish PROVE RowsInv'
  <2> USE <1>16 DEF Finish
  <2>1. jobs' \in [JobIds -> Job \cup {NULL}] /\ ScanSane'
    BY <1>t DEF TypeOK, ScanSane
  <2>2. PathsUnique' /\ FreshIsNotOld'
    BY RowsKept
  <2> QED BY <2>1, <2>2 DEF TypeOK
<1>17. ASSUME AttemptFails PROVE RowsInv'
  <2> USE <1>17 DEF AttemptFails
  <2>1. jobs' \in [JobIds -> Job \cup {NULL}] /\ ScanSane'
    BY RequeuedFacts
  <2>2. PathsUnique' /\ FreshIsNotOld'
    BY RowsKept
  <2>3. excused' \in BOOLEAN /\ faults' \in Nat
    BY DEF TypeOK
  <2> QED BY <2>1, <2>2, <2>3 DEF TypeOK
<1>18. ASSUME Crash PROVE RowsInv'
  <2> USE <1>18 DEF Crash
  <2>1. jobs' \in [JobIds -> Job \cup {NULL}] /\ ScanSane'
    <3>1. CASE scan = NULL
      BY <3>1 DEF TypeOK, ScanSane
    <3>2. CASE scan # NULL
      BY <3>2, RequeuedFacts
    <3> QED BY <3>1, <3>2
  <2>2. PathsUnique' /\ FreshIsNotOld'
    BY RowsKept
  <2>3. excused' \in BOOLEAN /\ faults' \in Nat
    BY DEF TypeOK
  <2> QED BY <2>1, <2>2, <2>3 DEF TypeOK
<1>19. ASSUME NEW l \in Libraries, NEW full \in BOOLEAN, RequestScan(l, full) PROVE RowsInv'
  <2> USE <1>19 DEF RequestScan
  <2>1. CASE FreeJobs = {}
    <3>1. JobIds = {}
      BY <2>1
    <3>2. jobs' \in [JobIds -> Job \cup {NULL}] /\ scan = NULL
      BY <1>t, <3>1 DEF TypeOK, Enqueued
    <3>3. ScanSane'
      BY <3>1, <3>2 DEF ScanSane
    <3>4. PathsUnique' /\ FreshIsNotOld'
      BY RowsKept
    <3> QED BY <3>2, <3>3, <3>4 DEF TypeOK
  <2>2. CASE FreeJobs # {}
    <3>1. jobs' \in [JobIds -> Job \cup {NULL}] /\ ScanSane'
      BY <2>2, EnqueueStep
    <3>2. PathsUnique' /\ FreshIsNotOld'
      BY RowsKept
    <3> QED BY <3>1, <3>2 DEF TypeOK
  <2> QED BY <2>1, <2>2
<1>20. ASSUME NEW l \in Libraries, WatchScan(l) PROVE RowsInv'
  <2> USE <1>20 DEF WatchScan
  <2>1. jobs' \in [JobIds -> Job \cup {NULL}] /\ ScanSane'
    <3>1. FALSE \in BOOLEAN
      OBVIOUS
    <3> QED BY <3>1, EnqueueStep
  <2>2. PathsUnique' /\ FreshIsNotOld'
    BY RowsKept
  <2> QED BY <2>1, <2>2 DEF TypeOK
<1>21. ASSUME NEW l \in Libraries, WatchScanFails(l) PROVE RowsInv'
  BY <1>21, RowsKept DEF WatchScanFails, TypeOK, ScanSane
<1>22. ASSUME NEW l \in Libraries, Unmount(l) \/ Mount(l) PROVE RowsInv'
  <2>1. PathsUnique' /\ FreshIsNotOld'
    BY <1>22, RowsKept DEF Unmount, Mount, Activity
  <2> QED BY <1>22, <2>1 DEF Unmount, Mount, Activity, Change, TypeOK, ScanSane
<1>23. ASSUME NEW p \in Paths, NEW c \in Contents \cup {NULL}, ChangeFile(p, c) PROVE RowsInv'
  <2>1. PathsUnique' /\ FreshIsNotOld'
    BY <1>23, RowsKept DEF ChangeFile, Activity
  <2> QED BY <1>23, <2>1 DEF ChangeFile, Activity, Change, TypeOK, ScanSane
<1>24. ASSUME NEW p \in Paths, NEW q \in Paths, MoveFile(p, q) PROVE RowsInv'
  <2>1. PathsUnique' /\ FreshIsNotOld'
    BY <1>24, RowsKept DEF MoveFile, Activity
  <2> QED BY <1>24, <2>1 DEF MoveFile, Activity, Change, TypeOK, ScanSane
<1>25. ASSUME Age PROVE RowsInv'
  <2> USE <1>25 DEF Age
  <2>1. \A r \in RowIds : /\ rows'[r] = NULL <=> rows[r] = NULL
                          /\ rows[r] # NULL => /\ rows'[r] \in Row
                                               /\ rows'[r].path = rows[r].path
    BY <1>t DEF Row, Live, Missing
  <2>2. rows' \in [RowIds -> Row \cup {NULL}]
    BY <2>1
  <2>3. PathsUnique'
    BY <2>1 DEF PathsUnique, Live
  <2>4. FreshIsNotOld'
    BY DEF FreshIsNotOld
  <2> QED BY <2>2, <2>3, <2>4 DEF TypeOK, ScanSane
<1>26. CASE UNCHANGED vars
  <2>1. PathsUnique' /\ FreshIsNotOld'
    BY <1>26, RowsKept
  <2> QED BY <1>26, <2>1 DEF TypeOK, ScanSane
<1> QED
  BY <1>1, <1>2, <1>3, <1>4, <1>5, <1>6, <1>7, <1>8, <1>9, <1>10, <1>11, <1>12, <1>13, <1>14,
     <1>15, <1>16, <1>17, <1>18, <1>19, <1>20, <1>21, <1>22, <1>23, <1>24, <1>25, <1>26
  DEF Next, ScanStep, Fault, World

\* The first states satisfy the invariant.
LEMMA Initial == Init => RowsInv
<1> SUFFICES ASSUME Init PROVE RowsInv
  OBVIOUS
<1> USE ScanAssumption, NullAssumption DEF Init
<1>1. \A l \in Libraries : NewJob(l, TRUE) \in Job /\ NewJob(l, TRUE).attempts = 0
  BY NewJobFacts, Zenon
<1> DEFINE first == {NewJob(l, TRUE) : l \in Libraries}
<1>f. \A job \in first : job \in Job /\ job.attempts = 0
  <2> TAKE job \in first
  <2>1. PICK l \in Libraries : job = NewJob(l, TRUE)
    BY Zenon
  <2>2. NewJob(l, TRUE) \in Job /\ NewJob(l, TRUE).attempts = 0
    BY <1>1, Zenon
  <2> QED BY <2>1, <2>2, Zenon
<1>g. jobs \in [JobIds -> first \cup {NULL}]
  OBVIOUS
<1> HIDE DEF first
<1>2. /\ jobs \in [JobIds -> Job \cup {NULL}]
      /\ \A j \in JobIds : jobs[j] # NULL => jobs[j].attempts = 0
  BY <1>f, <1>g
<1>3. rows \in [RowIds -> Row \cup {NULL}] /\ Live = {}
  BY DEF Live
<1>4. TypeOK
  BY <1>2, <1>3 DEF TypeOK
<1> QED BY <1>2, <1>3, <1>4 DEF RowsInv, PathsUnique, FreshIsNotOld, ScanSane

\* In every reachable state of the scanner the values have their types, no two
\* rows describe one path and no recently seen row is stale.
LEMMA RowsInvariance == Spec => []RowsInv
BY Initial, Inductive, PTL DEF Spec

\* A step deletes only rows of the running scan's stale list, and the invariant
\* keeps those apart from the rows seen in this grace period.
LEMMA DeletionStep ==
  RowsInv /\ [Next]_vars => [\A r \in RowIds : rows[r] # NULL /\ rows'[r] = NULL => r \notin fresh]_vars
<1> SUFFICES ASSUME RowsInv, Next, NEW r \in RowIds, rows[r] # NULL, rows'[r] = NULL
             PROVE r \notin fresh
  OBVIOUS
<1>1. CASE DeleteMediaFile
  BY <1>1 DEF DeleteMediaFile, RowsInv, TypeOK, FreshIsNotOld
<1>t. rows[r] \in Row /\ rows \in [RowIds -> Row \cup {NULL}] /\ disk \in [Paths -> Contents \cup {NULL}]
  BY DEF RowsInv, TypeOK
<1>2. ASSUME NEW p \in Paths, FileUnchanged(p) PROVE FALSE
  <2>1. PICK s \in ByPath(p) : rows' = [rows EXCEPT ![s].missing = "no"]
    BY <1>2 DEF FileUnchanged
  <2>2. rows'[r] = rows[r] \/ rows'[r] = [rows[r] EXCEPT !.missing = "no"]
    BY <1>t, <2>1
  <2>3. [rows[r] EXCEPT !.missing = "no"] \in Row
    BY <1>t DEF Row, Missing
  <2> QED BY <2>2, <2>3, NullAssumption
<1>3. ASSUME NEW p \in Paths, FileReencoded(p) PROVE FALSE
  <2>1. PICK s \in ByPath(p) :
          rows' = [rows EXCEPT ![s].hash = disk[p], ![s].missing = "no", ![s].probed = FALSE]
    BY <1>3 DEF FileReencoded
  <2> DEFINE row == [rows[r] EXCEPT !.hash = disk[p], !.missing = "no", !.probed = FALSE]
  <2>2. rows'[r] = rows[r] \/ rows'[r] = row
    BY <1>t, <2>1
  <2>3. row \in Row
    BY <1>3, <1>t DEF Row, Missing, FileReencoded, Visible
  <2> QED BY <2>2, <2>3, NullAssumption
<1>4. ASSUME NEW p \in Paths, FileRelocated(p) PROVE FALSE
  <2>1. PICK s \in ByHash(disk[p]) : rows' = [rows EXCEPT ![s].path = p, ![s].missing = "no"]
    BY <1>4 DEF FileRelocated
  <2> DEFINE row == [rows[r] EXCEPT !.path = p, !.missing = "no"]
  <2>2. rows'[r] = rows[r] \/ rows'[r] = row
    BY <1>t, <2>1
  <2>3. row \in Row
    BY <1>t DEF Row, Missing
  <2> QED BY <2>2, <2>3, NullAssumption
<1>5. ASSUME NEW p \in Paths, FileAdded(p) PROVE FALSE
  <2>1. FreeRow # r
    BY <1>5 DEF FileAdded, FreeRow, Live
  <2> QED BY <1>5, <1>t, <2>1 DEF FileAdded
<1>6. ASSUME EnqueueProbe PROVE FALSE
  <2>1. rows'[r] = rows[r] \/ rows'[r] = [rows[r] EXCEPT !.probed = TRUE]
    BY <1>6 DEF EnqueueProbe
  <2>2. [rows[r] EXCEPT !.probed = TRUE] \in Row
    BY <1>t DEF Row
  <2> QED BY <2>1, <2>2, NullAssumption
<1>7. ASSUME MarkFileMissing PROVE FALSE
  <2>1. PICK s \in Unseen : rows' = [rows EXCEPT ![s].missing = "recent"]
    BY <1>7 DEF MarkFileMissing
  <2>2. rows'[r] = rows[r] \/ rows'[r] = [rows[r] EXCEPT !.missing = "recent"]
    BY <1>t, <2>1
  <2>3. [rows[r] EXCEPT !.missing = "recent"] \in Row
    BY <1>t DEF Row, Missing
  <2> QED BY <2>2, <2>3, NullAssumption
<1>8. ASSUME Age PROVE FALSE
  <2>1. rows'[r] = rows[r] \/ rows'[r] = [rows[r] EXCEPT !.missing = "old"]
    BY <1>8 DEF Age
  <2>2. [rows[r] EXCEPT !.missing = "old"] \in Row
    BY <1>t DEF Row, Missing
  <2> QED BY <2>1, <2>2, NullAssumption
<1> QED
  BY <1>1, <1>2, <1>3, <1>4, <1>5, <1>6, <1>7, <1>8
  DEF Next, ScanStep, Fault, World, BeginAttempt, SkipFile, FileVanished, FileFails, EnqueueFails,
      MaybeCheckpoint, WalkEnds, SweepEnds, PurgeEnds, Finish, AttemptFails, Crash, RequestScan,
      WatchScan, WatchScanFails, Unmount, Mount, ChangeFile, MoveFile, Activity, bounds

\* deleteMediaFile never removes the row of a file some scan saw within the
\* grace period, whatever fails, unmounts or is renamed in between.
THEOREM NoEarlyDeletion == Spec => DeletesOnlyLongUnseen
BY RowsInvariance, DeletionStep, PTL DEF Spec, DeletesOnlyLongUnseen
=============================================================================
