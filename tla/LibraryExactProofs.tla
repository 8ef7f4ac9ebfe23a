--------------------------- MODULE LibraryExactProofs ---------------------------
(***************************************************************************)
(* Machine-checked proofs about what a scan job leaves behind, on top of   *)
(* what LibraryScanProofs proves of the rows.                              *)
(***************************************************************************)
EXTENDS LibraryScanProofs

-----------------------------------------------------------------------------
(* The scan's record.                                                      *)

\* What moving past a file does to every field.
LEMMA PassedFields ==
  ASSUME scan \in Scan, NEW p \in Paths, NEW new, NEW stage
  PROVE /\ Passed(p, new, stage).job = scan.job /\ Passed(p, new, stage).stage = stage
        /\ Passed(p, new, stage).todo = scan.todo \ {p}
        /\ Passed(p, new, stage).seen = scan.seen \cup new
        /\ Passed(p, new, stage).target = scan.target /\ Passed(p, new, stage).last = p
        /\ Passed(p, new, stage).stale = scan.stale
<1> DEFINE todo == scan.todo \ {p}
           seen == scan.seen \cup new
           n == scan.n + 1
<1>1. scan = [job |-> scan.job, stage |-> scan.stage, todo |-> scan.todo, seen |-> scan.seen,
              target |-> scan.target, last |-> scan.last, n |-> scan.n, stale |-> scan.stale]
  BY DEF Scan
<1>2. Passed(p, new, stage) =
        [scan EXCEPT !.stage = stage, !.todo = todo, !.last = p, !.n = n, !.seen = seen]
  BY DEF Passed
<1> HIDE DEF todo, seen, n
<1>3. Passed(p, new, stage) =
        [job |-> scan.job, stage |-> stage, todo |-> todo, seen |-> seen,
         target |-> scan.target, last |-> p, n |-> n, stale |-> scan.stale]
  BY <1>1, <1>2
<1> QED BY <1>3 DEF todo, seen

\* What the invariant gives of a running scan.
LEMMA ScanFacts ==
  ASSUME RowsInv, scan # NULL
  PROVE /\ scan \in Scan /\ scan.job \in JobIds /\ jobs[scan.job] \in Job /\ jobs[scan.job] # NULL
        /\ scan.todo \subseteq Paths /\ scan.seen \subseteq Paths /\ scan.stale \subseteq RowIds
        /\ scan.target \in Paths \cup {NULL} /\ scan.last \in Paths \cup {NULL}
        /\ Lib \in Libraries
        /\ scan.stage # "purge" => scan.stale = {}
BY DEF RowsInv, TypeOK, ScanSane, FreshIsNotOld, Scan, Job, Lib

-----------------------------------------------------------------------------
(* Settled files.                                                          *)

\* Only path, content, library and presence matter.
LEMMA SettledAlike ==
  ASSUME disk' = disk,
         \A r \in RowIds :
           /\ rows'[r] = NULL <=> rows[r] = NULL
           /\ rows[r] # NULL => /\ rows'[r].path = rows[r].path /\ rows'[r].hash = rows[r].hash
                                /\ rows'[r].lib = rows[r].lib
                                /\ rows'[r].missing = "no" <=> rows[r].missing = "no",
         NEW p \in Paths, Settled(p)
  PROVE Settled(p)'
<1>1. Live' = Live
  BY DEF Live
<1>2. ByPath(p)' = ByPath(p)
  BY <1>1 DEF ByPath, Live
<1>3. \A r \in ByPath(p) : r \in RowIds /\ rows[r] # NULL
  BY DEF ByPath, Live
<1>4. Sole(p)' = Sole(p)
  BY DEF Sole
<1>5. HasRow(p, LibOf[p]) => HasRow(p, LibOf[p])'
  BY <1>2, <1>3 DEF HasRow
<1> QED BY <1>2, <1>3, <1>4, <1>5 DEF Settled

\* Row r now describes the file at p, which no other row did.
Describes(r, row, p) ==
  /\ r \in RowIds /\ row \in Row
  /\ rows' = [rows EXCEPT ![r] = row]
  /\ row.path = p /\ row.missing = "no" /\ row.hash = disk[p]
  /\ \A s \in Live : rows[s].path = p => s = r
  /\ r \in Live => row.lib = rows[r].lib /\ (rows[r].path = p \/ rows[r].hash = disk[p])
  /\ \/ r \in Live /\ row.probed = rows[r].probed
     \/ scan'.stage = "enqueue"

\* The four ways a file that is there is processed.
LEMMA FileDescribed ==
  ASSUME RowsInv, NEW p \in Paths,
         FileUnchanged(p) \/ FileReencoded(p) \/ FileRelocated(p) \/ FileAdded(p)
  PROVE \E r, row : Describes(r, row, p)
<1> USE DEF Processing
<1>t. /\ rows \in [RowIds -> Row \cup {NULL}] /\ scan # NULL /\ scan \in Scan /\ Lib \in Libraries
      /\ disk[p] \in Contents /\ \A r \in Live : r \in RowIds /\ rows[r] \in Row
  BY ScanFacts, NullAssumption DEF RowsInv, TypeOK, Live, Visible, FileUnchanged, FileReencoded,
     FileRelocated, FileAdded
<1>u. \A r \in ByPath(p) : r \in Live /\ rows[r].path = p /\ \A s \in Live : rows[s].path = p => s = r
  BY DEF RowsInv, PathsUnique, ByPath
<1>1. CASE FileUnchanged(p)
  <2>1. PICK r \in ByPath(p) : rows[r].hash = disk[p] /\ rows' = [rows EXCEPT ![r].missing = "no"]
    BY <1>1 DEF FileUnchanged
  <2> DEFINE row == [rows[r] EXCEPT !.missing = "no"]
  <2>2. row \in Row /\ row.missing = "no" /\ row.path = p /\ row.hash = disk[p]
        /\ row.lib = rows[r].lib /\ row.probed = rows[r].probed
    BY <1>t, <1>u, <2>1 DEF Row, Missing
  <2>3. rows' = [rows EXCEPT ![r] = row]
    BY <2>1
  <2> HIDE DEF row
  <2> QED BY <1>t, <1>u, <2>1, <2>2, <2>3 DEF Describes
<1>2. CASE FileReencoded(p)
  <2>1. PICK r \in ByPath(p) :
          rows' = [rows EXCEPT ![r].hash = disk[p], ![r].missing = "no", ![r].probed = FALSE]
    BY <1>2 DEF FileReencoded
  <2> DEFINE row == [rows[r] EXCEPT !.hash = disk[p], !.missing = "no", !.probed = FALSE]
  <2>2. row \in Row /\ row.missing = "no" /\ row.path = p /\ row.hash = disk[p]
        /\ row.lib = rows[r].lib
    BY <1>t, <1>u, <2>1 DEF Row, Missing
  <2>3. rows' = [rows EXCEPT ![r] = row]
    <3>1. [rows EXCEPT ![r].hash = disk[p], ![r].missing = "no", ![r].probed = FALSE]
            = [rows EXCEPT ![r] = [rows[r] EXCEPT !.hash = disk[p], !.missing = "no", !.probed = FALSE]]
      BY ONLY <1>t, <1>u
    <3> QED BY ONLY <2>1, <3>1 DEF row
  <2>4. scan'.stage = "enqueue"
    <3>1. scan' = Passed(p, {}, "enqueue")
      BY <1>2, Zenon DEF FileReencoded
    <3> QED BY ONLY <1>t, <3>1, p \in Paths, PassedFields
  <2> HIDE DEF row
  <2>5. r \in Live
    BY <1>u
  <2>6. row.path = p /\ rows[r].path = p /\ \A s \in Live : rows[s].path = p => s = r
    BY <1>u, <2>2
  <2> QED BY ONLY <1>t, <2>2, <2>3, <2>4, <2>5, <2>6 DEF Describes
<1>3. CASE FileRelocated(p)
  <2>1. PICK r \in ByHash(disk[p]) : rows' = [rows EXCEPT ![r].path = p, ![r].missing = "no"]
    BY <1>3 DEF FileRelocated
  <2>2. r \in Live /\ rows[r].hash = disk[p] /\ r \in RowIds /\ rows[r] \in Row
    BY <1>t DEF ByHash
  <2> DEFINE row == [rows[r] EXCEPT !.path = p, !.missing = "no"]
  <2>3. row \in Row /\ row.missing = "no" /\ row.path = p /\ row.hash = disk[p]
        /\ row.lib = rows[r].lib /\ row.probed = rows[r].probed
    BY <2>2 DEF Row, Missing
  <2>4. rows' = [rows EXCEPT ![r] = row]
    <3>1. [rows EXCEPT ![r].path = p, ![r].missing = "no"]
            = [rows EXCEPT ![r] = [rows[r] EXCEPT !.path = p, !.missing = "no"]]
      BY ONLY <1>t, <2>2
    <3> QED BY ONLY <2>1, <3>1 DEF row
  <2>5. \A s \in Live : rows[s].path # p
    BY <1>3 DEF FileRelocated, ByPath
  <2> HIDE DEF row
  <2> QED BY <2>2, <2>3, <2>4, <2>5 DEF Describes
<1>4. CASE FileAdded(p)
  <2>1. FreeRow \in RowIds /\ rows[FreeRow] = NULL
    BY <1>4 DEF FileAdded, FreeRow, Live
  <2> DEFINE row == NewRow(p, disk[p], Lib)
  <2>2. row \in Row /\ row.path = p /\ row.missing = "no" /\ row.hash = disk[p]
    BY <1>t DEF NewRow, Row, Missing
  <2>3. rows' = [rows EXCEPT ![FreeRow] = row]
    BY <1>4 DEF FileAdded
  <2>4. \A s \in Live : rows[s].path # p
    BY <1>4 DEF FileAdded, ByPath
  <2>5. scan'.stage = "enqueue"
    BY <1>4, <1>t, PassedFields DEF FileAdded
  <2>6. FreeRow \notin Live
    BY <2>1 DEF Live
  <2> HIDE DEF row
  <2> QED BY <2>1, <2>2, <2>3, <2>4, <2>5, <2>6 DEF Describes
<1> QED BY <1>1, <1>2, <1>3, <1>4

\* A row that comes to describe a file settles it and unsettles no other: what it
\* described before had the same content, so that one was not the only one.
LEMMA DescribedSettles ==
  ASSUME RowsInv, disk' = disk, NEW r, NEW row, NEW p \in Paths, Describes(r, row, p)
  PROVE Settled(p)' /\ \A q \in Paths : Settled(q) => Settled(q)'
<1>1. /\ r \in Live' /\ rows'[r] = row
      /\ \A s \in RowIds : s # r => rows'[s] = rows[s] /\ (s \in Live' <=> s \in Live)
      /\ \A s : s \in Live => s \in RowIds
      /\ \A s : s \in Live' => s \in RowIds
  BY NullAssumption DEF Describes, Live, RowsInv, TypeOK
<1>2. /\ row.path = p /\ row.missing = "no" /\ row.hash = disk[p]
      /\ \A s \in Live : rows[s].path = p => s = r
      /\ r \in Live => row.lib = rows[r].lib /\ (rows[r].path = p \/ rows[r].hash = disk[p])
  BY DEF Describes
<1>3. Settled(p)'
  <2>1. \A s \in ByPath(p)' : s = r
    BY <1>1, <1>2 DEF ByPath
  <2>2. r \in ByPath(p)'
    BY <1>1, <1>2 DEF ByPath
  <2>3. HasRow(p, LibOf[p])'
    BY <1>1, <1>2, <2>2 DEF HasRow
  <2> QED BY <1>1, <1>2, <2>1, <2>3 DEF Settled
<1>4. ASSUME NEW q \in Paths, Settled(q), q # p PROVE Settled(q)'
  <2>1. \A s : s \in ByPath(q)' => s \in ByPath(q) /\ s # r
    BY <1>1, <1>2, <1>4 DEF ByPath
  <2>2. ASSUME Sole(q)' PROVE HasRow(q, LibOf[q])'
    <3>1. Sole(q) /\ disk[p] # disk[q]
      BY <1>4, <2>2 DEF Sole
    <3>2. PICK s \in ByPath(q) : rows[s].hash = disk[q]
                                 /\ (rows[s].missing = "no" \/ rows[s].lib # LibOf[q])
      BY <1>4, <3>1 DEF Settled, HasRow
    <3>3. s # r /\ s \in Live /\ rows[s].path = q
      BY <1>2, <1>4, <3>1, <3>2 DEF ByPath
    <3>4. s \in ByPath(q)' /\ rows'[s] = rows[s]
      BY <1>1, <3>3 DEF ByPath
    <3> QED BY <3>2, <3>4 DEF HasRow
  <2>3. \A s \in ByPath(q)' : rows'[s] = rows[s]
    BY <1>1, <2>1 DEF ByPath
  <2> QED BY <1>4, <2>1, <2>2, <2>3 DEF Settled
<1> QED BY <1>3, <1>4

\* While a job is quiet the disk stands still.
LEMMA DiskStands ==
  ASSUME [Next]_vars, quiet' # {}
  PROVE disk' = disk /\ mounted' = mounted
BY DEF Next, ScanStep, Fault, World, vars, world, bounds, BeginAttempt, SkipFile, FileVanished,
       FileUnchanged, FileReencoded, FileRelocated, FileAdded, FileFails, EnqueueProbe, EnqueueFails,
       MaybeCheckpoint, WalkEnds, MarkFileMissing, SweepEnds, DeleteMediaFile, PurgeEnds, Finish,
       AttemptFails, Crash, RequestScan, WatchScan, WatchScanFails, Unmount, Mount, ChangeFile,
       MoveFile, Activity, Age

\* A sweep flags only rows whose file its own walk, of the same disk, did not meet.
LEMMA MarkSpares ==
  ASSUME RowsInv, WalkInv, MarkFileMissing, quiet' # {}, NEW p \in Paths, Visible(p), Settled(p)
  PROVE Settled(p)'
<1> USE DEF MarkFileMissing, world, bounds
<1>1. PICK r \in Unseen : rows' = [rows EXCEPT ![r].missing = "recent"]
  OBVIOUS
<1>2. r \in RowIds /\ r \in Live /\ rows[r] \in Row /\ rows[r].lib = Lib
      /\ rows[r].path \notin scan.seen /\ rows \in [RowIds -> Row \cup {NULL}]
  BY <1>1, NullAssumption DEF Unseen, OfLibrary, Live, RowsInv, TypeOK
<1> DEFINE row == [rows[r] EXCEPT !.missing = "recent"]
<1>3. row \in Row /\ row.path = rows[r].path /\ row.hash = rows[r].hash /\ row.lib = rows[r].lib
  BY <1>2 DEF Row, Missing
<1>4. rows'[r] = row /\ \A s \in RowIds : s # r => rows'[s] = rows[s]
  BY <1>1, <1>2
<1> HIDE DEF row
<1>5. \A s : s \in ByPath(p)' <=> s \in ByPath(p)
  BY <1>2, <1>3, <1>4, NullAssumption DEF ByPath, Live
<1>6. r \in ByPath(p) => rows[r].lib # LibOf[p]
  <2> SUFFICES ASSUME r \in ByPath(p), Lib = LibOf[p] PROVE FALSE
    BY <1>2
  <2>1. p \in Entries(Lib)
    BY DEF Entries
  <2>2. p \in scan.seen
    BY <2>1 DEF WalkInv
  <2> QED BY <1>2, <2>2 DEF ByPath
<1>7. \A s \in ByPath(p) : s \in RowIds /\ rows'[s].hash = rows[s].hash /\ rows'[s].lib = rows[s].lib
                            /\ (rows[s].lib = LibOf[p] => rows'[s].missing = rows[s].missing)
  BY <1>3, <1>4, <1>6 DEF ByPath, Live
<1>8. Sole(p)' => Sole(p)
  BY DEF Sole
<1>9. HasRow(p, LibOf[p]) => HasRow(p, LibOf[p])'
  BY <1>5, <1>7 DEF HasRow
<1> QED BY <1>5, <1>7, <1>8, <1>9 DEF Settled

\* A deletion takes a row that has long been missing, so none that counts.
LEMMA DeletionSpares ==
  ASSUME RowsInv, SweptInv, DeleteMediaFile, quiet' # {}, NEW p \in Paths, Settled(p)
  PROVE Settled(p)'
<1> USE DEF DeleteMediaFile, world, bounds
<1>1. PICK r \in scan.stale : rows' = [rows EXCEPT ![r] = NULL] /\ quiet' = IF Astray(r) THEN {} ELSE quiet
  OBVIOUS
<1>2. r \in RowIds /\ rows[r].lib = Lib /\ rows[r].missing = "old" /\ ~Astray(r)
      /\ rows \in [RowIds -> Row \cup {NULL}]
  BY <1>1, ScanFacts DEF SweptInv, OfLibrary, RowsInv, TypeOK
<1>3. \A s : s \in ByPath(p)' <=> s \in ByPath(p) /\ s # r
  BY <1>1, <1>2 DEF ByPath, Live
<1>4. \A s \in ByPath(p) : s # r => rows'[s] = rows[s]
  BY <1>1, <1>2 DEF ByPath, Live
<1>5. r \in ByPath(p) => rows[r].lib = LibOf[p] /\ rows[r].missing # "no"
  BY <1>2 DEF Astray, ByPath
<1>6. Sole(p)' => Sole(p)
  BY DEF Sole
<1>7. HasRow(p, LibOf[p]) => HasRow(p, LibOf[p])'
  BY <1>3, <1>4, <1>5 DEF HasRow
<1> QED BY <1>3, <1>4, <1>6, <1>7 DEF Settled

\* The steps that rewrite every row, and those that touch none.
LEMMA OthersAlike ==
  ASSUME RowsInv, EnqueueProbe \/ Age
  PROVE /\ disk' = disk
        /\ \A r \in RowIds :
             /\ rows'[r] = NULL <=> rows[r] = NULL
             /\ rows[r] # NULL => /\ rows'[r].path = rows[r].path /\ rows'[r].hash = rows[r].hash
                                  /\ rows'[r].lib = rows[r].lib
                                  /\ rows'[r].missing = "no" <=> rows[r].missing = "no"
                                  /\ rows[r].missing = "old" => rows'[r].missing = "old"
                                  /\ rows[r].probed => rows'[r].probed
<1>1. \A r \in RowIds : rows[r] # NULL => rows[r] \in Row
  BY DEF RowsInv, TypeOK
<1> SUFFICES ASSUME NEW r \in RowIds
             PROVE /\ rows'[r] = NULL <=> rows[r] = NULL
                   /\ rows[r] # NULL => /\ rows'[r].path = rows[r].path /\ rows'[r].hash = rows[r].hash
                                        /\ rows'[r].lib = rows[r].lib
                                        /\ rows'[r].missing = "no" <=> rows[r].missing = "no"
                                        /\ rows[r].missing = "old" => rows'[r].missing = "old"
                                        /\ rows[r].probed => rows'[r].probed
  BY DEF EnqueueProbe, Age, world, bounds
<1>2. CASE EnqueueProbe
  <2>1. rows' = [s \in RowIds |-> IF s \in ByPath(scan.last) THEN [rows[s] EXCEPT !.probed = TRUE]
                                                            ELSE rows[s]]
    BY <1>2 DEF EnqueueProbe
  <2>2. CASE r \in ByPath(scan.last)
    <3>1. rows'[r] = [rows[r] EXCEPT !.probed = TRUE] /\ rows[r] # NULL
      BY <2>1, <2>2 DEF ByPath, Live
    <3> DEFINE row == [rows[r] EXCEPT !.probed = TRUE]
    <3>2. row \in Row /\ row.path = rows[r].path /\ row.hash = rows[r].hash
          /\ row.lib = rows[r].lib /\ row.missing = rows[r].missing /\ row.probed = TRUE
      BY <1>1, <3>1 DEF Row
    <3> HIDE DEF row
    <3> QED BY <3>1, <3>2, NullAssumption DEF row
  <2>3. CASE r \notin ByPath(scan.last)
    BY ONLY <2>1, <2>3
  <2> QED BY <2>2, <2>3
<1>3. CASE Age
  <2>1. rows' = [s \in RowIds |-> IF s \in Live /\ rows[s].missing = "recent"
                                  THEN [rows[s] EXCEPT !.missing = "old"] ELSE rows[s]]
    BY <1>3 DEF Age
  <2>2. CASE r \in Live /\ rows[r].missing = "recent"
    <3>1. rows'[r] = [rows[r] EXCEPT !.missing = "old"] /\ rows[r] # NULL
      BY <2>1, <2>2 DEF Live
    <3> DEFINE row == [rows[r] EXCEPT !.missing = "old"]
    <3>2. row \in Row /\ row.path = rows[r].path /\ row.hash = rows[r].hash
          /\ row.lib = rows[r].lib /\ row.missing = "old" /\ row.probed = rows[r].probed
      BY <1>1, <3>1 DEF Row, Missing
    <3> HIDE DEF row
    <3> QED BY <2>2, <3>1, <3>2, NullAssumption DEF row
  <2>3. CASE ~(r \in Live /\ rows[r].missing = "recent")
    BY ONLY <2>1, <2>3
  <2> QED BY <2>2, <2>3
<1> QED BY <1>2, <1>3

\* A file that is settled stays so as long as the disk stands, whatever job runs.
LEMMA SettledStays ==
  ASSUME RowsInv, WalkInv, SweptInv, [Next]_vars, quiet' # {},
         NEW p \in Paths, Visible(p), Settled(p)
  PROVE Settled(p)'
<1>0. disk' = disk
  BY DiskStands
<1>1. CASE MarkFileMissing
  BY <1>1, MarkSpares
<1>2. CASE DeleteMediaFile
  BY <1>2, DeletionSpares
<1>3. CASE EnqueueProbe \/ Age
  BY <1>3, OthersAlike, SettledAlike
<1>4. ASSUME NEW q \in Paths,
             FileUnchanged(q) \/ FileReencoded(q) \/ FileRelocated(q) \/ FileAdded(q)
      PROVE Settled(p)'
  <2>1. PICK r, row : Describes(r, row, q)
    BY <1>4, FileDescribed
  <2> QED BY <1>0, <2>1, DescribedSettles
<1>5. CASE rows' = rows
  BY <1>0, <1>5, SettledAlike
<1> QED
  BY <1>1, <1>2, <1>3, <1>4, <1>5
  DEF Next, ScanStep, Fault, World, vars, world, bounds, BeginAttempt, SkipFile, FileVanished,
      FileFails, EnqueueFails, MaybeCheckpoint, WalkEnds, SweepEnds, PurgeEnds, Finish, AttemptFails,
      Crash, RequestScan, WatchScan, WatchScanFails, Unmount, Mount, ChangeFile, MoveFile, Activity

-----------------------------------------------------------------------------
(* Jobs and the scan, step by step.                                        *)

LEMMA EntriesStand ==
  ASSUME disk' = disk, mounted' = mounted, NEW l
  PROVE Entries(l)' = Entries(l)
BY DEF Entries, Visible

\* A job's library and kind never change; its attempts count up as one begins, and
\* its checkpoint is only ever the file its own scan met last.
LEMMA JobSteps ==
  ASSUME RowsInv, [Next]_vars, NEW j \in JobIds, jobs'[j] # NULL
  PROVE \/ jobs[j] = NULL /\ jobs'[j].attempts = 0 /\ jobs'[j].ckpt = NULL
        \/ /\ jobs[j] # NULL /\ jobs'[j].lib = jobs[j].lib /\ jobs'[j].full = jobs[j].full
           /\ \/ jobs'[j] = jobs[j]
              \/ BeginAttempt(j) /\ jobs'[j].attempts = jobs[j].attempts + 1
                 /\ jobs'[j].ckpt = jobs[j].ckpt
              \/ MaybeCheckpoint \/ WalkEnds
           /\ \/ BeginAttempt(j) \/ jobs'[j].attempts = jobs[j].attempts
           /\ \/ jobs'[j].ckpt = jobs[j].ckpt
              \/ scan # NULL /\ j = scan.job /\ jobs'[j].ckpt = scan.last
                 /\ (MaybeCheckpoint \/ WalkEnds)
<1>t. TypeOK /\ ScanSane /\ jobs \in [JobIds -> Job \cup {NULL}] /\ (scan # NULL => scan.job \in JobIds)
  BY DEF RowsInv, TypeOK, Scan
<1>1. ASSUME NEW k \in JobIds, BeginAttempt(k) PROVE k = j \/ jobs'[j] = jobs[j]
  BY <1>t, <1>1 DEF BeginAttempt
<1>2. CASE BeginAttempt(j)
  <2>1. jobs[j] \in Job /\ jobs[j] # NULL /\ jobs' = [jobs EXCEPT ![j].attempts = @ + 1]
    BY <1>t, <1>2 DEF BeginAttempt
  <2> DEFINE job == [jobs[j] EXCEPT !.attempts = @ + 1]
  <2>2. job.lib = jobs[j].lib /\ job.full = jobs[j].full /\ job.ckpt = jobs[j].ckpt
        /\ job.attempts = jobs[j].attempts + 1
    BY <2>1 DEF Job
  <2>3. jobs'[j] = job
    BY <1>t, <2>1
  <2> HIDE DEF job
  <2> QED BY <1>2, <2>1, <2>2, <2>3
<1>3. CASE MaybeCheckpoint \/ WalkEnds
  <2>1. scan # NULL /\ scan.job \in JobIds /\ jobs[scan.job] \in Job /\ jobs[scan.job] # NULL
        /\ (jobs' = jobs \/ jobs' = [jobs EXCEPT ![scan.job].ckpt = scan.last])
    BY <1>t, <1>3 DEF MaybeCheckpoint, WalkEnds, ScanSane
  <2> DEFINE job == [jobs[scan.job] EXCEPT !.ckpt = scan.last]
  <2>2. job.lib = jobs[scan.job].lib /\ job.full = jobs[scan.job].full /\ job.ckpt = scan.last
        /\ job.attempts = jobs[scan.job].attempts
    BY <2>1 DEF Job
  <2>3. jobs'[j] = jobs[j] \/ (j = scan.job /\ jobs'[j] = job)
    <3>1. jobs' = jobs \/ jobs' = [jobs EXCEPT ![scan.job] = job]
      BY <2>1
    <3> HIDE DEF job
    <3> QED BY ONLY <1>t, <2>1, <3>1, j \in JobIds
  <2> HIDE DEF job
  <2> QED BY <1>3, <2>1, <2>2, <2>3
<1>4. ASSUME NEW l \in Libraries, NEW full \in BOOLEAN, FreeJobs # {}, jobs' = Enqueued(l, full)
      PROVE jobs'[j] = jobs[j] \/ (jobs[j] = NULL /\ jobs'[j].attempts = 0 /\ jobs'[j].ckpt = NULL)
  <2>1. NewJob(l, full).attempts = 0 /\ NewJob(l, full).ckpt = NULL
    BY DEF NewJob
  <2>2. jobs'[j] = jobs[j] \/ (jobs[j] = NULL /\ jobs'[j] = NewJob(l, full))
    BY <1>t, <1>4, EnqueuedFacts
  <2> QED BY ONLY <2>1, <2>2
<1>5. ASSUME NEW l \in Libraries, NEW full \in BOOLEAN, RequestScan(l, full) PROVE FreeJobs # {}
  BY <1>5 DEF RequestScan
<1>6. CASE AttemptFails \/ Crash
  BY <1>t, <1>6 DEF AttemptFails, Crash, Requeued
<1>7. CASE Finish
  BY <1>t, <1>7 DEF Finish
<1>8. CASE jobs' = jobs
  BY <1>8
<1>9. ASSUME NEW l \in Libraries, NEW full \in BOOLEAN, RequestScan(l, full) \/ WatchScan(l)
      PROVE jobs'[j] = jobs[j] \/ (jobs[j] = NULL /\ jobs'[j].attempts = 0 /\ jobs'[j].ckpt = NULL)
  BY <1>4, <1>5, <1>9 DEF RequestScan, WatchScan
<1>10. jobs'[j] = jobs[j] \/ ~(jobs' = jobs)
  OBVIOUS
<1> QED
  BY <1>1, <1>2, <1>3, <1>6, <1>7, <1>8, <1>9
  DEF Next, ScanStep, Fault, World, vars, world, bounds, SkipFile, FileVanished, FileUnchanged,
      FileReencoded, FileRelocated, FileAdded, FileFails, EnqueueProbe, EnqueueFails, MarkFileMissing,
      SweepEnds, DeleteMediaFile, PurgeEnds, WatchScanFails, Unmount, Mount, ChangeFile,
      MoveFile, Activity, Age

\* A running scan keeps its job, and only an attempt that begins starts one.
LEMMA ScanKeepsJob ==
  ASSUME RowsInv, [Next]_vars, scan' # NULL
  PROVE \/ scan = NULL /\ \E j \in JobIds : BeginAttempt(j)
        \/ scan # NULL /\ scan'.job = scan.job /\ ~\E j \in JobIds : BeginAttempt(j)
<1>1. CASE scan = NULL
  BY <1>1
  DEF Next, ScanStep, Fault, World, vars, world, bounds, SkipFile, FileVanished, FileUnchanged, Processing,
      FileReencoded, FileRelocated, FileAdded, FileFails, EnqueueProbe, EnqueueFails, MarkFileMissing,
      SweepEnds, DeleteMediaFile, PurgeEnds, WatchScanFails, Unmount, Mount, ChangeFile,
      MaybeCheckpoint, WalkEnds, Finish, AttemptFails, Crash, RequestScan, WatchScan,
      MoveFile, Activity, Age
<1>2. CASE scan # NULL
  <2>1. scan \in Scan
    BY <1>2, ScanFacts
  <2>2. \A p \in Paths : SkipFile(p) => scan'.job = scan.job
    <3> SUFFICES ASSUME NEW p \in Paths, SkipFile(p) PROVE scan'.job = scan.job
      OBVIOUS
    <3> DEFINE past == Passed(p, {p}, "mark")
    <3>1. past.job = scan.job
      BY <2>1, PassedFields
    <3>2. scan' = [past EXCEPT !.target = IF p = @ THEN NULL ELSE @]
      BY DEF SkipFile
    <3>3. past \in Scan
      BY <2>1, PassedFacts DEF Stages, MovedPast
    <3> HIDE DEF past
    <3> QED BY <3>1, <3>2, <3>3 DEF Scan
  <2>3. \A p \in Paths : FileVanished(p) \/ FileUnchanged(p) \/ FileReencoded(p) \/ FileRelocated(p)
                          \/ FileAdded(p) \/ FileFails(p) => scan'.job = scan.job
    <3> SUFFICES ASSUME NEW p \in Paths, FileVanished(p) \/ FileUnchanged(p) \/ FileReencoded(p)
                          \/ FileRelocated(p) \/ FileAdded(p) \/ FileFails(p)
                 PROVE scan'.job = scan.job
      OBVIOUS
    <3>1. \/ scan' = Passed(p, {}, "mark") \/ scan' = Passed(p, {p}, "mark")
          \/ scan' = Passed(p, {}, "enqueue")
      BY DEF FileVanished, FileUnchanged, FileReencoded, FileRelocated, FileAdded, FileFails
    <3> QED BY ONLY <2>1, <3>1, p \in Paths, PassedFields
  <2>4. \A j \in JobIds : ~BeginAttempt(j)
    BY <1>2 DEF BeginAttempt
  <2>5. EnqueueProbe \/ EnqueueFails \/ MaybeCheckpoint \/ WalkEnds \/ SweepEnds \/ DeleteMediaFile
          \/ PurgeEnds => scan'.job = scan.job
    BY <2>1 DEF Scan, EnqueueProbe, EnqueueFails, MaybeCheckpoint, WalkEnds, SweepEnds, DeleteMediaFile,
       PurgeEnds
  <2> QED
    BY <1>2, <2>2, <2>3, <2>4, <2>5
    DEF Next, ScanStep, Fault, World, vars, world, bounds, MarkFileMissing, Finish, AttemptFails, Crash,
      WatchScanFails, Unmount, Mount, ChangeFile, RequestScan, WatchScan, MoveFile, Activity, Age
<1> QED BY <1>1, <1>2

\* What a step does to the position of a running walk: nothing, ...
Stays ==
  /\ scan'.todo = scan.todo /\ scan'.seen = scan.seen
  /\ scan'.target = scan.target /\ scan'.last = scan.last
  /\ \/ scan'.stage = scan.stage
     \/ scan.stage = "mark" /\ scan'.stage = "walk"
     \/ scan.stage = "walk" /\ scan.todo = {} /\ scan'.stage \in {"sweep", "finish"}
     \/ scan.stage = "sweep" /\ scan'.stage = "purge"
     \/ scan.stage = "purge" /\ scan'.stage = "finish"

\* ... the probe job of the file just met, ...
Probes ==
  /\ scan.stage = "enqueue" /\ scan'.stage = "mark"
  /\ scan'.todo = scan.todo /\ scan'.seen = scan.seen \cup {scan.last}
  /\ scan'.target = scan.target /\ scan'.last = scan.last

\* ... or the next file, which it skips or settles.
Meets(p) ==
  /\ scan.stage = "walk" /\ Yields(p)
  /\ scan'.todo = scan.todo \ {p} /\ scan'.last = p
  /\ \/ scan'.stage = "mark" /\ scan'.seen = scan.seen \cup {p}
     \/ scan'.stage = "enqueue" /\ scan'.seen = scan.seen
  /\ \/ scan.target = NULL /\ scan'.target = NULL /\ Settled(p)'
     \/ scan.target # NULL /\ scan'.target = IF p = scan.target THEN NULL ELSE scan.target

LEMMA Skips ==
  ASSUME RowsInv, NEW p \in Paths, SkipFile(p)
  PROVE Meets(p)
<1>1. scan # NULL /\ scan \in Scan /\ scan.target # NULL /\ scan.stage = "walk" /\ Yields(p)
  BY ScanFacts DEF SkipFile
<1> DEFINE past == Passed(p, {p}, "mark")
           aim == IF p = scan.target THEN NULL ELSE scan.target
<1>2. past.stage = "mark" /\ past.todo = scan.todo \ {p} /\ past.seen = scan.seen \cup {p}
      /\ past.target = scan.target /\ past.last = p
  BY <1>1, PassedFields
<1>3. past \in Scan
  BY <1>1, PassedFacts DEF Stages, MovedPast
<1>4. scan' = [past EXCEPT !.target = aim]
  <2>1. scan' = [past EXCEPT !.target = IF p = @ THEN NULL ELSE @]
    BY DEF SkipFile
  <2> HIDE DEF past
  <2> QED BY <1>2, <2>1
<1>5. /\ scan'.stage = past.stage /\ scan'.todo = past.todo /\ scan'.seen = past.seen
      /\ scan'.target = aim /\ scan'.last = past.last
  <2> HIDE DEF past, aim
  <2> QED BY <1>3, <1>4 DEF Scan
<1> HIDE DEF past
<1> QED BY <1>1, <1>2, <1>5 DEF Meets

LEMMA Processes ==
  ASSUME RowsInv, disk' = disk, NEW p \in Paths,
         FileUnchanged(p) \/ FileReencoded(p) \/ FileRelocated(p) \/ FileAdded(p)
  PROVE Meets(p)
<1>1. scan # NULL /\ scan \in Scan /\ scan.stage = "walk" /\ Yields(p) /\ scan.target = NULL
  BY ScanFacts DEF FileUnchanged, FileReencoded, FileRelocated, FileAdded, Processing
<1>2. scan' = Passed(p, {p}, "mark") \/ scan' = Passed(p, {}, "enqueue")
  BY DEF FileUnchanged, FileReencoded, FileRelocated, FileAdded
<1>3. /\ scan'.todo = scan.todo \ {p} /\ scan'.last = p /\ scan'.target = scan.target
      /\ \/ scan'.stage = "mark" /\ scan'.seen = scan.seen \cup {p}
         \/ scan'.stage = "enqueue" /\ scan'.seen = scan.seen
  <2>1. scan.seen \cup {} = scan.seen
    OBVIOUS
  <2>2. CASE scan' = Passed(p, {p}, "mark")
    BY ONLY <1>1, <2>2, p \in Paths, PassedFields
  <2>3. CASE scan' = Passed(p, {}, "enqueue")
    <3>1. /\ Passed(p, {}, "enqueue").todo = scan.todo \ {p}
          /\ Passed(p, {}, "enqueue").seen = scan.seen \cup {}
          /\ Passed(p, {}, "enqueue").last = p /\ Passed(p, {}, "enqueue").target = scan.target
          /\ Passed(p, {}, "enqueue").stage = "enqueue"
      <4> DEFINE none == {}
      <4> HIDE DEF none
      <4>1. /\ Passed(p, none, "enqueue").todo = scan.todo \ {p}
            /\ Passed(p, none, "enqueue").seen = scan.seen \cup none
            /\ Passed(p, none, "enqueue").last = p
            /\ Passed(p, none, "enqueue").target = scan.target
            /\ Passed(p, none, "enqueue").stage = "enqueue"
        BY <1>1, PassedFields
      <4> QED BY <4>1 DEF none
    <3> QED BY ONLY <2>1, <2>3, <3>1
  <2> QED BY <1>2, <2>2, <2>3
<1>4. PICK r, row : Describes(r, row, p)
  BY FileDescribed
<1>5. Settled(p)'
  BY <1>4, DescribedSettles
<1> QED BY <1>1, <1>3, <1>5 DEF Meets

\* While a job is quiet, a running scan that goes on does one of the three.
LEMMA ScanMoves ==
  ASSUME RowsInv, WalkInv, [Next]_vars, scan # NULL, scan' # NULL, quiet' # {}
  PROVE Stays \/ Probes \/ \E p \in Paths : Meets(p)
<1>1. scan \in Scan /\ scan.stage \in Stages
  BY ScanFacts DEF Scan
<1>2. ASSUME NEW p \in Paths, SkipFile(p) PROVE Meets(p)
  BY <1>2, Skips
<1>3. ASSUME NEW p \in Paths,
             FileUnchanged(p) \/ FileReencoded(p) \/ FileRelocated(p) \/ FileAdded(p)
      PROVE Meets(p)
  BY <1>3, Processes, DiskStands
<1>4. \A p \in Paths : ~FileVanished(p)
  <2> SUFFICES ASSUME NEW p \in Paths, FileVanished(p) PROVE FALSE
    OBVIOUS
  <2>1. quiet # {} /\ p \in scan.todo /\ ~Visible(p)
    BY DEF FileVanished, Processing, Yields
  <2>2. p \in Entries(Lib)
    BY <2>1 DEF WalkInv
  <2> QED BY <2>1, <2>2 DEF Entries
<1>5. CASE EnqueueProbe
  BY <1>1, <1>5 DEF EnqueueProbe, Probes, Scan
<1>6. CASE MaybeCheckpoint \/ WalkEnds \/ SweepEnds \/ PurgeEnds
  BY <1>1, <1>6 DEF MaybeCheckpoint, WalkEnds, SweepEnds, PurgeEnds, Stays, Scan
<1>7. CASE DeleteMediaFile
  BY <1>1, <1>7 DEF DeleteMediaFile, Stays, Scan
<1>8. CASE scan' = scan
  BY <1>8 DEF Stays
<1>9. \A j \in JobIds : ~BeginAttempt(j)
  BY DEF BeginAttempt
<1> QED
  BY <1>2, <1>3, <1>4, <1>5, <1>6, <1>7, <1>8, <1>9
  DEF Next, ScanStep, Fault, World, vars, world, bounds, MarkFileMissing, Finish, AttemptFails, Crash,
      FileFails, EnqueueFails, WatchScanFails, Unmount, Mount, ChangeFile, RequestScan, WatchScan,
      MoveFile, Activity, Age

\* An attempt that begins.
LEMMA Begins ==
  ASSUME RowsInv, NEW j \in JobIds, BeginAttempt(j)
  PROVE /\ scan = NULL /\ scan' # NULL /\ scan'.job = j /\ scan'.stage = "walk"
        /\ jobs[j] # NULL /\ jobs'[j].lib = jobs[j].lib
        /\ jobs'[j].attempts = jobs[j].attempts + 1 /\ jobs[j].attempts \in Nat
        /\ scan'.todo = Entries(jobs[j].lib) /\ scan'.seen = {} /\ scan'.stale = {}
        /\ scan'.target = jobs[j].ckpt /\ scan'.last = jobs[j].ckpt
        /\ rows' = rows /\ disk' = disk /\ mounted' = mounted /\ faults' = faults
        /\ quiet' \subseteq quiet \cup {j} /\ (jobs[j].attempts # 0 => quiet' = quiet)
<1>1. jobs[j] \in Job /\ jobs[j] # NULL /\ jobs' = [jobs EXCEPT ![j].attempts = @ + 1]
      /\ jobs \in [JobIds -> Job \cup {NULL}]
  BY DEF BeginAttempt, RowsInv, TypeOK
<1> DEFINE job == [jobs[j] EXCEPT !.attempts = @ + 1]
<1>2. job.lib = jobs[j].lib /\ job.attempts = jobs[j].attempts + 1 /\ jobs[j].attempts \in Nat
  BY <1>1, ScanAssumption DEF Job
<1>3. jobs'[j] = job
  BY <1>1
<1> HIDE DEF job
<1>4. [Next]_vars
  BY DEF Next, ScanStep
<1>5. scan' \in Scan \cup {NULL}
  BY <1>4, Inductive DEF RowsInv, TypeOK
<1>6. scan' # NULL
  <2>1. Entries(jobs[j].lib) \subseteq Paths
    BY DEF Entries
  <2>2. scan' \in Scan
    BY <1>1, <2>1 DEF BeginAttempt, Scan, Job, Stages
  <2> QED BY <2>2, NullAssumption
<1> QED BY <1>1, <1>2, <1>3, <1>6 DEF BeginAttempt, world, bounds

-----------------------------------------------------------------------------
(* The invariant is inductive.                                             *)

\* Who is quiet after a step was quiet before it, or has just begun.
LEMMA QuietSteps ==
  ASSUME [Next]_vars, NEW j \in quiet'
  PROVE j \in quiet \/ (j \in JobIds /\ BeginAttempt(j) /\ jobs[j].attempts = 0)
BY DEF Next, ScanStep, Fault, World, vars, world, bounds, BeginAttempt, SkipFile, FileVanished,
       FileUnchanged, FileReencoded, FileRelocated, FileAdded, FileFails, EnqueueProbe, EnqueueFails,
       MaybeCheckpoint, WalkEnds, MarkFileMissing, SweepEnds, DeleteMediaFile, PurgeEnds, Finish,
       AttemptFails, Crash, RequestScan, WatchScan, WatchScanFails, Unmount, Mount, ChangeFile,
       MoveFile, Activity, Age

\* The library a running scan works on stays the same.
LEMMA LibStays ==
  ASSUME RowsInv, RowsInv', [Next]_vars, scan # NULL, scan' # NULL
  PROVE Lib' = Lib /\ scan'.job = scan.job
<1>1. scan'.job = scan.job /\ scan.job \in JobIds /\ jobs[scan.job] # NULL /\ jobs'[scan.job] # NULL
  BY ScanKeepsJob, ScanFacts DEF RowsInv, ScanSane
<1> QED BY <1>1, JobSteps DEF Lib

LEMMA WalkStep ==
  ASSUME IInv, RowsInv', [Next]_vars
  PROVE WalkInv'
<1> SUFFICES ASSUME scan' # NULL, quiet' # {}
             PROVE /\ scan'.todo \cup scan'.seen \subseteq Entries(Lib)'
                   /\ Entries(Lib)' \subseteq
                        scan'.todo \cup scan'.seen
                          \cup (IF scan'.stage = "enqueue" THEN {scan'.last} ELSE {})
                   /\ \A p \in Entries(Lib)' \ scan'.todo, q \in scan'.todo : p < q
                   /\ scan'.stage \in {"enqueue", "mark"} => scan'.last \in Entries(Lib)' \ scan'.todo
                   /\ scan'.stage \in {"sweep", "purge", "finish"} => scan'.todo = {}
  BY DEF WalkInv
<1>0. RowsInv /\ WalkInv
  BY DEF IInv
<1>1. \A l : Entries(l)' = Entries(l)
  BY DiskStands, EntriesStand
<1>2. CASE scan = NULL
  <2>1. PICK j \in JobIds : BeginAttempt(j)
    BY <1>0, <1>2, ScanKeepsJob
  <2>2. scan'.todo = Entries(jobs[j].lib) /\ scan'.seen = {} /\ scan'.stage = "walk"
        /\ Lib' = jobs[j].lib
    BY <1>0, <2>1, Begins DEF Lib
  <2>3. Entries(Lib)' = scan'.todo
    BY <1>1, <2>2 DEF Entries, Visible
  <2> QED BY <2>2, <2>3
<1>3. CASE scan # NULL
  <2>1. Lib' = Lib
    BY <1>0, <1>3, LibStays
  <2>2. Entries(Lib)' = Entries(Lib) /\ Entries(Lib) \subseteq Paths
    BY <1>1, <2>1 DEF Entries, Visible
  <2>3. \A j \in JobIds : ~BeginAttempt(j)
    BY <1>3 DEF BeginAttempt
  <2>4. quiet # {}
    BY <2>3, QuietSteps
  <2>5. /\ scan.todo \cup scan.seen \subseteq Entries(Lib)
        /\ Entries(Lib) \subseteq
             scan.todo \cup scan.seen \cup (IF scan.stage = "enqueue" THEN {scan.last} ELSE {})
        /\ \A p \in Entries(Lib) \ scan.todo, q \in scan.todo : p < q
        /\ scan.stage \in {"enqueue", "mark"} => scan.last \in Entries(Lib) \ scan.todo
        /\ scan.stage \in {"sweep", "purge", "finish"} => scan.todo = {}
    BY <1>0, <1>3, <2>4 DEF WalkInv
  <2>6. CASE Stays
    BY <2>2, <2>5, <2>6 DEF Stays
  <2>7. CASE Probes
    BY <2>2, <2>5, <2>7 DEF Probes
  <2>8. ASSUME NEW p \in Paths, Meets(p)
        PROVE /\ scan'.todo \cup scan'.seen \subseteq Entries(Lib)
              /\ Entries(Lib) \subseteq
                   scan'.todo \cup scan'.seen \cup (IF scan'.stage = "enqueue" THEN {scan'.last} ELSE {})
              /\ \A r \in Entries(Lib) \ scan'.todo, q \in scan'.todo : r < q
              /\ scan'.last \in Entries(Lib) \ scan'.todo
              /\ scan'.stage \in {"mark", "enqueue"}
    <3>1. p \in scan.todo /\ \A q \in scan.todo : p <= q
      BY <2>8 DEF Meets, Yields
    <3>2. scan'.todo = scan.todo \ {p} /\ scan'.last = p /\ scan.stage = "walk"
          /\ (\/ scan'.stage = "mark" /\ scan'.seen = scan.seen \cup {p}
              \/ scan'.stage = "enqueue" /\ scan'.seen = scan.seen)
      BY <2>8 DEF Meets
    <3>3. \A r \in Entries(Lib) \ scan'.todo, q \in scan'.todo : r < q
      <4> SUFFICES ASSUME NEW r \in Entries(Lib) \ scan'.todo, NEW q \in scan'.todo PROVE r < q
        OBVIOUS
      <4>1. CASE r = p
        <5>1. q \in scan.todo /\ q # p
          BY <3>2
        <5>2. p \in Nat /\ q \in Nat /\ p <= q
          BY <2>2, <2>5, <3>1, <5>1, ScanAssumption
        <5> QED BY <4>1, <5>1, <5>2
      <4>2. CASE r # p
        BY <2>5, <3>2, <4>2
      <4> QED BY <4>1, <4>2
    <3> QED BY <2>5, <3>1, <3>2, <3>3
  <2> QED BY <1>0, <1>3, <2>2, <2>6, <2>7, <2>8, ScanMoves
<1> QED BY <1>2, <1>3

LEMMA BehindStep ==
  ASSUME IInv, RowsInv', [Next]_vars
  PROVE BehindInv'
<1>0. RowsInv /\ WalkInv /\ BehindInv /\ SweptInv
  BY DEF IInv
<1>t. /\ \A j \in JobIds : jobs[j] # NULL => jobs[j].attempts \in Nat
      /\ \A j \in JobIds : jobs'[j] # NULL => jobs'[j].attempts \in Nat
      /\ quiet \subseteq JobIds /\ quiet' \subseteq JobIds
  BY <1>0, ScanAssumption DEF RowsInv, TypeOK, Job
<1>c. ~(jobs[scan.job].attempts = 0) \/ scan = NULL
  BY <1>0, <1>t DEF BehindInv
<1>1. ASSUME NEW j \in JobIds, jobs'[j] # NULL, jobs'[j].attempts = 0 PROVE jobs'[j].ckpt = NULL
  <2>1. CASE jobs[j] = NULL
    BY <1>0, <1>1, <2>1, JobSteps
  <2>2. CASE jobs[j] # NULL
    <3>1. jobs'[j].attempts = jobs[j].attempts
      <4>1. ~(jobs'[j].attempts = jobs[j].attempts + 1)
        BY <1>1, <1>t, <2>2
      <4>2. BeginAttempt(j) => jobs'[j].attempts = jobs[j].attempts + 1
        BY <1>0, Begins
      <4> QED BY <1>0, <1>1, <2>2, <4>1, <4>2, JobSteps
    <3>2. jobs[j].ckpt = NULL
      BY <1>0, <1>1, <2>2, <3>1 DEF BehindInv
    <3>3. ~(scan # NULL /\ j = scan.job)
      BY <1>1, <1>c, <3>1
    <3> QED BY <1>0, <1>1, <2>2, <3>2, <3>3, JobSteps
  <2> QED BY <2>1, <2>2
<1>2. ASSUME scan' # NULL PROVE jobs'[scan'.job].attempts > 0
  <2>1. CASE scan = NULL
    <3>1. PICK j \in JobIds : BeginAttempt(j)
      BY <1>0, <1>2, <2>1, ScanKeepsJob
    <3>2. scan'.job = j /\ jobs'[j].attempts = jobs[j].attempts + 1 /\ jobs[j].attempts \in Nat
      BY <1>0, <3>1, Begins
    <3> QED BY <3>2
  <2>2. CASE scan # NULL
    <3>1. scan'.job = scan.job /\ scan.job \in JobIds /\ jobs[scan.job] # NULL /\ jobs'[scan.job] # NULL
      BY <1>0, <1>2, <2>2, LibStays, ScanFacts DEF RowsInv, ScanSane
    <3>2. jobs'[scan.job].attempts = jobs[scan.job].attempts
      BY <1>0, <1>2, <2>2, <3>1, JobSteps, ScanKeepsJob
    <3> QED BY <1>0, <2>2, <3>1, <3>2 DEF BehindInv
  <2> QED BY <2>1, <2>2
\* From here on some job is quiet, so the disk stands.
<1>3. ASSUME quiet' # {}
      PROVE /\ \A l : Entries(l)' = Entries(l)
            /\ \A l : \A p \in Entries(l) : Settled(p) => Settled(p)'
            /\ \A l : \A p : SettledTo(p, l) => SettledTo(p, l)'
  <2>1. \A l : Entries(l)' = Entries(l)
    BY <1>3, DiskStands, EntriesStand
  <2>2. \A l : \A p \in Entries(l) : Settled(p) => Settled(p)'
    <3> TAKE l
    <3> TAKE p \in Entries(l)
    <3> QED BY <1>0, <1>3, SettledStays DEF Entries
  <2> QED BY <2>1, <2>2 DEF SettledTo
\* The running walk of a quiet job, when it writes its checkpoint.
<1>4. ASSUME quiet' # {}, scan # NULL, scan.job \in quiet, MaybeCheckpoint \/ WalkEnds, scan.last # NULL
      PROVE scan.last \in Entries(Lib) /\ SettledTo(scan.last, Lib)
  <2>1. /\ scan.stage = "mark" => scan.last \in Entries(Lib) \ scan.todo
        /\ \A p \in Entries(Lib) \ scan.todo, q \in scan.todo : p < q
        /\ scan.todo \subseteq Entries(Lib) /\ Entries(Lib) \subseteq Nat
    BY <1>0, <1>4, ScanAssumption DEF WalkInv, Entries
  <2>2. scan.stage = "mark" \/ scan.todo = {}
    BY <1>4 DEF MaybeCheckpoint, WalkEnds
  <2>3. CASE scan.target = NULL
    <3>1. /\ \A p \in Entries(Lib) \ scan.todo : Settled(p)
          /\ scan.last \in Entries(Lib)
      BY <1>0, <1>4, <2>3 DEF BehindInv
    <3>2. ASSUME NEW q \in Entries(Lib), q <= scan.last PROVE q \notin scan.todo
      <4>1. CASE scan.stage = "mark"
        <5> SUFFICES ASSUME q \in scan.todo PROVE FALSE
          OBVIOUS
        <5>1. scan.last < q /\ scan.last \in Nat /\ q \in Nat
          BY <2>1, <4>1
        <5> QED BY <3>2, <5>1
      <4> QED BY <2>2, <4>1
    <3> QED BY <3>1, <3>2 DEF SettledTo
  <2>4. CASE scan.target # NULL
    <3>1. scan.target \in scan.todo /\ SettledTo(scan.target, Lib)
      BY <1>0, <1>4, <2>4 DEF BehindInv
    <3>2. scan.last \in Entries(Lib) /\ scan.last < scan.target
      BY <2>1, <2>2, <3>1
    <3>3. scan.last \in Nat /\ scan.target \in Nat
      BY <2>1, <3>1, <3>2
    <3>4. \A q \in Entries(Lib) : q <= scan.last => q <= scan.target
      BY <2>1, <3>2, <3>3
    <3> QED BY <3>1, <3>2, <3>4 DEF SettledTo
  <2> QED BY <2>3, <2>4
<1>5. ASSUME NEW j \in quiet', jobs'[j] # NULL, jobs'[j].ckpt # NULL
      PROVE (jobs[j].ckpt \in Entries(jobs[j].lib) /\ SettledTo(jobs[j].ckpt, jobs[j].lib))'
  <2>1. j \in JobIds /\ jobs[j] # NULL /\ jobs'[j].lib = jobs[j].lib
    BY <1>0, <1>5, <1>t, JobSteps
  <2>2. j \in quiet
    <3> SUFFICES ASSUME BeginAttempt(j), jobs[j].attempts = 0 PROVE FALSE
      BY QuietSteps
    <3>1. jobs[j].ckpt = NULL
      BY <1>0, <2>1 DEF BehindInv
    <3>2. ~(MaybeCheckpoint \/ WalkEnds)
      BY DEF BeginAttempt, MaybeCheckpoint, WalkEnds
    <3> QED BY <1>0, <1>5, <2>1, <3>1, <3>2, JobSteps
  <2>3. jobs'[j].ckpt \in Entries(jobs[j].lib) /\ SettledTo(jobs'[j].ckpt, jobs[j].lib)
    <3>1. CASE jobs'[j].ckpt = jobs[j].ckpt
      BY <1>0, <1>5, <2>1, <2>2, <3>1 DEF BehindInv
    <3>2. CASE scan # NULL /\ j = scan.job /\ jobs'[j].ckpt = scan.last /\ (MaybeCheckpoint \/ WalkEnds)
      BY <1>4, <1>5, <2>2, <3>2 DEF Lib
    <3> QED BY <1>0, <1>5, <2>1, <3>1, <3>2, JobSteps
  <2>4. quiet' # {}
    BY <1>5
  <2>5. PICK c, l : c = jobs'[j].ckpt /\ l = jobs[j].lib
    OBVIOUS
  <2>6. Entries(l)' = Entries(l) /\ SettledTo(c, l)'
    BY <1>3, <2>3, <2>4, <2>5
  <2>7. c \in Entries(l)' /\ c = jobs'[j].ckpt /\ l = jobs'[j].lib
    BY <2>1, <2>3, <2>5, <2>6
  <2> QED BY ONLY <2>6, <2>7 DEF SettledTo, Entries, Visible
<1>6. ASSUME scan' # NULL, (scan.job \in quiet)'
      PROVE IF scan'.target = NULL
              THEN /\ \A p \in Entries(Lib)' \ scan'.todo : Settled(p)'
                   /\ scan'.last \in Entries(Lib)' \cup {NULL}
              ELSE scan'.target \in scan'.todo /\ SettledTo(scan.target, Lib)'
  <2>0. quiet' # {}
    BY <1>6
  <2>1. CASE scan = NULL
    <3>1. PICK j \in JobIds : BeginAttempt(j)
      BY <1>0, <1>6, <2>1, ScanKeepsJob
    <3>2. PICK c, l : c = jobs[j].ckpt /\ l = jobs[j].lib
      OBVIOUS
    <3>3. /\ scan'.job = j /\ jobs[j] # NULL /\ jobs'[j].lib = l
          /\ scan'.todo = Entries(l) /\ scan'.target = c /\ scan'.last = c
          /\ quiet' \subseteq quiet \cup {j} /\ (jobs[j].attempts # 0 => quiet' = quiet)
      BY <1>0, <3>1, <3>2, Begins
    <3>4. Entries(Lib)' = Entries(l) /\ Entries(l)' = Entries(l)
      <4>1. Entries(Lib)' = Entries(l)'
        BY <3>3 DEF Lib, Entries, Visible
      <4> QED BY <1>3, <2>0, <4>1
    <3>5. CASE c = NULL
      BY <3>3, <3>4, <3>5
    <3>6. CASE c # NULL
      <4>1. jobs[j].attempts # 0
        BY <1>0, <3>2, <3>3, <3>6 DEF BehindInv
      <4>2. j \in quiet
        BY <1>6, <3>3, <4>1
      <4>3. c \in Entries(l) /\ SettledTo(c, l)
        BY <1>0, <3>2, <3>3, <3>6, <4>2 DEF BehindInv
      <4>4. SettledTo(c, l)'
        BY <1>3, <2>0, <4>3
      <4>5. SettledTo(scan.target, Lib)'
        BY <3>3, <4>4 DEF Lib, SettledTo, Entries, Visible
      <4> QED BY <3>3, <3>6, <4>3, <4>5
    <3> QED BY <3>5, <3>6
  <2>2. CASE scan # NULL
    <3>1. Lib' = Lib /\ scan'.job = scan.job
      BY <1>0, <1>6, <2>2, LibStays
    <3>2. PICK l : l = Lib
      OBVIOUS
    <3>3. Entries(Lib)' = Entries(l) /\ Entries(l)' = Entries(l)
      <4>1. Entries(Lib)' = Entries(l)'
        BY <3>1, <3>2 DEF Entries, Visible
      <4> QED BY <1>3, <2>0, <4>1
    <3>4. scan.job \in quiet
      <4>1. ~BeginAttempt(scan.job)
        BY <2>2 DEF BeginAttempt
      <4> QED BY <1>6, <3>1, <4>1, QuietSteps
    <3>5. IF scan.target = NULL
            THEN /\ \A p \in Entries(l) \ scan.todo : Settled(p)
                 /\ scan.last \in Entries(l) \cup {NULL}
            ELSE scan.target \in scan.todo /\ SettledTo(scan.target, l)
      BY <1>0, <2>2, <3>2, <3>4 DEF BehindInv
    <3>6. /\ scan.todo \subseteq Entries(l) /\ Entries(l) \subseteq Nat
          /\ \A p \in Entries(l) \ scan.todo, q \in scan.todo : p < q
          /\ scan.stage \in {"enqueue", "mark"} => scan.last \in Entries(l)
      BY <1>0, <2>2, <3>2, <3>4, ScanAssumption DEF WalkInv, Entries
    <3>7. \A p \in Entries(l) : Settled(p) => Settled(p)'
      BY <1>3, <2>0
    <3>8. PICK t : t = scan.target
      OBVIOUS
    <3>9. SettledTo(t, l) => SettledTo(t, l)'
      BY <1>3, <2>0
    <3>10. scan'.target = t /\ SettledTo(t, l)' => SettledTo(scan.target, Lib)'
      BY <3>1, <3>2 DEF SettledTo, Entries, Visible
    <3>11. CASE Stays \/ Probes
      <4>1. scan'.target = scan.target /\ scan'.todo = scan.todo /\ scan'.last = scan.last
        BY <3>11 DEF Stays, Probes
      <4> QED BY <3>3, <3>5, <3>7, <3>8, <3>9, <3>10, <4>1
    <3>12. ASSUME NEW p \in Paths, Meets(p)
           PROVE IF scan'.target = NULL
                   THEN /\ \A q \in Entries(l) \ scan'.todo : Settled(q)'
                        /\ scan'.last \in Entries(l)
                   ELSE scan'.target \in scan'.todo /\ SettledTo(scan.target, Lib)'
      <4>1. /\ p \in scan.todo /\ scan'.todo = scan.todo \ {p} /\ scan'.last = p
            /\ \/ scan.target = NULL /\ scan'.target = NULL /\ Settled(p)'
               \/ scan.target # NULL /\ scan'.target = IF p = scan.target THEN NULL ELSE scan.target
        BY <3>12 DEF Meets, Yields
      <4>2. p \in Entries(l)
        BY <3>6, <4>1
      <4>3. CASE scan.target = NULL
        BY <3>5, <3>7, <4>1, <4>2, <4>3
      <4>4. CASE scan.target = p
        <5>1. scan'.target = NULL
          BY <4>1, <4>4
        <5>2. ASSUME NEW q \in Entries(l) \ scan'.todo PROVE Settled(q)'
          <6>1. q <= p
            BY <3>6, <4>1, <4>2, <5>2
          <6>2. Settled(q)
            <7>1. scan.target # NULL
              BY <4>4, ScanAssumption
            <7>2. SettledTo(p, l)
              BY <3>5, <4>4, <7>1
            <7> QED BY <5>2, <6>1, <7>2 DEF SettledTo
          <6> QED BY <3>7, <5>2, <6>2
        <5> QED BY <4>1, <4>2, <5>1, <5>2
      <4>5. CASE scan.target # NULL /\ scan.target # p
        BY <3>5, <3>8, <3>9, <3>10, <4>1, <4>5
      <4> QED BY <4>3, <4>4, <4>5
    <3> QED BY <1>0, <1>6, <2>0, <2>2, <3>3, <3>11, <3>12, ScanMoves
  <2> QED BY <2>1, <2>2
<1> QED BY <1>1, <1>2, <1>5, <1>6 DEF BehindInv

\* Past the walk a scan only sweeps and deletes.
LEMMA LateSteps ==
  ASSUME RowsInv, [Next]_vars, scan' # NULL, scan'.stage \in {"purge", "finish"}
  PROVE \/ SweepEnds \/ DeleteMediaFile \/ PurgeEnds
        \/ WalkEnds /\ scan'.stage = "finish" /\ ~jobs[scan.job].full
        \/ scan' = scan /\ (rows' = rows \/ Age)
<1>0. scan # NULL => scan \in Scan
  BY ScanFacts
<1>1. \A p \in Paths : ~SkipFile(p)
  <2> SUFFICES ASSUME NEW p \in Paths, SkipFile(p) PROVE FALSE
    OBVIOUS
  <2>1. Meets(p)
    BY Skips
  <2> QED BY <2>1 DEF Meets
<1>2. \A p \in Paths : ~(FileVanished(p) \/ FileUnchanged(p) \/ FileReencoded(p) \/ FileRelocated(p)
                          \/ FileAdded(p) \/ FileFails(p))
  <2> SUFFICES ASSUME NEW p \in Paths, FileVanished(p) \/ FileUnchanged(p) \/ FileReencoded(p)
                        \/ FileRelocated(p) \/ FileAdded(p) \/ FileFails(p)
               PROVE FALSE
    OBVIOUS
  <2>1. scan # NULL
    BY DEF FileVanished, FileUnchanged, FileReencoded, FileRelocated, FileAdded, FileFails, Processing
  <2>2. \/ scan' = Passed(p, {}, "mark") \/ scan' = Passed(p, {p}, "mark")
        \/ scan' = Passed(p, {}, "enqueue")
    BY DEF FileVanished, FileUnchanged, FileReencoded, FileRelocated, FileAdded, FileFails
  <2>3. scan'.stage \in {"mark", "enqueue"}
    BY ONLY <1>0, <2>1, <2>2, p \in Paths, PassedFields
  <2> QED BY <2>3
<1>3. \A j \in JobIds : ~BeginAttempt(j)
  BY Begins
<1>4. ~(EnqueueProbe \/ EnqueueFails \/ MaybeCheckpoint)
  BY <1>0 DEF EnqueueProbe, EnqueueFails, MaybeCheckpoint, Scan
<1>5. WalkEnds => scan'.stage = "finish" /\ ~jobs[scan.job].full
  BY <1>0 DEF WalkEnds, Scan
<1>6. ~MarkFileMissing
  BY DEF MarkFileMissing, world, bounds
<1> QED
  BY <1>1, <1>2, <1>3, <1>4, <1>5, <1>6
  DEF Next, ScanStep, Fault, World, vars, world, bounds, Finish, AttemptFails, Crash,
      WatchScanFails, Unmount, Mount, ChangeFile, RequestScan, WatchScan, MoveFile, Activity, Age

LEMMA SweptStep ==
  ASSUME IInv, RowsInv', [Next]_vars
  PROVE SweptInv'
<1>0. RowsInv /\ SweptInv
  BY DEF IInv
<1> SUFFICES ASSUME scan' # NULL
             PROVE /\ \A r \in scan'.stale : r \in OfLibrary(Lib)' /\ rows'[r].missing = "old"
                   /\ (scan.stage = "purge" \/ (scan.stage = "finish" /\ jobs[scan.job].full))' =>
                        \A r \in OfLibrary(Lib)' : rows'[r].missing = "no" => rows'[r].path \in scan'.seen
  BY DEF SweptInv
<1>1. CASE scan'.stage \notin {"purge", "finish"}
  BY <1>1 DEF RowsInv, FreshIsNotOld
<1>2. CASE scan'.stage \in {"purge", "finish"}
  <2>1. scan # NULL /\ scan'.job = scan.job /\ Lib' = Lib /\ scan \in Scan
    <3>1. scan # NULL
      BY <1>0, <1>2, LateSteps
         DEF SweepEnds, DeleteMediaFile, PurgeEnds, WalkEnds
    <3> QED BY <1>0, <3>1, LibStays, ScanFacts
  <2>2. jobs'[scan.job].full = jobs[scan.job].full
    BY <1>0, <2>1, JobSteps, ScanFacts DEF RowsInv, ScanSane
  <2>3. \A r \in scan.stale : r \in OfLibrary(Lib) /\ rows[r].missing = "old"
    BY <1>0, <2>1 DEF SweptInv
  <2>4. scan.stage = "purge" \/ (scan.stage = "finish" /\ jobs[scan.job].full) =>
          \A r \in OfLibrary(Lib) : rows[r].missing = "no" => rows[r].path \in scan.seen
    BY <1>0, <2>1 DEF SweptInv
  <2>5. CASE SweepEnds
    <3>1. scan'.stale = Stale(Lib) /\ scan'.seen = scan.seen /\ rows' = rows
      BY <2>1, <2>5 DEF SweepEnds, Scan
    <3>2. \A r \in OfLibrary(Lib) : rows[r].missing = "no" => rows[r].path \in scan.seen
      BY <2>5 DEF SweepEnds, Unseen
    <3>3. OfLibrary(Lib)' = OfLibrary(Lib)
      BY <2>1, <3>1 DEF OfLibrary, Live
    <3> QED BY <3>1, <3>2, <3>3 DEF Stale
  <2>6. CASE DeleteMediaFile
    <3>1. PICK r \in scan.stale : rows' = [rows EXCEPT ![r] = NULL] /\ scan' = [scan EXCEPT !.stale = @ \ {r}]
      BY <2>6 DEF DeleteMediaFile
    <3>2. scan'.stale = scan.stale \ {r} /\ scan'.seen = scan.seen /\ scan.stage = "purge"
          /\ scan.stale \subseteq RowIds /\ rows \in [RowIds -> Row \cup {NULL}]
      BY <1>0, <2>1, <2>6, <3>1 DEF DeleteMediaFile, Scan, RowsInv, TypeOK
    <3>3. \A s \in RowIds : s # r => rows'[s] = rows[s]
      BY <3>1, <3>2
    <3>4. rows'[r] = NULL
      BY <3>1, <3>2
    <3>5. \A s : s \in OfLibrary(Lib)' <=> s \in OfLibrary(Lib) /\ s # r
      BY <2>1, <3>3, <3>4 DEF OfLibrary, Live
    <3>6. \A s \in OfLibrary(Lib) : s \in RowIds
      BY DEF OfLibrary, Live
    <3> QED BY <2>3, <2>4, <3>2, <3>3, <3>5, <3>6
  <2>7. CASE PurgeEnds
    <3>1. scan'.stale = scan.stale /\ scan'.seen = scan.seen /\ rows' = rows /\ scan.stage = "purge"
      BY <2>1, <2>7 DEF PurgeEnds, Scan
    <3>2. OfLibrary(Lib)' = OfLibrary(Lib)
      BY <2>1, <3>1 DEF OfLibrary, Live
    <3> QED BY <2>3, <2>4, <3>1, <3>2
  <2>8. CASE WalkEnds /\ scan'.stage = "finish" /\ ~jobs[scan.job].full
    BY <2>1, <2>2, <2>8 DEF RowsInv, FreshIsNotOld
  <2>9. CASE scan' = scan /\ (rows' = rows \/ Age)
    <3>1. \A r \in RowIds :
            /\ rows'[r] = NULL <=> rows[r] = NULL
            /\ rows[r] # NULL => /\ rows'[r].path = rows[r].path /\ rows'[r].lib = rows[r].lib
                                 /\ rows'[r].missing = "no" <=> rows[r].missing = "no"
                                 /\ rows[r].missing = "old" => rows'[r].missing = "old"
      BY <1>0, <2>9, OthersAlike
    <3>2. OfLibrary(Lib)' = OfLibrary(Lib) /\ \A r \in OfLibrary(Lib) : r \in RowIds /\ rows[r] # NULL
      BY <2>1, <3>1 DEF OfLibrary, Live
    <3> QED BY <2>1, <2>2, <2>3, <2>4, <2>9, <3>1, <3>2
  <2> QED BY <1>0, <1>2, <2>5, <2>6, <2>7, <2>8, <2>9, LateSteps
<1> QED BY <1>1, <1>2

LEMMA ProbeStep ==
  ASSUME IInv, [Next]_vars
  PROVE ProbeInv'
<1>0. RowsInv /\ ProbeInv
  BY DEF IInv
<1> SUFFICES ASSUME faults' = 0, NEW r \in Live'
             PROVE \/ rows'[r].probed
                   \/ scan' # NULL /\ scan'.stage = "enqueue" /\ rows'[r].path = scan'.last
  BY DEF ProbeInv
<1> DEFINE Done == \A s \in Live : rows[s].probed
<1>t. faults \in Nat /\ rows \in [RowIds -> Row \cup {NULL}] /\ (\A s \in Live : s \in RowIds /\ rows[s] \in Row)
      /\ (scan # NULL => scan \in Scan) /\ r \in RowIds /\ rows'[r] # NULL
  BY <1>0, ScanFacts DEF RowsInv, TypeOK, Live
<1>f. faults' # faults + 1
  BY <1>t
<1>1. faults = 0
  BY <1>t, <1>f
  DEF Next, ScanStep, Fault, World, vars, world, bounds, BeginAttempt, SkipFile, FileVanished,
      FileUnchanged, FileReencoded, FileRelocated, FileAdded, FileFails, EnqueueProbe, EnqueueFails,
      MaybeCheckpoint, WalkEnds, MarkFileMissing, SweepEnds, DeleteMediaFile, PurgeEnds, Finish,
      AttemptFails, Crash, RequestScan, WatchScan, WatchScanFails, Unmount, Mount, ChangeFile,
      MoveFile, Activity, Age
<1>2. scan = NULL \/ scan.stage # "enqueue" => Done
  BY <1>0, <1>1 DEF ProbeInv
<1>3. \A s \in Live : rows[s].probed \/ (scan # NULL /\ scan.stage = "enqueue" /\ rows[s].path = scan.last)
  BY <1>0, <1>1 DEF ProbeInv
<1>4. ASSUME NEW p \in Paths,
             FileUnchanged(p) \/ FileReencoded(p) \/ FileRelocated(p) \/ FileAdded(p)
      PROVE \/ rows'[r].probed
            \/ scan' # NULL /\ scan'.stage = "enqueue" /\ rows'[r].path = scan'.last
  <2>1. PICK s, row : Describes(s, row, p)
    BY <1>0, <1>4, FileDescribed
  <2>2. disk' = disk /\ scan # NULL /\ scan.stage = "walk"
    BY <1>4 DEF FileUnchanged, FileReencoded, FileRelocated, FileAdded, Processing, world
  <2>3. Meets(p)
    BY <1>0, <1>4, <2>2, Processes
  <2>4. Done
    BY <1>2, <2>2
  <2>5. CASE r # s
    <3>1. rows'[r] = rows[r] /\ r \in Live
      BY <1>t, <2>1, <2>5 DEF Describes, Live
    <3> QED BY <2>4, <3>1
  <2>6. CASE r = s
    <3>1. rows'[r] = row /\ row.path = p
          /\ ((r \in Live /\ row.probed = rows[r].probed) \/ scan'.stage = "enqueue")
      BY <1>t, <2>1, <2>6 DEF Describes
    <3>2. r \in Live /\ row.probed = rows[r].probed => rows'[r].probed
      <4> SUFFICES ASSUME r \in Live, row.probed = rows[r].probed PROVE rows'[r].probed
        OBVIOUS
      <4>1. rows[r].probed
        BY <2>4
      <4> QED BY ONLY <3>1, <4>1, row.probed = rows[r].probed, Zenon
    <3>3. scan' # NULL /\ scan'.last = p
      <4>1. scan' # NULL
        <5>1. scan' = Passed(p, {p}, "mark") \/ scan' = Passed(p, {}, "enqueue")
          BY <1>4 DEF FileUnchanged, FileReencoded, FileRelocated, FileAdded
        <5>2. Passed(p, {p}, "mark") \in Scan /\ Passed(p, {}, "enqueue") \in Scan
          BY <1>t, <2>2, PassedFacts DEF MovedPast, Stages
        <5> QED BY <5>1, <5>2, NullAssumption
      <4> QED BY <2>3, <4>1 DEF Meets
    <3> QED BY <3>1, <3>2, <3>3
  <2> QED BY <2>5, <2>6
<1>5. CASE EnqueueProbe
  <2>1. rows' = [s \in RowIds |-> IF s \in ByPath(scan.last) THEN [rows[s] EXCEPT !.probed = TRUE]
                                                            ELSE rows[s]]
    BY <1>5 DEF EnqueueProbe
  <2>2. CASE r \in ByPath(scan.last)
    <3>1. rows'[r] = [rows[r] EXCEPT !.probed = TRUE] /\ rows[r] \in Row
      BY <1>t, <2>1, <2>2 DEF ByPath
    <3>2. rows'[r].probed = TRUE
      BY ONLY <3>1 DEF Row
    <3> QED BY <3>2
  <2>3. CASE r \notin ByPath(scan.last)
    <3>1. rows'[r] = rows[r] /\ r \in Live /\ rows[r].path # scan.last
      BY <1>t, <2>1, <2>3 DEF ByPath, Live
    <3> QED BY <1>3, <3>1
  <2> QED BY <2>2, <2>3
<1>6. CASE MarkFileMissing
  <2>1. PICK s \in Unseen : rows' = [rows EXCEPT ![s].missing = "recent"]
    BY <1>6 DEF MarkFileMissing
  <2>2. Done
    BY <1>2, <1>6 DEF MarkFileMissing
  <2>3. s \in RowIds /\ rows[s] \in Row /\ s \in Live
    BY <1>t DEF Unseen, OfLibrary
  <2>4. CASE r = s
    <3>1. rows'[r] = [rows[r] EXCEPT !.missing = "recent"]
      BY <1>t, <2>1, <2>3, <2>4
    <3>2. rows'[r].probed = rows[r].probed
      BY ONLY <2>3, <2>4, <3>1 DEF Row
    <3> QED BY ONLY <2>2, <2>3, <2>4, <3>2, Zenon
  <2>5. CASE r # s
    <3>1. rows'[r] = rows[r] /\ r \in Live
      BY <1>t, <2>1, <2>3, <2>5 DEF Live
    <3> QED BY <2>2, <3>1
  <2> QED BY <2>4, <2>5
<1>7. CASE DeleteMediaFile
  <2>1. PICK s \in scan.stale : rows' = [rows EXCEPT ![s] = NULL]
    BY <1>7 DEF DeleteMediaFile
  <2>2. Done
    BY <1>2, <1>7 DEF DeleteMediaFile
  <2>3. rows'[r] = rows[r] /\ r \in Live
    BY <1>t, <2>1 DEF Live
  <2> QED BY <2>2, <2>3
<1>8. CASE Age
  <2>1. r \in Live /\ (rows[r].probed => rows'[r].probed) /\ rows'[r].path = rows[r].path /\ scan' = scan
    BY <1>0, <1>t, <1>8, OthersAlike DEF Live, Age
  <2> QED BY <1>3, <2>1
<1>9. CASE rows' = rows /\ (scan' = scan \/ scan = NULL \/ scan.stage # "enqueue")
  <2>1. rows'[r] = rows[r] /\ r \in Live
    BY <1>t, <1>9 DEF Live
  <2> QED BY <1>2, <1>3, <1>9, <2>1
<1>10. ~(EnqueueFails \/ AttemptFails \/ Crash) /\ \A p \in Paths : ~FileFails(p)
  BY <1>f DEF EnqueueFails, AttemptFails, Crash, FileFails
<1> QED
  BY <1>4, <1>5, <1>6, <1>7, <1>8, <1>9, <1>10
  DEF Next, ScanStep, Fault, World, vars, world, bounds, BeginAttempt, SkipFile, FileVanished, Processing,
      MaybeCheckpoint, WalkEnds, SweepEnds, PurgeEnds, Finish, RequestScan, WatchScan,
      WatchScanFails, Unmount, Mount, ChangeFile, MoveFile, Activity

LEMMA ExactInductive == IInv /\ [Next]_vars => IInv'
<1> SUFFICES ASSUME IInv, [Next]_vars PROVE IInv'
  OBVIOUS
<1>1. RowsInv'
  BY Inductive DEF IInv
<1> QED BY <1>1, WalkStep, BehindStep, SweptStep, ProbeStep DEF IInv

LEMMA ExactInitial == Init => IInv
<1> SUFFICES ASSUME Init PROVE IInv
  OBVIOUS
<1>1. RowsInv
  BY Initial
<1>2. scan = NULL /\ quiet = {} /\ Live = {}
  BY DEF Init, Live
<1>3. \A j \in JobIds : jobs[j] # NULL => jobs[j].ckpt = NULL
  <2> TAKE j \in JobIds
  <2> DEFINE first == {NewJob(l, TRUE) : l \in Libraries}
  <2>0. jobs \in [JobIds -> first \cup {NULL}]
    BY DEF Init
  <2>1. jobs[j] # NULL => \E l \in Libraries : jobs[j] = NewJob(l, TRUE)
    <3>1. jobs[j] # NULL => jobs[j] \in first
      <4> HIDE DEF first
      <4> QED BY <2>0
    <3> QED BY <3>1, Zenon
  <2>2. \A l \in Libraries : NewJob(l, TRUE).ckpt = NULL
    BY DEF NewJob
  <2> QED BY ONLY <2>1, <2>2
<1> QED BY <1>1, <1>2, <1>3 DEF IInv, WalkInv, BehindInv, SweptInv, ProbeInv

\* The running walk, the checkpoints and the rows agree about what lies behind the
\* walk: the inductive invariant of the scanner.
THEOREM ScanInvariance == Spec => []IInv
BY ExactInitial, ExactInductive, PTL DEF Spec

\* What the invariant says of a job that is about to finish.
LEMMA ExactStep ==
  IInv /\ [Next]_vars => [Finish /\ scan.job \in quiet => Exact(Lib, jobs[scan.job].full)]_vars
<1> SUFFICES ASSUME IInv, Finish, scan.job \in quiet PROVE Exact(Lib, jobs[scan.job].full)
  OBVIOUS
<1>0. RowsInv /\ WalkInv /\ BehindInv /\ SweptInv /\ ProbeInv
  BY DEF IInv
<1>1. scan # NULL /\ scan.stage = "finish" /\ scan.todo = {}
  BY <1>0 DEF Finish, WalkInv
<1>2. \A p \in Entries(Lib) : Settled(p) /\ LibOf[p] = Lib /\ p \in Paths
  <2>1. scan.target = NULL
    BY <1>0, <1>1 DEF BehindInv
  <2> QED BY <1>0, <1>1, <2>1 DEF BehindInv, Entries
<1>3. \A p \in Entries(Lib) : Sole(p) => HasRow(p, Lib)
  BY <1>2 DEF Settled
<1>4. ASSUME jobs[scan.job].full, NEW r \in OfLibrary(Lib)
      PROVE rows[r].missing = "no" <=> rows[r].path \in Entries(Lib)
  <2>1. rows[r].missing = "no" => rows[r].path \in Entries(Lib)
    BY <1>0, <1>1, <1>4 DEF SweptInv, WalkInv
  <2>2. ASSUME rows[r].path \in Entries(Lib) PROVE rows[r].missing = "no"
    <3>1. r \in ByPath(rows[r].path) /\ rows[r].lib = LibOf[rows[r].path]
      BY <1>2, <2>2 DEF ByPath, OfLibrary
    <3> QED BY <1>2, <2>2, <3>1 DEF Settled
  <2> QED BY <2>1, <2>2
<1>5. ASSUME faults = 0, NEW r \in OfLibrary(Lib) PROVE rows[r].probed
  BY <1>0, <1>1, <1>5 DEF ProbeInv, OfLibrary
<1> QED BY <1>3, <1>4, <1>5 DEF Exact

\* A scan job that succeeds on a disk that stood still since its first attempt leaves
\* a row for every file, and a full one has flagged exactly the rows without a file.
THEOREM JobIsExactTheorem == Spec => JobIsExact
BY ScanInvariance, ExactStep, PTL DEF Spec, JobIsExact
=================================================================================
