---------------------------- MODULE ServedPlaylist ----------------------------
(***************************************************************************)
(* The served HLS playlist of one session: what the worker's poll tick     *)
(* folds from ffmpeg's per-run playlists, prunes from disk, freezes at     *)
(* ENDLIST and writes to media.m3u8 (apps/worker/src/transcode/playlist.ts *)
(* and the fold of runner.ts), and how a client numbers what it reads      *)
(* there with the tags apps/server/src/common/served-playlist.ts adds.     *)
(*                                                                         *)
(* TranscodeSession decides when runs start and stop; here a restart is a  *)
(* choice made at the end of any tick.  A segment lasts one unit, so the   *)
(* retention window is a number of segments.  The unlinks and the rewrite  *)
(* of a tick are separate steps: a client may read between them.           *)
(***************************************************************************)
EXTENDS Integers, FiniteSets, FiniteSetsExt

CONSTANTS
  Retention,      \* SEGMENT_RETENTION_SEC, in segments
  MaxRuns,        \* bound on restarts
  MaxSegments     \* bound on the segments of one run

ASSUME RetentionAssumption == Retention \in Nat \ {0}
ASSUME PlaylistBounds == MaxRuns \in Nat /\ MaxSegments \in Nat

VARIABLES
  cur,       \* currentRun.index
  start,     \* currentRun.startSegment
  written,   \* segments ffmpeg's own playlist of the current run lists
  endlist,   \* ffmpeg's own playlist of the current run has ENDLIST
  disk,      \* segment files: <<run, index>>
  state,     \* servedState.runs, sorted by run index: run -> [segs, ended]
  frozen,    \* this tick's playlistFrozen
  floor,     \* viewerSegmentIndex, -1 when undefined
  file,      \* media.m3u8: [runs, ended], of no run when not written
  pc,        \* where the tick is
  served,    \* the row's highest_served_segment, -1 when NULL
  held,      \* the segments the playlist the client last read lists
  skipped    \* history: a run was replaced before it listed anything

workerVars == <<cur, start, state, frozen, floor, file, pc>>
vars == <<workerVars, written, endlist, disk, served, held, skipped>>

-----------------------------------------------------------------------------
(* playlist.ts.                                                            *)

\* What a state or a rendered playlist lists: <<run, index>>, and the indexes.
Listed(rs) == UNION {{<<r, n>> : n \in rs[r].segs} : r \in DOMAIN rs}
Indexes(rs) == UNION {rs[r].segs : r \in DOMAIN rs}

\* The last run in order.
LastRun(rs) == Max(DOMAIN rs)

\* The fold replaces the run's whole list by what ffmpeg's playlist says: it
\* brings back segments that were pruned.
ApplyRunUpdate(rs, run, segs, ended) ==
  [r \in DOMAIN rs \cup {run} |->
     IF r = run THEN [segs |-> segs, ended |-> ended] ELSE rs[r]]

ServedPlaylistHasEnded(rs) == DOMAIN rs # {} /\ rs[LastRun(rs)].ended

HighestProduced(rs) == IF Indexes(rs) = {} THEN -1 ELSE Max(Indexes(rs))

\* The segments listed after a segment.
Following(rs, n) == {m \in Indexes(rs) : m > n}

\* Mutant: no viewer floor.
PrunableAnyViewer(rs, viewer) ==
  {n \in Indexes(rs) : Cardinality(Following(rs, n)) >= Retention}

\* A segment goes when it ends at or before the live edge minus the retention,
\* that is when Retention segments follow it, and lies below the viewer.
Prunable(rs, viewer) ==
  {n \in Indexes(rs) : Cardinality(Following(rs, n)) >= Retention /\ n < viewer}

\* runDirsToDelete: the past runs that lose their last segment.
DeletedRuns(rs, current, viewer) ==
  {r \in DOMAIN rs \ {current} :
     rs[r].segs # {} /\ rs[r].segs \subseteq Prunable(rs, viewer)}

\* Mutant: the freeze is in the prune, after the fold has brought segments back.
PruneUntilEnded(rs, current, viewer) ==
  IF ServedPlaylistHasEnded(rs) THEN rs
  ELSE [r \in DOMAIN rs \ DeletedRuns(rs, current, viewer) |->
          [rs[r] EXCEPT !.segs = @ \ Prunable(rs, viewer)]]

\* Those runs drop out; the current run stays, whatever is left of it.
PruneRetention(rs, current, viewer) ==
  [r \in DOMAIN rs \ DeletedRuns(rs, current, viewer) |->
     [segs |-> rs[r].segs \ Prunable(rs, viewer), ended |-> rs[r].ended]]

\* renderServedPlaylist: every run's segments, a DISCONTINUITY before each run
\* but the first, ENDLIST when the last run has ended.
RenderServedPlaylist(rs) == [runs |-> rs, ended |-> ServedPlaylistHasEnded(rs)]

-----------------------------------------------------------------------------
(* served-playlist.ts: the sequence tags, and the client's numbering.      *)

\* The first index, and the run it belongs to, of a playlist's first segment URI.
FirstIndex(f) == Min(Indexes(f.runs))

\* Mutant: no EXT-X-DISCONTINUITY-SEQUENCE.
FirstRunForgotten(f) == 0
Owner(f, n) == CHOOSE r \in DOMAIN f.runs : n \in f.runs[r].segs
FirstRun(f) == Owner(f, FirstIndex(f))

\* EXT-X-MEDIA-SEQUENCE plus the segment's place in the playlist.
MediaNumber(f, n) == FirstIndex(f) + Cardinality({m \in Indexes(f.runs) : m < n})

\* EXT-X-DISCONTINUITY-SEQUENCE plus the DISCONTINUITY tags before the segment.
DiscontinuityNumber(f, n) ==
  FirstRun(f) + Cardinality({r \in DOMAIN f.runs : r < Owner(f, n)})

-----------------------------------------------------------------------------
(* ffmpeg, the client and the tick.                                        *)

NoRuns == [r \in {} |-> {}]

Init ==
  /\ cur = 0 /\ start = 0
  /\ written = 0 /\ endlist = FALSE
  /\ disk = {}
  /\ state = NoRuns /\ frozen = FALSE /\ floor = -1
  /\ file = RenderServedPlaylist(NoRuns)
  /\ pc = "sleep"
  /\ served = -1 /\ held = {}
  /\ skipped = FALSE

\* A segment file is complete when ffmpeg's playlist lists it.
WriteSegment ==
  /\ ~endlist
  /\ written < MaxSegments
  /\ written' = written + 1
  /\ disk' = disk \cup {<<cur, start + written>>}
  /\ UNCHANGED <<workerVars, endlist, served, held, skipped>>

\* The run reached the end of its input, or the throttle released it.
WriteEndlist ==
  /\ written > 0
  /\ ~endlist
  /\ endlist' = TRUE
  /\ UNCHANGED <<workerVars, written, disk, served, held, skipped>>

ReadPlaylist ==
  /\ held' = Listed(file.runs)
  /\ UNCHANGED <<workerVars, written, endlist, disk, served, skipped>>

\* A segment GET answered with a body: recordServedSegment's GREATEST.
ServeSegment ==
  /\ \E e \in held \cap disk : e[2] > served /\ served' = e[2]
  /\ UNCHANGED <<workerVars, written, endlist, disk, held, skipped>>

\* Mutant: no freeze.
NeverFrozen == FALSE

\* Frozen: the last folded run is the current one and had ended BEFORE this fold.
PlaylistFrozen ==
  ServedPlaylistHasEnded(state) /\ LastRun(state) = cur

\* The first half of a tick: freeze, fold, watermark.  ffmpeg's playlist exists
\* once it lists a segment.
Fold ==
  /\ pc = "sleep"
  /\ frozen' = PlaylistFrozen
  /\ state' = IF PlaylistFrozen \/ written = 0 THEN state
              ELSE ApplyRunUpdate(state, cur, start .. start + written - 1, endlist)
  /\ floor' = IF served > floor THEN served ELSE floor
  /\ pc' = IF HighestProduced(state') < 0 THEN "restart" ELSE "prune"
  /\ UNCHANGED <<cur, start, file, written, endlist, disk, served, held, skipped>>

\* Unlinks come before the rewrite.
Prune ==
  /\ pc = "prune"
  /\ IF frozen
       THEN UNCHANGED <<state, disk>>
       ELSE /\ state' = PruneRetention(state, cur, floor)
            /\ disk' = {e \in disk :
                          /\ e \notin Listed(state) \/ e[2] \notin Prunable(state, floor)
                          /\ e[1] \notin DeletedRuns(state, cur, floor)}
  /\ pc' = "write"
  /\ UNCHANGED <<cur, start, frozen, floor, file, written, endlist, served, held, skipped>>

Write ==
  /\ pc = "write"
  /\ file' = IF frozen THEN file ELSE RenderServedPlaylist(state)
  /\ pc' = "restart"
  /\ UNCHANGED <<cur, start, state, frozen, floor, written, endlist, disk, served, held, skipped>>

\* The tick ends, or a seek, handoff, recovery or release restarts the run:
\* the next one is numbered above everything listed and above this one.
EndTick ==
  /\ pc = "restart"
  /\ pc' = "sleep"
  /\ UNCHANGED <<cur, start, state, frozen, floor, file, written, endlist, disk, served, held, skipped>>

\* Mutant: the produced index itself.
StartAtProduced == HighestProduced(state)

StartSegment == Max({HighestProduced(state) + 1, start + 1})

Restart ==
  /\ pc = "restart"
  /\ cur < MaxRuns
  /\ cur' = cur + 1
  /\ start' = StartSegment
  /\ written' = 0
  /\ endlist' = FALSE
  /\ skipped' = (skipped \/ cur \notin DOMAIN state)
  /\ pc' = "sleep"
  /\ UNCHANGED <<state, frozen, floor, file, disk, served, held>>

Next ==
  \/ WriteSegment \/ WriteEndlist \/ ReadPlaylist \/ ServeSegment
  \/ Fold \/ Prune \/ Write \/ EndTick \/ Restart

Spec == Init /\ [][Next]_vars

-----------------------------------------------------------------------------
(* Properties.                                                             *)

RunsType == [segs : SUBSET Nat, ended : BOOLEAN]
Runs(rs) == DOMAIN rs \subseteq 0 .. cur /\ \A r \in DOMAIN rs : rs[r] \in RunsType

TypeOK ==
  /\ cur \in 0 .. MaxRuns /\ start \in Nat /\ written \in 0 .. MaxSegments
  /\ {endlist, frozen, skipped} \subseteq BOOLEAN
  /\ disk \subseteq (0 .. cur) \X Nat /\ held \subseteq (0 .. cur) \X Nat
  /\ Runs(state) /\ Runs(file.runs)
  /\ file = [runs |-> file.runs, ended |-> file.ended] /\ file.ended \in BOOLEAN
  /\ {floor, served} \subseteq Nat \cup {-1}
  /\ pc \in {"sleep", "prune", "write", "restart"}

\* Between ticks media.m3u8 lists only files that exist: no fold brings back a
\* pruned segment, not even on the tick ENDLIST arrives ("the fold-resurrect
\* defect" of runner.ts).
ListedOnDisk == pc \in {"sleep", "restart"} => Listed(file.runs) \subseteq disk

\* At every instant, also between a tick's unlinks and its rewrite, what the
\* playlist lists at or past the viewer is there to be fetched (pruneRetention:
\* "never a segment the viewer has not reached yet").
UnreachedOnDisk == \A e \in Listed(file.runs) : e[2] >= served => e \in disk

\* The playlist's first segment never moves back (RFC 8216 6.2.2).
MediaSequenceForward ==
  [][DOMAIN file.runs # {} /\ DOMAIN file'.runs # {} => FirstIndex(file') >= FirstIndex(file)]_vars

\* A playlist that has ended does not change, and loses no file, until a restart
\* gives it another run.
EndedUnchanged ==
  [][file.ended /\ LastRun(file.runs) = cur =>
       file' = file /\ disk \subseteq disk']_vars

\* A client that reads two successive playlists gives a segment both of them
\* list the same media sequence and discontinuity numbers.
NumbersAgree(f, g) ==
  \A n \in Indexes(f.runs) \cap Indexes(g.runs) :
    /\ MediaNumber(f, n) = MediaNumber(g, n)
    /\ DiscontinuityNumber(f, n) = DiscontinuityNumber(g, n)

\* That holds as long as every run listed something before it was replaced.
StableNumbers == [][~skipped' => NumbersAgree(file, file')]_vars

-----------------------------------------------------------------------------
(* The inductive invariant behind the playlist properties.                 *)

\* What the current run's own playlist lists.
OwnSegments == start .. start + written - 1

\* Every run in order has segments, all below those of the next; the current
\* run's are its own, every other's lie below its start.
Ordered(rs) ==
  /\ \A r \in DOMAIN rs : rs[r].segs # {}
  /\ \A r \in DOMAIN rs : rs[r].segs \subseteq IF r = cur THEN OwnSegments ELSE 0 .. start - 1
  /\ \A r, q \in DOMAIN rs : r < q => \A n \in rs[r].segs, m \in rs[q].segs : n < m
ShapeInv == Ordered(state) /\ Ordered(file.runs)

\* Outside a tick, and in a frozen one, the file is the state rendered; inside,
\* they differ in the current run until the prune.
TickInv ==
  /\ pc \in {"sleep", "restart"} \/ frozen => file = RenderServedPlaylist(state)
  /\ pc \in {"prune", "write"} =>
       /\ DOMAIN state # {}
       /\ frozen = (file.ended /\ LastRun(file.runs) = cur)
       /\ \A r \in DOMAIN state \ {cur} :
            r \in DOMAIN file.runs /\ state[r].segs \subseteq file.runs[r].segs
  /\ pc = "prune" =>
       \A r \in DOMAIN file.runs \ {cur} : r \in DOMAIN state /\ state[r] = file.runs[r]
  /\ pc = "prune" /\ ~frozen =>
       \A n \in OwnSegments : <<cur, n>> \in Listed(state) \/ \A m \in Indexes(state) : m < n

\* A segment of the current run is off the disk only when pruning it again is due:
\* Retention more follow it, and the viewer is past it.
PrunedInv ==
  /\ floor <= served
  /\ \A n \in OwnSegments :
       <<cur, n>> \in disk \/ (n + Retention < start + written /\ n < floor)

\* What is listed is on disk, but for what a fold brought back or a prune unlinked.
DiskInv ==
  /\ \A e \in Listed(file.runs) : e \in disk \/ (pc = "write" /\ e[2] < floor)
  /\ \A e \in Listed(state) :
       e \in disk \/ (pc = "prune" /\ e[1] = cur /\ e[2] \in Prunable(state, floor))

\* Nothing the current run still has on disk lies below the head of the playlist.
HeadInv ==
  /\ LET rs == IF pc = "write" THEN state ELSE file.runs
     IN DOMAIN rs # {} =>
          \A n \in OwnSegments :
            <<cur, n>> \in disk => \E m \in Indexes(rs) : m <= n
  /\ pc = "write" /\ DOMAIN file.runs # {} =>
       \A n \in Indexes(state) : \E m \in Indexes(file.runs) : m <= n

\* As long as no run was skipped, runs and segments are listed without a gap.
Contiguous(rs) ==
  /\ \A a, b \in Indexes(rs) : a .. b \subseteq Indexes(rs)
  /\ \A r, q \in DOMAIN rs : r .. q \subseteq DOMAIN rs
GapInv ==
  ~skipped =>
    /\ Contiguous(state) /\ Contiguous(file.runs)
    /\ cur > 0 /\ cur \notin DOMAIN state =>
         cur - 1 \in DOMAIN state /\ start - 1 \in state[cur - 1].segs

IInv == TypeOK /\ ShapeInv /\ TickInv /\ PrunedInv /\ DiskInv /\ HeadInv /\ GapInv

-----------------------------------------------------------------------------
(* What the repository says of the tags and the code does not do; refuted  *)
(* by a run of its own.                                                    *)

\* withPlaylistSequenceTags: "Both values are DERIVABLE and exact, not estimates.
\* This layer numbers segments absolutely and continuously across every run."
\* (A run replaced before it listed anything leaves a gap in the numbering and no
\* DISCONTINUITY, so both tags jump when the runs before it are pruned.)
TagsAreExact == [][NumbersAgree(file, file')]_vars
=============================================================================
