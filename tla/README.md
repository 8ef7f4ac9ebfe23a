# Loombre: a TLA+ verification project

Loombre is a self-hosted media server. This project models the parts of it that
are concurrent, long-lived and easy to get wrong: a **transcode session**, from
the POST that asks for it to the ffmpeg process that must not outlive it; the
**library scan**, a resumable job over a disk that changes under it; and the
**delivery of events to plugins**, a durable cursor over an outbox. The code is
`apps/server` (HTTP handlers), `apps/worker` (the process that runs ffmpeg, scans
and delivers), `packages/db` (the SQL the two share), `packages/jobs` and
`packages/plugin-host`. Line numbers are those of the
commit under `src/`; `PROJECT.json` maps every definition to its lines.

Contents: [Inventory](#1-inventory) · [Modules and code](#2-modules-and-code) ·
[Runs](#3-runs) · [Bounds](#4-bounds) · [Fairness](#5-fairness) ·
[Proofs](#6-proofs) · [Findings](#7-findings) ·
[Not modelled](#8-not-modelled) · [Plan](#9-plan)

## 1. Inventory

### How the parts interact

Server and worker are separate processes. In playback they share **one row** per session in
`playback_sessions`, and neither calls the other: a seek is a column the server
sets and the worker clears, a suspension a status either may write, a close a
status the worker discovers when its poll loop next reads the row. Jobs go
through pg-boss; segments and the playlist through a staging directory. Nearly
all SQL is either one guarded UPDATE or a SELECT followed by a guarded UPDATE
under READ COMMITTED, so every guard is where an interleaving is decided.

The scanner and the delivery loop live in the worker. A scan is a job: the server
or the file watcher enqueues it, pg-boss retries it, and a checkpoint row carries
it over a crash. The delivery loop polls the `events` table, into which every
transaction of either process inserts, and keeps a cursor row per plugin; its
circuit breaker is memory, seeded from that row and from what the server's health
check writes.

```
 client --HTTP--> server --UPDATE--> playback_sessions <--SELECT/UPDATE-- worker
                    |  \--enqueue--> job queue ----------------------------^ |
                    |                                              spawn/signal
                    +--reads-- media.m3u8, segments <--writes--  ffmpeg <----+
```

### Components that carry the core logic

| Component | State | Operations | What is hard | What makes it correct |
|---|---|---|---|---|
| Session runtime (`apps/worker/src/transcode/runner.ts`, `throttle.ts`, `process.ts`, `exit-classify.ts`, `encoder-recovery.ts`) | current run, produced edge, throttle bits, recovery budget, cool-down | start, poll tick, publish, recover, seek, rung switch, throttle, release, teardown, fail | acts on a row read several awaits ago while handlers and the sweeper write it; encoder dies at any point | one ffmpeg at a time; no lost switch; source time continuous; the manifest gate stays closed until a seek has output; always stops once closed |
| Row statements (`packages/db/src/query/playback-sessions.ts`, `internal/transcode-sessions.ts`) | the row | ~20 statements | check-then-act under READ COMMITTED | `playback.ended` once; a closed row is final |
| Served playlist (`playlist.ts`, the fold of `runner.ts`, `apps/server/src/common/served-playlist.ts`) | folded runs, files on disk, `media.m3u8` | fold, prune, rewrite, freeze, tag | unlinks precede the rewrite; the fold brings pruned segments back | what is listed exists; numbering never moves under a client |
| Worker lifecycle (`run-registry.ts`, `reaper.ts`, `index.ts`) | registry, pids on rows, boot generation | spawn, register, record pid, shutdown, boot reaping | crash between any two steps; detached children; reused pids; failing listing or write | no pid reused before the boot costs a stranger its process; slot freed only when the encoder is gone; boot and shutdown complete |
| Admission and sweeper (`transcode-admission.ts`, `sessions.controller.ts`, `session-sweeper.service.ts`) | promise chain, slots, ages | POST, reclaim, heartbeat, DELETE, two sweeps | count and insert are separate statements; enqueue fails after the insert; stale lists | never over the cap; every POST answered; abandoned slots come back |
| Library scan (`apps/worker/src/scan`, `packages/db/src/internal/files.ts`, `checkpoints.ts`) | `media_files`, `scan_checkpoints`, the scan queue, the watcher's timers | walk, skip on resume, classify a file, checkpoint, mark missing, purge, retry | the disk changes under the walk; a crash between a row and its job; mounts that drop; renames across libraries | no action needs two rows for one path; no early deletion; a job that succeeds is exact; the catalog catches up |
| Plugin delivery and breaker (`apps/worker/src/plugin-delivery`, `packages/plugin-host`) | cursor and failure counts, breaker, tick | read cursor, find gap, read page, filter, call, record, disable | commit order and id order differ from seq order; a window that moves; restarts between failures | every skip but three named ones reported; strikes survive; what is owed is delivered |
| Job queue (`packages/jobs`, `apps/worker/src/index.ts`) | queue, `jobs` ledger | enqueue, run, retry | a scan is retried from its checkpoint, a transcode never | covered where the jobs are: LibraryScan, TranscodeWorker |

Every other part the repository names (probe, metadata, images, mail,
auth, rate limiter, remote access, TLS, bundled database, web client...) is
listed in `PROJECT.json` `components` with the reason it is left out.

### Hazards

`PROJECT.json` `hazards` lists, at the line where each bites, what a test would
hardly reach, with the properties that cover it. The main families:

* two transactions that both read a live row (end against fail against sweep);
* a tick that acts on a row read before a seek, a close or a suspension;
* a restart whose old process is still alive, or whose arguments cannot be rebuilt;
* stop and resume decided from four pieces of state that different actors write;
* a crash between spawning ffmpeg and recording its pid; a pid reused since;
* a failing statement in the middle of a gate, a sweep or a boot;
* segment numbering when a run is replaced before it listed anything, and the map from
  segments to runs when a run's row was lost;
* a scan resumed on another disk than it left, and files marked missing that are there;
* an event that commits after the cursor passed its seq, a page read by seq next to a
  gap found by id, a gap nobody reports, a breaker that forgets or that never closes again.

## 2. Modules and code

```
SessionRow ---------+--> TranscodeSession --> MCTranscodeSession
  (the statements)  |        |    \--> TranscodeSessionProofs --> TranscodeRestartProofs
                    |        \--INSTANCE--> SessionLifecycle     (abstract)
                    \--> Admission --> MCAdmission
                             \--> AdmissionProofs
ServedPlaylist -+--> MCServedPlaylist
                \--> ServedPlaylistProofs
TranscodeWorker +--> MCTranscodeWorker
                \--> TranscodeWorkerProofs
LibraryScan ----+--> MCLibraryScan
                \--> LibraryScanProofs --> LibraryExactProofs
PluginDelivery -+--> MCPluginDelivery
                \--> PluginDeliveryProofs
```

A definition headed `Mutant:` is a plausible bug kept next to the definition it
would replace (`PROJECT.json` `mutants`). No specification uses it; it shows that
the property can fail.

**SessionRow.** One operator per SQL statement, a function from the row before to
the row after; a WHERE clause that does not match returns the row unchanged. The
record keeps the columns the control flow reads: `status`, `seek`
(`seek_target_ms`), `flag` (`suspended_by_throttle`), `produced`, `requested`,
`served`, `pending`/`active` (rung indexes), `disc` (`discontinuity_count`),
`staging` (`staging_dir` is set). Both sides use the same operators, so a guard is
written once.

**TranscodeSession.** `runTranscodeSession` as a program counter over the awaits
that matter, with ffmpeg and the server as its environment.

| Variable | Code |
|---|---|
| `row`, `ended` | the row; `playback.ended` events in the outbox |
| `closing` | progress of each DELETE / sweeper transaction (SELECT, then UPDATE) |
| `pc`, `snap` | where the loop is; the row this tick read |
| `runs` | every run spawned: process state, `startSegment`, origin, rung, seek answered, segments written and listed, and whether its row of `transcode_runs` was written (`recorded`) |
| `ctl` | `processStopped`, `released`, `headPruned` |
| `highest`, `cooldown`, `recovery` | `producedSegment`, the rung cool-down, `encoderRecovery` |
| `next`, `claimed` | the restart being assembled; what a consume's SELECT returned |
| `file` | the last run `media.m3u8` lists |

| Actions | Code |
|---|---|
| `BeginJob`, `StartSession` | first read of the row, `markSessionStarting` |
| `SpawnRun`, `RecordRun`, `RecordRung`, `FinishRestart` | `spawnRun` with the V8 floor, the best-effort `recordTranscodeRun` and `recordActiveRungIndex`, the end of `restartAt` |
| `Tick`, `Publish`, `WritePlaylist` | fold, `markSessionActive`/`updateProducedSegment`, prune and rewrite |
| `ExitCheck`, `GiveUp`, `Recover` | an exit nobody asked for: `planEncoderRecovery` |
| `AbsorbSeek`, `ConsumeSeek`, `SeekSelect`, `SeekUpdate` | the seek block and `consumeSeekTarget`'s two statements |
| `Handoff`, `DeferHandoff`, `RungSelect`, `RungUpdate` | the slot handoff and `consumePendingRungIndex` |
| `Terminate`, `RestartReady`, `TeardownDone`, `Released` | `terminate()` and its three waiters |
| `Throttle` | `reconcileThrottle` and the branch it selects |
| `FailSelect`, `FailUpdate` | `markSessionFailed`, removal of the directory |
| `Produce`, `ReachEnd`, `Die`, `ObeyTermination` | ffmpeg (external) |
| `Heartbeat`, `SweepSuspend`, `EndSelect`, `FinalizeSession`, `ClientRequest`, `RequestSegment`, `ServeSegment`, `ExtractSidecar` | the server's handlers, the sweeper, subtitle extraction |

Granularity: every statement on the row is its own step, and a SELECT and its
UPDATE are two. A tick's row read and playlist read are one step, and so are a
signal and the row write beside it; nothing the properties speak of happens
between them. Source time is counted in segments, and durations are choices (a
stop has or has not outlasted its bound).

**SessionLifecycle.** What the row promises to anyone who watches only status and
events: it moves among the live statuses, closes once, and the close and its
`playback.ended` are one step. `TranscodeSession!ImplementsLifecycle` is the
refinement, with `status <- row.status`.

**ServedPlaylist.** `Fold`, `Prune` and `Write` are the three parts of one tick,
with `WriteSegment`/`WriteEndlist` (ffmpeg), `ReadPlaylist`/`ServeSegment` (a
client) between any two of them. `PruneRetention`, `ApplyRunUpdate` and
`RenderServedPlaylist` are `playlist.ts`'s functions; a state is a function from run
number to what the run lists, since `applyRunUpdate` keeps the runs sorted by number;
`MediaNumber` and `DiscontinuityNumber` are what a client computes from the tags of
`served-playlist.ts`. When runs start is a free choice here, since
TranscodeSession decides it.

**TranscodeWorker.** Per pid the owner of the process there (a session's ffmpeg,
a stranger, nobody), per session the row's pid and generation and the runner's
handle. A job is queued once: whatever ends its runner (a closed row, a crash, or
`RunnerRejects`, a failing statement of the poll loop, which leaves ffmpeg running
without teardown) makes it `over`, because the transcode queue has retryLimit 0.
`Shutdown` snapshots the registry; `Crash` loses all worker memory and no
process; `Boot` lists candidates (or fails to, and goes on); `ReapInspect`, `ReapKill`,
`ReapGiveUpWait`, `ReapFail` are the reaper per candidate. Inspection and signal are two
awaits, so `ReusePid` may come between them; `taken` records that it did. `lost`, `late`,
`taken` are history variables that the properties read and no action tests.

**Admission.** `CreateSession` to `Enqueue` are the awaits of POST
`/playback/sessions`; `tail` is the gate's promise chain; `RequestFails` rejects
any of the awaits. The worker appears as its status writes. `Tick` ages rows;
`SweepOnce`/`EndStalePlaybackSession`/`SecondPass`/`SuspendStale` are the
sweeper's two passes over lists read earlier, `SweepFails` a pass cut short.

**LibraryScan.** The state is the disk (a content per path, the mounted
libraries), `media_files` (`rows`), the scan queue with its checkpoints (`jobs`), the
locals of `runScan` (`scan`) and the watcher's pending timers (`dirty`).

| Actions | Code |
|---|---|
| `RequestScan`, `WatchScan`, `WatchScanFails` | the endpoint, and the watcher's debounce with its fire-and-forget enqueue |
| `BeginAttempt`, `SkipFile` | checkpoint read, walk opened, resume |
| `FileVanished`, `FileUnchanged`, `FileReencoded`, `FileRelocated`, `FileAdded`, `FileFails` | the outcomes of `processOneFile`, each up to its transaction |
| `EnqueueProbe`, `EnqueueFails`, `MaybeCheckpoint` | the jobs of a file, which come after its row; the checkpoint |
| `WalkEnds`, `MarkFileMissing`, `SweepEnds`, `DeleteMediaFile`, `PurgeEnds`, `Finish` | the rest of `runScan`; sweep and purge only in a full scan |
| `AttemptFails`, `Crash` | an attempt that rethrows, a worker that dies; `Requeued` is the retry limit |
| `ChangeFile`, `MoveFile`, `Unmount`, `Mount`, `Age` | the disk, and a grace period that passes (external) |

A file is its content hash: size and mtime only decide whether the hash is
recomputed. How long a row has been missing has two grades, within the grace
period and past it. `fresh`, `quiet` and `excused` are history variables.

**PluginDelivery.** One plugin's `deliverOnePluginTick`, an await a step: `RunOnce`
(list and seed), `GetDeliveryCursor`, `FindOldestUnconsumed`, `ListCandidates` or
`NoCandidates`, `AdvanceCursorPastFilteredEvents`, `CallPlugin` or `CircuitOpen` or
`NotCallable`, `PluginAnswers`, `RecordDeliverySuccess` or `RecordDeliveryFailure`,
and on a trip `DisablePlugin` and `SetUnhealthy`, two transactions. An event is its seq, the order of
its INSERTs; its id is the time of the INSERT and random bits, so ids follow seq from
one millisecond to the next and not within one; its `ts` is the writer's clock, somewhat
earlier. It becomes visible at its commit, another step (`WriteEvent`, `Commit`), so
events appear in any order. The gap query compares ids and `ts` (`Unconsumed`, `Oldest`),
the page seq (`Candidates`), and a report covers the range `from .. edge - 1` that
`delivery-loop.ts:268-275` computes, nothing more. `TimePasses` moves the clock and with
it the retention window. Assumed: server and worker share one clock, id and seq are
drawn at one instant, and a transaction does not stay open until its event has left the
window. `HealthCheck` and `SetEnabled` are what the server writes.
`NewBreaker`, `Admits`, `BeforeCall`, `OnSuccess`, `OnFailure` are the methods of
`PluginCircuitBreaker`, `AfterCall` is what `callPlugin` makes of an outcome.
`acked`, `told`, `late`, `lost`, `missed`, `strikes` are history variables.

## 3. Runs

Every property of a passing run has a mutant that TLC refutes under that run's
own configuration.

| Run | States | Properties | What it shows |
|---|---|---|---|
| `control` | 1.5 M | `ListedSegmentsOwned`, `SeamlessContinuation`, `SeekHoldsManifest`, `RungNotSwallowed`, `SeekingResolves`, `SeekIsAnswered` | seeks and switches, in any order against the loop, neither misnumber, skip, open the manifest gate early, nor get stuck; rows of `transcode_runs` may be lost |
| `races` | 520 k | `EndedExactlyOnce`, `ProcessCensus`, `DoneMeansClosed`, `ClosedIsFinal`, `ImplementsLifecycle`, `CloseStopsEncoder` | a server-side close against an encoder that dies, recovers and restarts: one event, one process, nothing resurrected, everything stops |
| `throttle` | 370 k | `IInv`, `StoppedComesBack`, `ReturningViewerResumes` | no encoder is left stopped under a viewer who needs it, with sweeps, heartbeats, releases and lost writes; and the inductive invariant of the proofs holds |
| `playlist` | 140 k | `IInv`, `ListedOnDisk`, `UnreachedOnDisk`, `MediaSequenceForward`, `EndedUnchanged`, `StableNumbers` | retention and freeze against a client that reads at the worst moment |
| `worker` | 175 k | `IInv`, `SignalsReachOwn`, `SlotHeldWhileEncoding`, `BootClaimsEverything`, `OnlyLateRunsSurvive`, `BootCompletes`, `ShutdownCompletes` | three boots with crashes, shutdowns, runners that reject, pid reuse, failing listing and writes |
| `admission` | 420 k | `IInv`, `NeverOverCap`, `EveryRequestAnswered`, `AbandonedSlotFreed` | two POSTs for one slot with a failing call anywhere |
| `scan` | 940 k | `IInv`, `DeletesOnlyLongUnseen`, `JobIsExact`, `Converges` | scans, retries and resumes over a disk that changes: no early deletion, exact results, and a catalog that catches up |
| `delivery` | 1.6 M | `IInv`, `NoSilentSkip`, `StrikesSurvive`, `EventuallyDelivered` | out-of-order commits and ids, a moving window, a failing plugin and restarts: no skip in silence but the three named, no strike forgotten, nothing owed for ever |
| `staging`, `seek_race`, `tags`, `heartbeating` | – | one each | refutations, see [Findings](#7-findings) |

`IInv`, in six of the runs, is the inductive invariant of that module's proofs; `TypeOK`
is its first conjunct. Deadlock is checked except
in `worker` (a worker may stay down, and boots are bounded) and `admission` (everyone
may have left).

Some properties carry an exclusion that is the code's own limit rather than the
model's. Each is a history variable or a predicate that names exactly the event:

* `SlotHeldWhileEncoding` exempts sessions in `lost` (a worker died between
  spawn and pid record, so no row names the process) and waits the reaper gave up.
* `StableNumbers` speaks of histories in which every run listed something, and
  `tags` shows what happens otherwise.
* `JobIsExact` speaks of jobs in `quiet`: since the first attempt nothing changed on
  disk, no file failed, and no row was deleted whose file lies in another library.
  Attempts that die are not excluded; that is the point of the property. A
  probe is promised only when there was no fault at all.
* `Converges` allows `excused`: a change that nobody will look for any more, because
  the enqueue was lost, the job ran out of attempts or the worker died with a timer
  pending, a file failed, a copy was taken for a move, or a row deleted in one library described a file in another.
* `ListedSegmentsOwned` promises the very run only where that run's row of
  `transcode_runs` was written; where it was lost, that no later run is taken for it.
* `SeekHoldsManifest` speaks of the row's status, which gates the manifest, and not of
  the file the GET then reads.
* `SignalsReachOwn` exempts a pid that changes hands between the reaper's inspection and
  its signal (`taken`), and `terminate()` on an encoder that has already exited.
* `NoSilentSkip` allows `late` (committed after the cursor or the page had passed
  the seq), `lost` (a gap dropped with a page that was filtered whole) and `missed` (below
  the cursor's id although above its seq, hence overlooked by the gap query, and cut off
  by the floor of a gap another event triggered). It also says that only an event of
  the same millisecond as an earlier one is ever missed.
* `EventuallyDelivered` speaks of behaviours in which, from some point on, the
  plugin is enabled and its breaker is not `Wedged` (half-open with no trial running).

## 4. Bounds

| Constant | Value | Why it is enough |
|---|---|---|
| `SourceLen` | 1–3 segments | 2 lets a seek land inside, at the edge of and beyond a run's listed output; 3 lets the lead exceed `SuspendAhead` = 1; 1 suffices where only processes and closes matter |
| `Rungs` | {0,1,2} | the running rung, the one claimed and a third asked for meanwhile |
| `MaxRequests` | 1–2 | a second request between the SELECT and the UPDATE of the first |
| `Enders` | one | against the worker's own close this is the two-party race; the theorem covers any number |
| `MaxHardwareRetries` | 0–1 | retry, fall-back and give-up are all reached in `races` |
| `MaxSweeps` | 1 | one sweeper suspension on top of the throttle's |
| `Gets` | {2} | a viewer at the source's last segment, who has caught up |
| `MaxRuns`, `MaxSegments`, `Retention` | 2, 2, 1 | three runs of up to two segments: a whole run can be pruned, and a middle one left empty |
| `MaxGen`, `Pids` | 3, 3 | an orphan survives a boot that failed to claim it and meets the next; two pids for ffmpeg runs of one session, one for a stranger |
| `Requests`, `Caps` | 2, {1} | a holder and a contender; both may also be contenders |
| cut-offs 0/1/1, `MaxFaults` 1 | | a row can be suspended before it is reclaimable, and one call fails at any await |
| `Paths`, `Libraries`, `Contents` | 3, 2, 2 | a file before and one after the checkpoint, a file in another library; an edit, a copy and a rename across libraries |
| `RowIds`, `JobIds` | 4, 2 | one more row than paths; a job running and one waiting |
| `CheckpointEvery`, `RetryLimit` | 1, 1 | every file is a place to resume at; one retry, then the job is given up |
| scan `MaxChanges`, `MaxAges`, `MaxFaults` | 1, 1, 1 | each change and each fault at every point, and a grace period after it |
| `RunRowsMayFail` | TRUE in `control` | any subset of the rows of `transcode_runs` is missing |
| `MaxEvents`, `Limit` | 4, 1 | the cursor's event, its sibling, an older event that triggers the gap and one above the floor to carry the report; a page each |
| `MaxNow`, `Window` | 3, 1 | an event ages while a tick runs, and a second report starts where the first ended |
| `Tails` | {0,1} | two events of one millisecond, in either order of ids |
| `Threshold`, `Budget` | 2, 5 | a trip, a failed trial (of a breaker seeded open), a restart between two failures. The budget is shared: each event, each oddity of one (filtered, written late, a small id), each failing answer or statement, crash, health check and disabling costs one. With 6 the safety properties hold as well (8.5 M states) |

`control`, `races` and `throttle` split one specification by environment (client
requests; deaths and closes; suspensions and lost writes) because the product is
too large; the theorems hold for the product. `CopyShape = TRUE` (a seek lands on
an earlier keyframe) is covered by the proofs only.

## 5. Fairness

* **TranscodeSession.** WF of the worker's next step (its event loop runs and every
  await settles), of a live ffmpeg writing or finishing, of a signalled ffmpeg
  dying (`terminate()` escalates from SIGTERM to SIGKILL), and of the cool-down
  (a timer). Nothing is assumed of clients, heartbeats, enders or the sweeper. A
  stopped process is never assumed to move.
* **TranscodeWorker.** WF of the reaper's steps (each has a deadline: `ReapGiveUpWait`
  is one of them), of the exit of a shutdown whose awaited runs are gone, and of
  processes signalled during a shutdown. Nothing is assumed of processes the reaper
  kills: `BootCompletes` must hold when they never die.
* **Admission.** WF of each request's awaited calls, of time and of the sweeper's
  interval timer. A viewer may stop at any point; faults are bounded by
  `MaxFaults`, that is, the database eventually answers.
* **LibraryScan.** WF of the scanner's steps (the worker fetches jobs and every await
  settles), SF of each job's being taken (pg-boss hands out the oldest, so a job is
  passed over for others but not for ever), WF of the debounce timer. Nothing is
  assumed of the disk, the mounts or an administrator.
* **PluginDelivery.** WF of the tick (the poll timer fires, and a call ends with an
  answer or its timeout) and of the cool-down. Nothing is assumed of commits, of the
  health check or of the administrator; faults are bounded.

## 6. Proofs

### Transcode session

`TranscodeSessionProofs` and, for the two requests a restart answers,
`TranscodeRestartProofs` prove, for every source length, ladder, threshold, plan
shape, set of enders and bound:

| Theorem | Statement |
|---|---|
| `EndedOnceTheorem` | `Spec => []EndedExactlyOnce` |
| `ClosedIsFinalTheorem` | `Spec => ClosedIsFinal` |
| `LifecycleTheorem` | `Spec => ImplementsLifecycle` |
| `CensusTheorem` | `Spec => []ProcessCensus` |
| `DoneTheorem` | `Spec => []DoneMeansClosed` |
| `OwnershipTheorem` | `Spec => []ListedSegmentsOwned` |
| `SeamlessTheorem` | `Spec => []SeamlessContinuation` |
| `RungNotSwallowedTheorem` | `Spec => RungNotSwallowed` |
| `SeekHoldsTheorem` | `Spec => []SeekHoldsManifest` |
| `InvariantTheorem` | `Spec => []IInv` (types included) |

**Assumptions**, all named in the modules and evaluated by TLC on every run: the
source has at least one segment, seek targets lie inside it, `NULL` is neither an
integer nor a rung, the initial rung is a rung or `NULL`, the resume threshold is
at most the suspend threshold, and the remaining parameters have their types.

**Argument.** The properties are not inductive by themselves. The invariant is

    IInv == TypeOK /\ PcInv /\ ExtentInv /\ EndedExactlyOnce /\ SettledInv
              /\ NumberingInv /\ EdgeInv /\ HoldInv

* `TypeOK` needs `PcInv` (which values `runs`, `snap` and `claimed` have where the
  loop is: `Cur` exists, a claimed seek is a target) and `ExtentInv` (listed ≤
  written, origin + written ≤ `SourceLen`), without which a restart at the live edge
  might start past the source.
* `SettledInv` is the process census with what makes it inductive: between two runs
  every process has exited, so a spawn adds the only live one; and the loop reaches
  teardown only on a closed row, which stays closed.
* `NumberingInv` says starts increase and a run's listed segments end below the next
  start; `OwningRun` picks the greatest recorded start at or below an index, so a later
  run never is the answer, and the run itself is when its row was written
  (`HighestOf`: a non-empty set of runs has a greatest). The V8 floor in `StartSegment` is
  what preserves it when the replaced run listed nothing.
* `EdgeInv` says that while a restart is assembled nothing is listed, so the origin
  computed at its beginning still is the edge at the spawn, unless a seek was claimed.
* `HoldInv` follows a claimed seek from `next` into the run that answers it: all that
  while the row is `seeking` or closed. Neither a heartbeat nor a suspension takes a row
  out of `seeking`; `markSessionActive` does, and the loop reaches it only with output
  listed. `SeekHoldsManifest` (the gate, not the file) follows. `RungNotSwallowed` needs only that no statement
  but the consume and `recordActiveRungIndex` clears `pending_rung_index`, and what
  those two compare before they do.
* `WorkerStatementsKeep` and `ServerStatementsKeep` show once, per statement, that a
  live row stays well-typed and a closed row stays as it is; the lifecycle
  refinement and `ClosedIsFinal` are consequences of these and `CloseRowCloses`.

### Served playlist

`ServedPlaylistProofs` proves, for every retention window and any number of runs and
segments (`Retention` positive is the only assumption that matters):
`PlaylistInvariance` (`Spec => []IInv`), `ListedOnDiskTheorem`, `UnreachedOnDiskTheorem`,
`MediaSequenceForwardTheorem`, `EndedUnchangedTheorem` and `StableNumbersTheorem`: every
property of the `playlist` run.

    IInv == TypeOK /\ ShapeInv /\ TickInv /\ PrunedInv /\ DiskInv /\ HeadInv /\ GapInv

* `ShapeInv`: runs are listed in order without a run that lists nothing, the current
  one's segments at or above its start, all others below. The V8 floor in `StartSegment`
  keeps it over a restart, `pruneRetention` by dropping a run with its last segment
  (and it never takes the last one of all: `PrunedFromTheHead`).
* `TickInv` relates file, state and freeze at each point of a tick: they are equal
  outside one; inside, they differ in the current run until the prune.
* `PrunedInv` and `DiskInv` answer the fold that resurrects: a segment of the current run
  that is gone had `Retention` more after it and lay below the viewer, and still does
  after any number of later segments, because the viewer's floor never falls. So the next
  prune takes it again before anything is written (`DueForPruning`).
* `HeadInv`: nothing the current run has on disk lies below the playlist's head, so
  neither a fold nor a prune moves it back.
* `GapInv`: as long as no run was skipped, runs and segments are listed without a gap; then
  the two tags give a segment its own index and its own run (`GaplessNumbers`),
  whatever has been pruned.

Least and greatest elements (`MinIsLeast`, `MaxIsGreatest`) come from the library's
theorem that the finite subsets of a set are well-founded under strict inclusion, since
induction itself is out of reach.

### Worker lifecycle

`TranscodeWorkerProofs` proves, for any sessions, pids, boots and commands:
`WorkerInvariance` (`Spec => []IInv`), `OwnSignalled` (`SignalsReachOwn`),
`NothingUnclaimed` (`BootClaimsEverything`), `SlotsHeld` (`SlotHeldWhileEncoding`) and
`ExitLeavesLateRunsOnly` (`OnlyLateRunsSurvive`). Assumed: `Nobody` and the stranger are
not sessions, and `Nobody` is not a pid.

    IInv == TypeOK /\ IdleInv /\ HandleInv /\ ClaimInv /\ NamedInv /\ OwnInv
              /\ AwaitInv

* `NamedInv` carries `SlotsHeld`: between two workers the row names the only process its
  session may have, except for sessions in `lost`. A spawn, the registration and the
  pid record are three steps, so while a worker is up this is false; it becomes true
  again when the worker goes, because `lost` takes exactly the sessions in between.
* `ClaimInv` carries `NothingUnclaimed`: an open row with an earlier generation is still
  in the reaper's list or could not be listed or written.
* `OwnInv` carries `OwnSignalled`: a handle that has not exited names a process of its
  session (the pid is not free before the exit is noticed), and a verified pid is still
  the candidate's or free unless it was `taken`.
* `AwaitInv` carries `ExitLeavesLateRunsOnly`: every running handle is awaited or late.

### Admission

`AdmissionProofs` proves `AdmissionInvariance` (`Spec => []IInv`) and `CapHolds`
(`Spec => NeverOverCap`) for any number of requests, any caps, cut-offs and faults.
Assumed: `NULL` is no row and no decision, caps and cut-offs are naturals, and a viewer
is suspended before it counts as stale.

    IInv == TypeOK /\ RowsInv /\ ChainInv /\ SlotInv

* `SlotInv` is the check-then-act: the free slot an attempt counted is still free at its
  insert. Everything that runs in between can only close a transcode or edit a live one
  (`EditKeeps`, `CloseKeeps`: the count does not rise), and the only step that raises it
  belongs to the head of the promise chain, of which `ChainInv` leaves one.
* `RowsInv` keeps the rows finite, without which a count has no value to compare; and
  whatever writes a row later was given it by an insert, so no late statement makes one.

### Library scan

`LibraryScanProofs` proves `NoEarlyDeletion` (`Spec => DeletesOnlyLongUnseen`) from
`RowsInv`; `LibraryExactProofs` proves `ScanInvariance` (`Spec => []IInv`) and
`JobIsExactTheorem` (`Spec => JobIsExact`). Both for any libraries, paths, contents,
queue, retry limit, checkpoint interval and number of changes and faults. Assumed:
paths are natural numbers (the order of the walk), each lies in one library, `NULL` is
none of the values, the interval is positive.

    RowsInv == TypeOK /\ PathsUnique /\ FreshIsNotOld /\ ScanSane
    IInv == RowsInv /\ WalkInv /\ BehindInv /\ SweptInv /\ ProbeInv

* `PathsUnique` says that no action ever needs two rows for one path, which
  `media_files.path TEXT NOT NULL UNIQUE` (`0001_init.sql:484`) would refuse: the two that
  give a row a path do so only when no row has it.
* `FreshIsNotOld` carries the deletion theorem: a row seen since the grace period
  began is not graded `old`, so not in the list read at the end of the sweep; and
  that list stays disjoint from `fresh`, because between the sweep and the purge no
  file is processed. The grade moves to `old` only when a whole period passes, and
  then `fresh` is empty.
* `ScanSane` (the running scan's job exists, waiting jobs have attempts left) keeps
  the types.

`JobIsExact` compares the disk with rows that several attempts wrote, between which
scans of other libraries may have run. The argument goes through `Settled(p)`: the file
has its row, present, and no row of its path is flagged missing.

* `WalkInv`: while any job is quiet the disk stands (`DiskStands`), so the running walk's
  `todo` and `seen` are the library's files, split at the walk's position.
* `BehindInv`: files up to a quiet job's checkpoint are settled, and so is all that its
  running walk has behind it. While the walk still skips, the file it skips towards is
  ahead of it, which is what the resume silently relies on: it is false as soon
  as the disk may have changed.
* What makes it inductive is that a settled file stays settled whatever step comes and
  whichever job takes it (`SettledStays`): processing another file takes a row from this
  one only when both have its content (`DescribedSettles`), a sweep flags only what its
  own walk did not meet (`MarkSpares`), and a deletion takes only a row that has long
  been missing (`DeletionSpares`, with `SweptInv`).
* `SweptInv`: after the sweep every present row of the library was seen, hence is a file.
* `ProbeInv`: without a fault only the file just met lacks its probe job.

### Plugin delivery

`PluginDeliveryProofs` proves `DeliveryInvariance` (`Spec => []IInv`), `NothingSkipped`
(`Spec => []NoSilentSkip`) and `StrikesOutliveRestarts` (`Spec => []StrikesSurvive`)
for every number of events, order of ids within a millisecond, retention window, batch
size, threshold and budget. Assumed: the batch size and the threshold are positive, the
window and the random bits naturals, `NULL` is no integer, breaker or tick.

    IInv == TypeOK /\ OutboxSane /\ NoSilentSkip /\ ThroughSane /\ TickSane /\ CountsSane

* `TickSane` says of a tick between its reads and its write that every deliverable
  event between its base and the end of its page is in the batch, late, or below the floor
  a gap gave it; and that what is below the floor is at or after the start of the report,
  was told or missed before, or is not beyond the cursor's id: so the write keeps
  `NoSilentSkip`, the last of these being what becomes `missed`.
* `ThroughSane` is what a report that starts at `gap_reported_through_ms` rests on: an
  unread event older than that was in an earlier report's range, or missed. It survives
  a commit because an event commits inside the window, and the window's edge is never
  behind the last report's end.
* `OutboxSane` (INSERTs follow the clock) gives `missed` its sibling: above the cursor's
  seq and not above its id leaves only the cursor's own millisecond.
* `CountsSane` says the cursor's count is at least `strikes`, and that between an
  answer and its record the breaker is one ahead of it: so a seed taken at any crash
  covers what was counted.

### Only model-checked

Every safety and action property of the passing runs is a theorem. What is left to TLC is
liveness, because fairness is out of the prover's reach: `SeekingResolves`,
`SeekIsAnswered`, `CloseStopsEncoder`, `StoppedComesBack`, `ReturningViewerResumes`,
`BootCompletes`, `ShutdownCompletes`, `EveryRequestAnswered`, `AbandonedSlotFreed`,
`Converges`, `EventuallyDelivered`.

## 7. Findings

Four places where a comment or a document says more than the code does; each has a
run in which TLC shows it. Quotations are in `PROJECT.json`.

* `staging`: a heartbeat that reaches a `created` row before its job starts makes
  it `active`; `markSessionStarting` then matches nothing and `staging_dir` stays
  NULL under a running transcode.
* `seek_race`: `consumeSeekTarget` clears on IS NOT NULL, not on the value read, so a
  seek written between its two statements is lost. `consumePendingRungIndex` does
  compare, and `RungNotSwallowed` holds.
* `tags`: a run replaced before it listed anything leaves a gap in the numbering and
  no DISCONTINUITY, so a later prune renumbers what a client holds.
* `heartbeating`: a throttle-suspended row drops heartbeats, so a viewer playing from
  the buffer can be evicted as silent.

Others were met while modelling. They have no run of their own: the model does what
the code does, and the properties name the case as an exclusion.

* `scanner.ts:443`: a resume whose checkpointed file is gone skips the whole walk and
  the job succeeds; lines 417-418 say "every walked path is claimed by exactly ONE
  attempt's fresh processing". `JobIsExact` therefore speaks of an unchanged disk;
  `Converges` shows that the scan the watcher enqueues for that same change, which has
  no checkpoint, repairs the catalog.
* `scanner.ts:764`: a crash or a failing enqueue after the row's transaction leaves a
  file that later scans take for unchanged and never probe.
* `scanner.ts:493`: an error on one file marks that file missing although it is there;
  the next scan that succeeds brings it back.
* `scanner.ts:698`: relocation looks for the content hash over all libraries, so a copy
  in another library moves the row there while its item stays, and two copies may
  take the row from each other at every scan.
* `runner.ts:463-473`: a `transcode_runs` row that is not written leaves its run's segments
  to the run before it, whose origin then anchors them, and `docs/PLAYBACK.md:1293` calls the
  anchoring "EXACT for every run". Only the server's answer "no such run is stale" survives
  (`ListedSegmentsOwned`).
* `runner.ts:693`: the row goes `active`, which opens the manifest gate, some awaits before
  `media.m3u8` is rewritten (`:774-783`). A GET in between may still read the pre-seek
  playlist, although `runner.ts:678-690` says that holding `seeking` "makes the held GET return
  exactly when the restarted run is listed".
* `process.ts:62-63` says `terminate()` "after the process has already exited on its own, is
  a no-op". The code (`:146-172`) signals the group of that pid all the same, whoever has it
  by then (`SignalsReachOwn`'s second exemption).
* `plugins-delivery.ts:262`: the gap query asks for ids beyond the cursor's, the page for
  seqs. A sibling of the cursor's event, inserted after it in the same millisecond with a
  smaller id, is not in the query's answer. Once it is older than the window and another
  event triggers a gap, the page's floor cuts it off, and the report need not cover its time
  (`missed`), against the header's "gaps reported never skipped" (`delivery-loop.ts:46-47`);
  lines 58-64 argue only from the clearance filter that a gap is never under-reported.
* The same mismatch the other way round: a sibling that was delivered already but has a
  larger id than the cursor's event counts as unconsumed once it has left the window, and the
  plugin is told of a gap that is none; `plugins-delivery.ts:249-250` says a caught-up plugin
  never sees one.
* `plugins-delivery.ts:202` says a read by `seq` "can never skip one". That holds for
  events of one millisecond, the case it is about, and not for a transaction that
  commits after a later seq was read (`late`).
* `delivery-loop.ts:70-76`: a gap found in a tick whose page is filtered whole is not
  "recomputed fresh": the cursor has moved past it (`lost`).
* `delivery-loop.ts:433` says the loop "disables synchronously at the exact trip
  moment". A trip by a non-2xx answer disables nothing: only counted transport
  errors reach `maybeDisableOnBreakerTrip`.
* `breaker.ts:129`: a half-open breaker whose trial ends in an uncounted error admits
  nothing until the worker restarts (`Wedged`).
* `transcode-sessions.ts:546` lists open rows only, so an encoder whose row the sweeper
  ended before the next boot is not reaped, though `playback-sessions.ts:630` says the
  next boot cleans it up.

## 8. Not modelled

* ffmpeg's arguments, logs and media; the planner's decision (an input of Admission).
* Timestamps: PROGRAM-DATE-TIME and the presentation-to-source mapping.
* Database failures of the poll loop's own statements inside TranscodeSession, which
  lets only the best-effort writes fail; what they lead to is `RunnerRejects` in
  TranscodeWorker.
* The ledger mirror of the job queue (rows for the admin view), and a scan handler
  still alive when its job expires after 23 hours and is handed out again.
* In the scanner: names and tags becoming items, artwork and metadata jobs, how a path
  is watched. In plugin delivery: the content of a batch and the length of delays.
* Two sessions of one worker at once in the `worker` run (one session, three pids):
  sessions share only the registry, which is a set keyed by handle.
* Everything `PROJECT.json` lists as `not_modelled`.

## 9. Plan

Done, in this order: SessionRow and TranscodeSession (the heart of the system),
SessionLifecycle with its refinement, ServedPlaylist, TranscodeWorker, Admission,
the proofs of TranscodeSession, then LibraryScan and PluginDelivery with theirs, then
the proofs of TranscodeWorker, Admission, restarts, ServedPlaylist and exact scans.

The components left out are pure functions, media or network I/O, or single guarded
statements (`PROJECT.json` gives the reason for each); none of them is a protocol of
several steps in the media pipeline.

No property is left that a run checks and the prover could reach without a theorem.
