--------------------------- MODULE TranscodeSession ---------------------------
(***************************************************************************)
(* One transcode session from its job's first read of the row to its last  *)
(* write: the worker's poll loop (apps/worker/src/transcode/runner.ts),    *)
(* the ffmpeg processes it starts, and the server's handlers, which share  *)
(* nothing with the worker but the playback_sessions row (SessionRow).     *)
(*                                                                         *)
(* Granularity.  A step is the code between two awaits that matter: every  *)
(* statement on the row is a step of its own, and the SELECT and UPDATE of *)
(* a READ COMMITTED transaction are two.  A tick's row read and playlist   *)
(* read are one step, as are a signal and the row write next to it.        *)
(*                                                                         *)
(* Data.  Source time is counted in segments, so a run that starts at      *)
(* origin o has SourceLen - o segments to produce.  Time is a choice: a    *)
(* stop may or may not have lasted past the bound, a cool-down may or may  *)
(* not have elapsed, a heartbeat may or may not be stale.                  *)
(***************************************************************************)
EXTENDS SessionRow, Sequences

CONSTANTS
  SourceLen,           \* length of the source, in segments
  Targets,             \* the seek targets clients ask for
  Rungs,               \* ladder indexes; {} for a plan without a ladder
  InitialRung,         \* the top rung's index; NULL for a plan without a ladder
  SuspendAhead,        \* transcode.segmentAheadSuspendThreshold
  ResumeAhead,         \* transcode.segmentAheadResumeThreshold
  Retention,           \* SEGMENT_RETENTION_SEC, in segments
  MaxHardwareRetries,  \* MAX_ENCODER_MALFUNCTION_RETRIES
  SoftwareFallback,    \* softwareFallbackAvailable(plan)
  CopyShape,           \* plan.video.action = "copy": a seek lands on a keyframe
  SuspendMechanism,    \* TRUE: SIGSTOP/SIGCONT; FALSE: win32's -readrate
  WritesMayFail,       \* best-effort row writes at a spawn may be lost
  RunRowsMayFail,      \* and so may the row of transcode_runs
  Sidecars,            \* a subtitle-extraction job runs for the session too
  Deaths,              \* how the encoder may die: malfunction, fatal
  Enders,              \* the transactions that may end the session: one DELETE, sweep...
  Gets,                \* segment indexes clients ask for
  MaxRequests,         \* bound on seeks and rung switches
  MaxSweeps            \* bound on heartbeat-stale suspensions

ASSUME SourceLenAssumption == SourceLen \in Nat \ {0}
ASSUME TargetsAssumption == Targets \subseteq 0 .. SourceLen - 1
ASSUME RungsAssumption == InitialRung \in Rungs \cup {NULL} /\ NULL \notin Rungs
ASSUME NullAssumption == NULL \notin Int
ASSUME ThresholdAssumption ==
  /\ SuspendAhead \in Nat /\ ResumeAhead \in Nat /\ ResumeAhead <= SuspendAhead
  /\ Retention \in Nat /\ MaxHardwareRetries \in Nat
ASSUME ShapeAssumption ==
  /\ {SoftwareFallback, CopyShape, SuspendMechanism, WritesMayFail, RunRowsMayFail,
      Sidecars} \subseteq BOOLEAN
  /\ Deaths \subseteq {"malfunction", "fatal"}
ASSUME BoundsAssumption ==
  Gets \subseteq Nat /\ MaxRequests \in Nat /\ MaxSweeps \in Nat

VARIABLES
  row,       \* the playback_sessions row
  ended,     \* playback.ended events in the outbox
  closing,   \* progress of each ender's SELECT-then-UPDATE transaction
  pc,        \* where the worker's runTranscodeSession is
  snap,      \* the row this tick read (NULL before the first tick)
  runs,      \* the runs spawned so far; the last is currentRun
  ctl,       \* currentRun's bookkeeping: processStopped, released, headPruned
  highest,   \* producedSegment, -1 when undefined
  cooldown,  \* the post-seek rung-switch cool-down is open
  recovery,  \* encoderRecovery: hardware retries used, software active
  next,      \* the restart being put together: cause, origin, rung, seek
  claimed,   \* the value the SELECT of a consume... transaction returned
  file,      \* media.m3u8: index of the last run it lists, 0 when not written
  requests,  \* seeks and switches asked for
  sweeps     \* heartbeat-stale suspensions

rowVars == <<row, ended, closing>>
tickVars == <<snap, highest, cooldown, recovery, next, claimed, file>>
clientVars == <<requests, sweeps>>
vars == <<rowVars, pc, tickVars, runs, ctl, clientVars>>

Max2(a, b) == IF a >= b THEN a ELSE b

CurIndex == Len(runs)
Cur == runs[CurIndex]

\* Process states.  "dying": signalled by terminate(), not yet observed gone.
AliveStates == {"live", "stopped", "dying"}
ExitStates == {"clean", "malfunction", "fatal", "killed"}
Exited(run) == run.st \in ExitStates

NoRestart == [cause |-> "none", origin |-> 0, rung |-> NULL, seek |-> NULL]
FreshCtl == [stopped |-> FALSE, released |-> FALSE, pruned |-> FALSE]

Init ==
  /\ row = NewRow
  /\ ended = 0
  /\ closing = [e \in Enders |-> "idle"]
  /\ pc = "queued"
  /\ snap = NULL
  /\ runs = <<>>
  /\ ctl = FreshCtl
  /\ highest = -1
  /\ cooldown = FALSE
  /\ recovery = [retries |-> 0, software |-> FALSE]
  /\ next = NoRestart
  /\ claimed = NULL
  /\ file = 0
  /\ requests = 0
  /\ sweeps = 0

-----------------------------------------------------------------------------
(* The job up to the first spawn.                                          *)

\* The row is read once before anything else; a bad plan or a missing file
\* fails the session before a directory exists.
BeginJob ==
  /\ pc = "queued"
  /\ IF Live(row) THEN pc' \in {"starting", "failSelect"} ELSE pc' = "done"
  /\ UNCHANGED <<rowVars, tickVars, runs, ctl, clientVars>>

StartSession ==
  /\ pc = "starting"
  /\ row' = MarkSessionStarting(row)
  /\ next' = [NoRestart EXCEPT !.rung = InitialRung]
  /\ pc' = "spawn"
  /\ UNCHANGED <<ended, closing, snap, highest, cooldown, recovery, claimed, file,
                 runs, ctl, clientVars>>

-----------------------------------------------------------------------------
(* spawnRun.                                                               *)

\* Mutant: above everything listed, not above the run before.
StartAboveListed == IF runs = <<>> THEN 0 ELSE highest + 1

\* The V8 collision floor: above everything listed and above the run before.
StartSegment == IF runs = <<>> THEN 0 ELSE Max2(highest + 1, Cur.start + 1)

\* A copy run lands on a keyframe at or before its target; run 0 does not seek.
LandingOrigins(origin) ==
  IF CopyShape /\ runs # <<>> THEN 0 .. origin ELSE {origin}

SpawnRun ==
  /\ pc = "spawn"
  /\ \E origin \in LandingOrigins(next.origin) :
       runs' = Append(runs, [st |-> "live", start |-> StartSegment, origin |-> origin,
                             rung |-> next.rung, seek |-> next.seek,
                             out |-> 0, listed |-> 0, recorded |-> FALSE])
  /\ ctl' = FreshCtl
  /\ pc' = "recordRun"
  /\ UNCHANGED <<rowVars, tickVars, clientVars>>

\* recordTranscodeRun, best effort: the run's row of transcode_runs, from which the
\* server knows where the run starts, may never be written.
RecordRun ==
  /\ pc = "recordRun"
  /\ \/ runs' = [runs EXCEPT ![CurIndex].recorded = TRUE]
     \/ RunRowsMayFail /\ UNCHANGED runs
  /\ pc' = "recordRung"
  /\ UNCHANGED <<rowVars, tickVars, ctl, clientVars>>

\* Best effort: the write may be lost.  Run 0 is not a restart, so the flag
\* hygiene below does not follow it.
RecordRung ==
  /\ pc = "recordRung"
  /\ \/ row' = IF Cur.rung = NULL THEN row ELSE RecordActiveRungIndex(row, Cur.rung)
     \/ WritesMayFail /\ UNCHANGED row
  /\ pc' = IF CurIndex = 1 THEN "sleep" ELSE "clearFlag"
  /\ UNCHANGED <<ended, closing, tickVars, runs, ctl, clientVars>>

\* The end of restartAt; a restart that answered a seek opens the cool-down.
FinishRestart ==
  /\ pc = "clearFlag"
  /\ \/ row' = ClearThrottleSuspendedOnRestart(row)
     \/ WritesMayFail /\ UNCHANGED row
  /\ cooldown' = (cooldown \/ next.seek # NULL)
  /\ next' = NoRestart
  /\ snap' = NULL
  /\ pc' = "sleep"
  /\ UNCHANGED <<ended, closing, highest, recovery, claimed, file, runs, ctl, clientVars>>

-----------------------------------------------------------------------------
(* One poll tick: read, fold, publish, write.                              *)

\* Mutant: only an ended session is terminal for the loop, not a failed one.
TickUnlessEnded ==
  /\ pc = "sleep"
  /\ snap' = row
  /\ IF row.status = "ended"
       THEN pc' = "teardown" /\ UNCHANGED <<runs, highest>>
       ELSE /\ pc' = "publish"
            /\ runs' = [runs EXCEPT ![CurIndex].listed = Cur.out]
            /\ highest' = IF Cur.out > 0 THEN Max2(highest, Cur.start + Cur.out - 1)
                                         ELSE highest
  /\ UNCHANGED <<rowVars, ctl, cooldown, recovery, next, claimed, file, clientVars>>

\* The fold.  PRUNE-FREEZE skips it once the run's ENDLIST was folded; the run
\* has exited by then, so its playlist holds nothing new and the fold of a
\* frozen playlist is the identity here (ServedPlaylist models the freeze).
Tick ==
  /\ pc = "sleep"
  /\ snap' = row
  /\ IF ~Live(row)
       THEN /\ pc' = "teardown"
            /\ UNCHANGED <<runs, highest>>
       ELSE /\ pc' = "publish"
            /\ runs' = [runs EXCEPT ![CurIndex].listed = Cur.out]
            /\ highest' = IF Cur.out > 0 THEN Max2(highest, Cur.start + Cur.out - 1)
                                         ELSE highest
  /\ UNCHANGED <<rowVars, ctl, cooldown, recovery, next, claimed, file, clientVars>>

\* Mutants: active on any run's output; active from starting only.
PublishAs(activate) ==
  /\ pc = "publish"
  /\ IF highest < 0
       THEN row' = row /\ pc' = "exitCheck"
       ELSE /\ row' = IF activate THEN MarkSessionActive(row, highest)
                                  ELSE UpdateProducedSegment(row, highest)
            /\ pc' = "write"
  /\ UNCHANGED <<ended, closing, tickVars, runs, ctl, clientVars>>
PublishOnAnyOutput == PublishAs(snap.status \in {"starting", "seeking"})
PublishFromStarting == PublishAs(snap.status = "starting" /\ Cur.listed > 0)

\* starting/seeking becomes active only when the CURRENT run has listed output.
\* The row moves here; the playlist a client reads moves in WritePlaylist.
Publish ==
  /\ pc = "publish"
  /\ IF highest < 0
       THEN row' = row /\ pc' = "exitCheck"
       ELSE /\ row' = IF snap.status \in {"starting", "seeking"} /\ Cur.listed > 0
                        THEN MarkSessionActive(row, highest)
                        ELSE IF snap.produced # highest
                               THEN UpdateProducedSegment(row, highest)
                               ELSE row
            /\ pc' = "write"
  /\ UNCHANGED <<ended, closing, tickVars, runs, ctl, clientVars>>

\* pruneRetention drops the current run's first segment iff it ends outside the
\* retention window and lies below what the viewer was served.
HeadPruned ==
  /\ Cur.listed > Retention
  /\ snap.served # NULL
  /\ Cur.start < snap.served

\* headPruned is only read while the run is alive, which a frozen one is not.
WritePlaylist ==
  /\ pc = "write"
  /\ ctl' = [ctl EXCEPT !.pruned = @ \/ HeadPruned]
  /\ file' = IF Cur.listed > 0 THEN CurIndex ELSE file
  /\ pc' = "exitCheck"
  /\ UNCHANGED <<rowVars, snap, highest, cooldown, recovery, next, claimed, runs, clientVars>>

-----------------------------------------------------------------------------
(* An exit the worker did not cause: the recovery ladder.                  *)

\* planEncoderRecovery; only an encoder malfunction is eligible.
RecoveryAction ==
  IF Cur.st # "malfunction" THEN "give-up"
  ELSE IF ~recovery.software /\ recovery.retries < MaxHardwareRetries THEN "retry-hardware"
  ELSE IF ~recovery.software /\ SoftwareFallback THEN "fall-back-to-software"
  ELSE "give-up"

\* A request for a rung other than the one running, as this tick read it.
SwitchPending == snap.pending # NULL /\ snap.pending # Cur.rung

\* Mutant: after the last segment written, listed or not.
ContinuationAtWritten(cause) ==
  [cause |-> cause, origin |-> Cur.origin + Cur.out, rung |-> Cur.rung, seek |-> NULL]

\* The live-edge continuation: the source instant after the last listed segment.
Continuation(cause) ==
  [cause |-> cause, origin |-> Cur.origin + Cur.listed, rung |-> Cur.rung, seek |-> NULL]

\* The next block of the tick that has something to do.
AfterSeekBlock == IF SwitchPending THEN "handoff" ELSE "throttle"

\* Mutant: a pending switch is looked at before the seek.
AfterExitSwitchFirst == IF SwitchPending THEN "handoff" ELSE "throttle"
AfterExitBlock == IF snap.seek # NULL THEN "decide" ELSE AfterSeekBlock

ExitCheck ==
  /\ pc = "exitCheck"
  /\ Cur.st \notin {"malfunction", "fatal"}
  /\ pc' = AfterExitBlock
  /\ UNCHANGED <<rowVars, tickVars, runs, ctl, clientVars>>

GiveUp ==
  /\ pc = "exitCheck"
  /\ Cur.st \in {"malfunction", "fatal"}
  /\ RecoveryAction = "give-up"
  /\ pc' = "failSelect"
  /\ UNCHANGED <<rowVars, tickVars, runs, ctl, clientVars>>

\* The recovery restart carries whatever the client asked for (d3-f4).
Recover ==
  /\ pc = "exitCheck"
  /\ RecoveryAction # "give-up"
  /\ recovery' = IF RecoveryAction = "retry-hardware"
                   THEN [recovery EXCEPT !.retries = @ + 1]
                   ELSE [recovery EXCEPT !.software = TRUE]
  /\ next' = Continuation("recovery")
  /\ pc' = IF snap.seek # NULL THEN "seekSelect"
            ELSE IF SwitchPending THEN "rungSelect" ELSE "kill"
  /\ UNCHANGED <<rowVars, snap, highest, cooldown, claimed, file, runs, ctl, clientVars>>

-----------------------------------------------------------------------------
(* The restart block: absorb or consume a seek, then a slot handoff.       *)

AlreadyServing ==
  /\ ~Exited(Cur)
  /\ ~SwitchPending
  /\ ~ctl.pruned
  /\ snap.seek \in Cur.origin .. Cur.origin + Cur.listed

\* No switch is pending here, so what follows an absorption is the throttle.
AbsorbSeek ==
  /\ pc = "decide"
  /\ AlreadyServing
  /\ row' = AbsorbSeekTarget(row, snap.seek)
  /\ pc' = "throttle"
  /\ UNCHANGED <<ended, closing, tickVars, runs, ctl, clientVars>>

ConsumeSeek ==
  /\ pc = "decide"
  /\ ~AlreadyServing
  /\ next' = Continuation("seek")
  /\ pc' = "seekSelect"
  /\ UNCHANGED <<rowVars, snap, highest, cooldown, recovery, claimed, file,
                 runs, ctl, clientVars>>

\* Where a restart goes once its seek half is settled: a seek that was not
\* there to consume restarts nothing, a recovery restarts regardless.
AfterSeek(consumed) ==
  IF next.cause = "seek" /\ ~consumed THEN AfterSeekBlock
  ELSE IF SwitchPending THEN "rungSelect" ELSE "kill"

SeekSelect ==
  /\ pc = "seekSelect"
  /\ IF SeekIsClaimable(row)
       THEN claimed' = row.seek /\ pc' = "seekUpdate"
       ELSE claimed' = NULL /\ pc' = AfterSeek(FALSE)
  /\ UNCHANGED <<rowVars, snap, highest, cooldown, recovery, next, file, runs, ctl, clientVars>>

SeekUpdate ==
  /\ pc = "seekUpdate"
  /\ row' = ClaimSeekTarget(row)
  /\ IF SeekIsClaimable(row)
       THEN /\ next' = [next EXCEPT !.origin = claimed, !.seek = claimed]
            /\ pc' = AfterSeek(TRUE)
       ELSE /\ next' = next
            /\ pc' = AfterSeek(FALSE)
  /\ claimed' = NULL
  /\ UNCHANGED <<ended, closing, snap, highest, cooldown, recovery, file, runs, ctl, clientVars>>

\* Inside the cool-down a pending rung stays in its column.
Handoff ==
  /\ pc = "handoff"
  /\ ~cooldown
  /\ next' = Continuation("switch")
  /\ pc' = "rungSelect"
  /\ UNCHANGED <<rowVars, snap, highest, cooldown, recovery, claimed, file, runs, ctl, clientVars>>

DeferHandoff ==
  /\ pc = "handoff"
  /\ cooldown
  /\ pc' = "throttle"
  /\ UNCHANGED <<rowVars, tickVars, runs, ctl, clientVars>>

\* The handoff alone needs the rung to be there, and to differ.
AfterRung(rung) ==
  IF next.cause = "switch" /\ (rung = NULL \/ rung = Cur.rung) THEN "throttle" ELSE "kill"

RungSelect ==
  /\ pc = "rungSelect"
  /\ IF Live(row) /\ row.pending # NULL
       THEN claimed' = row.pending /\ pc' = "rungUpdate"
       ELSE claimed' = NULL /\ pc' = AfterRung(NULL)
  /\ UNCHANGED <<rowVars, snap, highest, cooldown, recovery, next, file, runs, ctl, clientVars>>

RungUpdate ==
  /\ pc = "rungUpdate"
  /\ row' = ClaimPendingRung(row, claimed)
  /\ IF Live(row) /\ row.pending = claimed
       THEN next' = [next EXCEPT !.rung = claimed] /\ pc' = AfterRung(claimed)
       ELSE next' = next /\ pc' = AfterRung(NULL)
  /\ claimed' = NULL
  /\ UNCHANGED <<ended, closing, snap, highest, cooldown, recovery, file, runs, ctl, clientVars>>

-----------------------------------------------------------------------------
(* terminate(): SIGCONT, SIGTERM, and the observed exit.                   *)

\* The callers that terminate the current run, and where each waits.
TerminateWaits == [kill |-> "awaitRestart", teardown |-> "awaitTeardown",
                   release |-> "awaitRelease"]

Terminate ==
  /\ pc \in DOMAIN TerminateWaits
  /\ runs' = [runs EXCEPT ![CurIndex].st = IF Exited(Cur) THEN @ ELSE "dying"]
  /\ pc' = TerminateWaits[pc]
  /\ UNCHANGED <<rowVars, tickVars, ctl, clientVars>>

\* Mutant: the exit is not awaited.
RestartAtOnce ==
  /\ pc = "awaitRestart"
  /\ pc' \in {"spawn", "failSelect"}
  /\ UNCHANGED <<rowVars, tickVars, runs, ctl, clientVars>>

\* restartAt resumes when the process is gone AND rebuildSeekArgs has settled.
RestartReady ==
  /\ pc = "awaitRestart"
  /\ Exited(Cur)
  /\ pc' \in {"spawn", "failSelect"}
  /\ UNCHANGED <<rowVars, tickVars, runs, ctl, clientVars>>

\* Mutant: the exit is not awaited.
TeardownAtOnce ==
  /\ pc = "awaitTeardown"
  /\ pc' = "done" /\ file' = 0
  /\ UNCHANGED <<rowVars, snap, highest, cooldown, recovery, next, claimed,
                 runs, ctl, clientVars>>

TeardownDone ==
  /\ pc = "awaitTeardown"
  /\ Exited(Cur)
  /\ pc' = "done"
  /\ file' = 0
  /\ UNCHANGED <<rowVars, snap, highest, cooldown, recovery, next, claimed,
                 runs, ctl, clientVars>>

\* markSessionFailed, then the session directory goes.
FailSelect ==
  /\ pc = "failSelect"
  /\ IF Live(row)
       THEN pc' = "failUpdate" /\ UNCHANGED file
       ELSE pc' = "done" /\ file' = 0
  /\ UNCHANGED <<rowVars, snap, highest, cooldown, recovery, next, claimed,
                 runs, ctl, clientVars>>

FailUpdate ==
  /\ pc = "failUpdate"
  /\ row' = CloseRow(row, "failed")
  /\ ended' = IF Live(row) THEN ended + 1 ELSE ended
  /\ file' = 0
  /\ pc' = "done"
  /\ UNCHANGED <<closing, snap, highest, cooldown, recovery, next, claimed,
                 runs, ctl, clientVars>>

-----------------------------------------------------------------------------
(* Throttle reconciliation.                                                *)

\* Mutant: counts segments where the other side is an index.
AheadByCount ==
  highest + 1 - Max2(IF snap.requested = NULL THEN 0 ELSE snap.requested, Cur.start)

\* Lead over what the client last asked for, never over an index below the run.
Ahead ==
  highest - Max2(IF snap.requested = NULL THEN 0 ELSE snap.requested, Cur.start)

\* reconcileThrottle.  tooLong: the stop has lasted past the bound.  With nothing
\* produced (highest = -1) the lead is below every threshold, as in the code.
ReconcileThrottle(tooLong) ==
  LET release == tooLong /\ ctl.stopped /\ ~ctl.released
  IN IF ~SuspendMechanism THEN "none"
     ELSE IF ~snap.flag
       THEN IF Ahead > SuspendAhead /\ ~ctl.stopped THEN "suspend-for-throttle"
            ELSE IF snap.status = "suspended" /\ ~ctl.stopped THEN "stop-process-only"
            ELSE IF snap.status = "active" /\ ctl.stopped THEN "resume-for-throttle"
            ELSE IF release THEN "release-stopped-process" ELSE "none"
       ELSE IF Ahead <= ResumeAhead THEN "resume-for-throttle"
            ELSE IF release THEN "release-stopped-process"
            ELSE IF snap.status = "active" /\ ctl.stopped THEN "rewrite-suspended-only"
            ELSE "none"

\* Signals reach a process that is still there; the flag is set either way.
Signal(from, to) ==
  runs' = [runs EXCEPT ![CurIndex].st = IF @ = from THEN to ELSE @]

StopFor(action) ==
  /\ Signal("live", "stopped")
  /\ ctl' = [ctl EXCEPT !.stopped = TRUE]
  /\ row' = IF action = "suspend-for-throttle" THEN SetThrottleSuspended(row, TRUE) ELSE row
  /\ pc' = "sleep"
  /\ next' = NoRestart

\* Mutant: the row is written, the process not continued.
ResumeRowOnly ==
  /\ ctl' = [ctl EXCEPT !.stopped = FALSE]
  /\ row' = SetThrottleSuspended(row, FALSE)
  /\ pc' = "sleep" /\ next' = NoRestart
  /\ UNCHANGED runs

ResumeLive ==
  /\ Signal("stopped", "live")
  /\ ctl' = [ctl EXCEPT !.stopped = FALSE]
  /\ row' = SetThrottleSuspended(row, FALSE)
  /\ pc' = "sleep"
  /\ next' = NoRestart

\* Nothing left to SIGCONT: one restart at the live edge.
ResumeReleased ==
  /\ next' = Continuation("resume")
  /\ pc' = "kill"
  /\ UNCHANGED <<row, runs, ctl>>

Throttle ==
  /\ pc = "throttle"
  /\ \E tooLong \in BOOLEAN :
       LET action == IF snap.status \in {"active", "suspended"}
                       THEN ReconcileThrottle(tooLong) ELSE "none"
       IN \/ action \in {"suspend-for-throttle", "stop-process-only"} /\ StopFor(action)
          \/ action = "resume-for-throttle" /\ ~ctl.released /\ ResumeLive
          \/ action = "resume-for-throttle" /\ ctl.released /\ ResumeReleased
          \/ /\ action = "rewrite-suspended-only"
             /\ row' = SetThrottleSuspended(row, TRUE)
             /\ pc' = "sleep"
             /\ next' = NoRestart
             /\ UNCHANGED <<runs, ctl>>
          \/ action = "release-stopped-process" /\ pc' = "release" /\ next' = NoRestart
             /\ UNCHANGED <<row, runs, ctl>>
          \/ action = "none" /\ pc' = "sleep" /\ next' = NoRestart
             /\ UNCHANGED <<row, runs, ctl>>
  /\ snap' = NULL
  /\ UNCHANGED <<ended, closing, highest, cooldown, recovery, claimed, file, clientVars>>

Released ==
  /\ pc = "awaitRelease"
  /\ Exited(Cur)
  /\ ctl' = [ctl EXCEPT !.released = TRUE]
  /\ pc' = "sleep"
  /\ UNCHANGED <<rowVars, tickVars, runs, clientVars>>

Worker ==
  \/ BeginJob \/ StartSession \/ SpawnRun \/ RecordRun \/ RecordRung \/ FinishRestart
  \/ Tick \/ Publish \/ WritePlaylist \/ ExitCheck \/ GiveUp \/ Recover
  \/ AbsorbSeek \/ ConsumeSeek \/ SeekSelect \/ SeekUpdate
  \/ Handoff \/ DeferHandoff \/ RungSelect \/ RungUpdate
  \/ Terminate \/ RestartReady \/ TeardownDone \/ FailSelect \/ FailUpdate
  \/ Throttle \/ Released

-----------------------------------------------------------------------------
(* ffmpeg.                                                                 *)

SetProcess(i, st) == runs' = [runs EXCEPT ![i].st = st]

\* What a process flushes between SIGTERM and its exit is no different from what
\* it wrote just before: no tick of a restart or teardown folds it.
Produce(i) ==
  /\ runs[i].st = "live"
  /\ runs[i].origin + runs[i].out < SourceLen
  /\ runs' = [runs EXCEPT ![i].out = @ + 1]
  /\ UNCHANGED <<rowVars, pc, tickVars, ctl, clientVars>>

ReachEnd(i) ==
  /\ runs[i].st = "live"
  /\ runs[i].origin + runs[i].out >= SourceLen
  /\ SetProcess(i, "clean")
  /\ UNCHANGED <<rowVars, pc, tickVars, ctl, clientVars>>

\* exit-classify.ts: a hardware session that malfunctions, or anything else
\* that is not a clean exit; a stopped process can only be killed from outside.
Die(i) ==
  /\ \/ runs[i].st = "live" /\ \E st \in Deaths : SetProcess(i, st)
     \/ runs[i].st = "stopped" /\ "fatal" \in Deaths /\ SetProcess(i, "fatal")
  /\ UNCHANGED <<rowVars, pc, tickVars, ctl, clientVars>>

ObeyTermination(i) ==
  /\ runs[i].st = "dying"
  /\ SetProcess(i, "killed")
  /\ UNCHANGED <<rowVars, pc, tickVars, ctl, clientVars>>

Ffmpeg ==
  \E i \in DOMAIN runs : Produce(i) \/ ReachEnd(i) \/ Die(i) \/ ObeyTermination(i)

-----------------------------------------------------------------------------
(* The server's handlers, the sweeper, and the clock.                      *)

ServerStep == UNCHANGED <<pc, tickVars, runs, ctl>>

Heartbeat ==
  /\ AcceptsHeartbeat(row)
  /\ row' = HeartbeatPlaybackSession(row)
  /\ UNCHANGED <<ended, closing, clientVars>> /\ ServerStep

SweepSuspend ==
  /\ sweeps < MaxSweeps
  /\ row.status = "active"
  /\ row' = SuspendStalePlaybackSession(row)
  /\ sweeps' = sweeps + 1
  /\ UNCHANGED <<ended, closing, requests>> /\ ServerStep

\* endPlaybackSession (DELETE) and endStalePlaybackSession (sweeper): a SELECT
\* that finds the row live, then finalizeSession's guarded UPDATE and event.
EndSelect(e) ==
  /\ closing[e] = "idle"
  /\ closing' = [closing EXCEPT ![e] = IF Live(row) THEN "selected" ELSE "done"]
  /\ UNCHANGED <<row, ended, clientVars>> /\ ServerStep

\* Mutant: the event is written whether or not the UPDATE matched.
FinalizeAlwaysEmits(e) ==
  /\ closing[e] = "selected"
  /\ closing' = [closing EXCEPT ![e] = "done"]
  /\ \E terminal \in TerminalStatuses : row' = CloseRow(row, terminal)
  /\ ended' = ended + 1
  /\ UNCHANGED clientVars /\ ServerStep

FinalizeSession(e) ==
  /\ closing[e] = "selected"
  /\ closing' = [closing EXCEPT ![e] = "done"]
  /\ \E terminal \in TerminalStatuses : row' = CloseRow(row, terminal)
  /\ ended' = IF Live(row) THEN ended + 1 ELSE ended
  /\ UNCHANGED clientVars /\ ServerStep

\* POST /seek, a segment GET outside the window, a GET under v{K}/, or both:
\* one statement each.
ClientRequest ==
  /\ requests < MaxRequests
  /\ Live(row)
  /\ requests' = requests + 1
  /\ \/ \E t \in Targets : row' = RequestSeek(row, t)
     \/ \E r \in Rungs : row' = RequestRungSwitch(row, r)
     \/ \E t \in Targets, r \in Rungs : row' = RequestSeekWithRungSwitch(row, t, r)
  /\ UNCHANGED <<ended, closing, sweeps>> /\ ServerStep

\* A segment GET first records what was asked for; if the file is there, it
\* then records it as served.
RequestSegment(n) ==
  /\ row.staging
  /\ row' = UpdateRequestedSegment(row, n)
  /\ UNCHANGED <<ended, closing, clientVars>> /\ ServerStep

ServeSegment(n) ==
  /\ row.staging
  /\ \E i \in DOMAIN runs : n \in runs[i].start .. runs[i].start + runs[i].out - 1
  /\ row' = RecordServedSegment(row, n)
  /\ UNCHANGED <<ended, closing, clientVars>> /\ ServerStep

\* The subtitle-extraction job of the same session, on any worker.
ExtractSidecar ==
  /\ Sidecars
  /\ ~row.staging
  /\ row' = EnsureSessionStagingDir(row)
  /\ UNCHANGED <<ended, closing, clientVars>> /\ ServerStep

CooldownElapses ==
  /\ cooldown
  /\ cooldown' = FALSE
  /\ UNCHANGED <<rowVars, pc, snap, highest, recovery, next, claimed, file, runs, ctl, clientVars>>

Server ==
  \/ Heartbeat \/ SweepSuspend \/ ClientRequest \/ ExtractSidecar
  \/ \E e \in Enders : EndSelect(e) \/ FinalizeSession(e)
  \/ \E n \in Gets : RequestSegment(n) \/ ServeSegment(n)

\* The job returned and every ender is through: nothing is left to happen.
Finished ==
  /\ pc = "done"
  /\ UNCHANGED vars

Next == Worker \/ Ffmpeg \/ Server \/ CooldownElapses \/ Finished

Spec == Init /\ [][Next]_vars

\* The worker's event loop runs, a process that may run does, one that was
\* signalled dies, and time passes.  Clients and the sweeper owe nothing.
Fairness ==
  /\ WF_vars(Worker)
  /\ WF_vars(\E i \in DOMAIN runs : Produce(i) \/ ReachEnd(i))
  /\ WF_vars(\E i \in DOMAIN runs : ObeyTermination(i))
  /\ WF_vars(CooldownElapses)

FairSpec == Spec /\ Fairness

-----------------------------------------------------------------------------
(* Types.                                                                  *)

Restarts == {"none", "recovery", "seek", "switch", "resume"}
PcStates ==
  {"queued", "starting", "spawn", "recordRun", "recordRung", "clearFlag", "sleep", "publish", "write",
   "exitCheck", "decide", "seekSelect", "seekUpdate", "handoff", "rungSelect", "rungUpdate",
   "throttle", "kill", "release", "teardown", "awaitRestart", "awaitRelease",
   "awaitTeardown", "failSelect", "failUpdate", "done"}

SeekValues == Targets \cup {NULL}
RungValues == Rungs \cup {NULL}
RowType ==
  [ status : Statuses, seek : SeekValues, flag : BOOLEAN, produced : Nat \cup {NULL},
    requested : Nat \cup {NULL}, served : Nat \cup {NULL}, pending : RungValues,
    active : RungValues, disc : Nat, staging : BOOLEAN ]
RunType ==
  [ st : AliveStates \cup ExitStates, start : Nat, origin : 0 .. SourceLen,
    rung : RungValues, seek : SeekValues, out : 0 .. SourceLen, listed : 0 .. SourceLen,
    recorded : BOOLEAN ]

RestartType ==
  [ cause : Restarts, origin : 0 .. SourceLen, rung : RungValues, seek : SeekValues ]

TypeOK ==
  /\ row \in RowType
  /\ ended \in Nat
  /\ closing \in [Enders -> {"idle", "selected", "done"}]
  /\ pc \in PcStates
  /\ snap \in RowType \cup {NULL}
  /\ runs \in Seq(RunType)
  /\ ctl \in [stopped : BOOLEAN, released : BOOLEAN, pruned : BOOLEAN]
  /\ highest \in Nat \cup {-1}
  /\ cooldown \in BOOLEAN
  /\ recovery \in [retries : 0 .. MaxHardwareRetries, software : BOOLEAN]
  /\ next \in RestartType
  /\ claimed \in SeekValues \cup RungValues
  /\ file \in Nat
  /\ requests \in 0 .. MaxRequests
  /\ sweeps \in 0 .. MaxSweeps

-----------------------------------------------------------------------------
(* Safety.                                                                 *)

\* playback.ended is written once for a closed session and never for an open one,
\* whichever of the worker, the DELETE handler and the sweeper closed it and
\* however their SELECTs and UPDATEs interleaved (markSessionFailed: "never
\* double-written").
EndedExactlyOnce == ended = IF Live(row) THEN 0 ELSE 1

\* A closed row is never written again: no heartbeat, late poll tick, seek or
\* throttle write resurrects or edits it (every statement's NON_TERMINAL guard).
ClosedIsFinal == [][~Live(row) => UNCHANGED row]_vars

\* The process census of PLAYBACK.md 9.1.4: never two ffmpeg of one session, and
\* only the current run's may be alive, through seeks, handoffs, recoveries and
\* releases.
ProcessCensus == \A i \in DOMAIN runs : ~Exited(runs[i]) => i = CurIndex

\* getTranscodeRunForSegment: of the runs whose row was written, the one with the
\* greatest start_segment <= n; 0 where there is none.
OwningRun(n) ==
  LET starting == {i \in DOMAIN runs : runs[i].recorded /\ runs[i].start <= n}
  IN IF starting = {} THEN 0
     ELSE CHOOSE i \in starting : \A j \in starting : runs[j].start <= runs[i].start

\* The server takes no listed segment for a later run's, so it never answers a current
\* URI as stale (isStaleRunRequest), whichever rows of transcode_runs were lost; and
\* it knows the run of every segment whose run's row was written, so the segment's
\* source time.  Even for runs restarted before they listed anything.
ListedSegmentsOwned ==
  \A i \in DOMAIN runs : \A k \in 0 .. runs[i].listed - 1 :
    /\ OwningRun(runs[i].start + k) <= i
    /\ runs[i].recorded => OwningRun(runs[i].start + k) = i

\* A restart that is not a seek continues where the listed output stopped: no
\* source time is skipped or listed twice across handoffs, recoveries and
\* releases (decoding plans; a copy run lands on a keyframe instead).
SeamlessContinuation ==
  ~CopyShape =>
    \A i \in DOMAIN runs : i > 1 /\ runs[i].seek = NULL =>
      runs[i].origin = runs[i - 1].origin + runs[i - 1].listed

\* When the job's handler returns, the row is closed and no ffmpeg is left.
DoneMeansClosed ==
  pc = "done" => ~Live(row) /\ \A i \in DOMAIN runs : Exited(runs[i])

\* From the spawn of the run that answers a seek until it has listed a segment, the
\* row has no status the server's manifest gate takes for ready, whatever heartbeats,
\* suspensions and other requests do to it.  (The gate only: the row is ready some
\* awaits before media.m3u8 is rewritten.)
SeekHoldsManifest ==
  runs # <<>> /\ Cur.seek # NULL /\ Cur.listed = 0 => ~ManifestReady(row)

\* The worker clears a pending rung only by taking that very rung: one asked for
\* between its SELECT and its UPDATE survives to the next tick.
RungNotSwallowed ==
  [][row.pending # NULL /\ row'.pending = NULL =>
       \/ pc = "rungUpdate" /\ next'.rung = row.pending
       \/ pc = "recordRung" /\ Cur.rung = row.pending]_vars

-----------------------------------------------------------------------------
(* The inductive invariant behind the safety properties.                   *)

\* The worker has spawned a run / has read the row in this tick.
NoRunYet == {"queued", "starting"}
BetweenRuns == {"spawn", "failSelect", "failUpdate", "done"}
InTick == {"publish", "write", "exitCheck", "decide", "seekSelect", "seekUpdate",
           "handoff", "rungSelect", "rungUpdate", "throttle"}

PcInv ==
  /\ pc \in NoRunYet => runs = <<>>
  /\ pc \notin NoRunYet \cup BetweenRuns => runs # <<>>
  /\ pc \in InTick => snap \in RowType
  /\ pc = "seekUpdate" => claimed \in Targets
  /\ pc = "rungUpdate" => claimed \in Rungs

\* A playlist lists what was written, which ends with the source.
ExtentInv ==
  \A i \in DOMAIN runs :
    runs[i].listed <= runs[i].out /\ runs[i].origin + runs[i].out <= SourceLen

\* Only the current process may run, and none between two runs or at the end.
SettledInv ==
  /\ \A i \in DOMAIN runs : ~Exited(runs[i]) => i = CurIndex
  /\ pc \in BetweenRuns => \A i \in DOMAIN runs : Exited(runs[i])
  /\ pc \in {"teardown", "awaitTeardown", "done"} => ~Live(row)

\* Numbering moves forward: each run starts above all that was listed before.
NumberingInv ==
  /\ \A i \in DOMAIN runs : runs[i].listed > 0 => runs[i].start + runs[i].listed <= highest + 1
  /\ \A i, j \in DOMAIN runs : i < j =>
       runs[i].start < runs[j].start /\ runs[i].start + runs[i].listed <= runs[j].start

\* While a restart is put together, nothing is listed: unless a seek was claimed,
\* it still begins where the current run's listed output ends.
Restarting == {"seekSelect", "seekUpdate", "rungSelect", "rungUpdate", "kill",
               "awaitRestart", "spawn"}
EdgeInv ==
  pc \in Restarting /\ runs # <<>> /\ next.seek = NULL =>
    next.origin = Cur.origin + Cur.listed

\* From the claim of a seek until the run that answers it lists a segment, the row
\* is 'seeking' or closed; a tick begins with no restart half put together.
HeldStatuses == {"seeking"} \cup TerminalStatuses
NoRestartPcs == {"queued", "starting", "sleep", "publish", "release", "awaitRelease"}
HoldInv ==
  /\ runs # <<>> /\ Cur.seek # NULL /\ Cur.listed = 0 => row.status \in HeldStatuses
  /\ next.seek # NULL => row.status \in HeldStatuses
  /\ pc \in NoRestartPcs => next.seek = NULL
  /\ runs = <<>> \/ (CurIndex = 1 /\ pc \in {"recordRun", "recordRung"}) => next.seek = NULL

IInv ==
  /\ TypeOK /\ PcInv /\ ExtentInv /\ EndedExactlyOnce /\ SettledInv /\ NumberingInv
  /\ EdgeInv /\ HoldInv

-----------------------------------------------------------------------------
(* Liveness, under FairSpec.                                               *)

\* A session never stays in 'seeking': the restarted run lists a segment, or the
\* session closes ("never a silently-stuck 'seeking' row").
SeekingResolves == (row.status = "seeking") ~> (row.status # "seeking")

\* A recorded seek is consumed or absorbed, or the session closes.
SeekIsAnswered == (row.seek # NULL) ~> (row.seek = NULL \/ ~Live(row))

\* Once the row is closed by anyone, the worker's job ends and takes ffmpeg with it.
CloseStopsEncoder == (~Live(row) /\ pc # "queued") ~> (pc = "done")

\* An encoder stopped for a viewer who has caught up, or who came back, runs
\* again (or was replaced), unless the viewer falls behind or leaves again.
CaughtUp ==
  /\ row.requested # NULL
  /\ row.requested >= highest - ResumeAhead
EncoderStopped == runs # <<>> /\ Cur.st = "stopped"
StoppedComesBack ==
  (EncoderStopped /\ CaughtUp /\ row.flag) ~> (~EncoderStopped \/ ~CaughtUp \/ ~Live(row))

\* A stopped encoder whose row a heartbeat or a restart made active again is
\* resumed or the row is put back to suspended; it is not left stopped under an
\* active row.
ReturningViewerResumes ==
  (EncoderStopped /\ row.status = "active") ~> (~EncoderStopped \/ row.status # "active")

\* TranscodeSession implements SessionLifecycle.
LifecycleSpec == INSTANCE SessionLifecycle WITH status <- row.status, ended <- ended
ImplementsLifecycle == LifecycleSpec!Lifecycle

-----------------------------------------------------------------------------
(* What the repository says of the code and the code does not do; each is  *)
(* refuted by a run of its own.                                            *)

\* ensureSessionStagingDir's comment: a transcode session ALWAYS gets a
\* staging_dir from markSessionStarting.  (It gets none when a heartbeat moves
\* the row from 'created' to 'active' before the job starts.)
StagingRecorded == runs # <<>> /\ Live(row) => row.staging

\* PLAYBACK.md 9.1.3: seek_target_ms is cleared by a "guarded UPDATE on the exact
\* value read; a different value written meanwhile survives to the next tick".
\* (consumeSeekTarget's UPDATE tests IS NOT NULL.)
SeekNotSwallowed ==
  [][pc = "seekUpdate" /\ row.seek # NULL /\ row'.seek = NULL => row.seek = claimed]_vars
=============================================================================
