------------------------ MODULE TranscodeSessionProofs ------------------------
(***************************************************************************)
(* Machine-checked proofs about TranscodeSession, for every source length, *)
(* ladder, threshold, number of enders and number of requests.             *)
(***************************************************************************)
EXTENDS TranscodeSession, FiniteSetTheorems, WellFoundedInduction, TLAPS

-----------------------------------------------------------------------------
(* The row's statements.                                                   *)

\* What every statement except the closing one does to the status.
StatusMove(before, after) ==
  \/ after = before
  \/ before = "created" /\ after = "starting"
  \/ after \in {"active", "suspended", "seeking"}

\* A statement keeps an open row open and leaves a closed one alone.
Keeps(r, s) ==
  /\ s \in RowType
  /\ Live(r) => Live(s) /\ StatusMove(r.status, s.status)
  /\ ~Live(r) => s = r

\* The statements of internal/transcode-sessions.ts other than markSessionFailed.
LEMMA WorkerStatementsKeep ==
  ASSUME NEW r \in RowType
  PROVE /\ Keeps(r, MarkSessionStarting(r))
        /\ \A n \in Nat : Keeps(r, MarkSessionActive(r, n))
        /\ \A n \in Nat : Keeps(r, UpdateProducedSegment(r, n))
        /\ \A b \in BOOLEAN : Keeps(r, SetThrottleSuspended(r, b))
        /\ Keeps(r, ClearThrottleSuspendedOnRestart(r))
        /\ Keeps(r, ClaimSeekTarget(r))
        /\ \A v : Keeps(r, AbsorbSeekTarget(r, v))
        /\ Keeps(r, EnsureSessionStagingDir(r))
        /\ \A k \in Rungs : Keeps(r, RecordActiveRungIndex(r, k))
        /\ \A v : Keeps(r, ClaimPendingRung(r, v))
<1> USE DEF Keeps, StatusMove, RowType, Live, LiveStatuses, TerminalStatuses, Statuses,
            SeekValues, RungValues
<1>1. Keeps(r, MarkSessionStarting(r))
  <2>1. CASE r.status # "created"
    BY <2>1 DEF MarkSessionStarting
  <2>2. CASE r.status = "created"
    <3>1. MarkSessionStarting(r) = [r EXCEPT !.status = "starting", !.staging = TRUE]
      BY <2>2 DEF MarkSessionStarting
    <3> QED BY <2>2, <3>1
  <2> QED BY <2>1, <2>2
<1>2. ASSUME NEW n \in Nat PROVE Keeps(r, MarkSessionActive(r, n))
  BY DEF MarkSessionActive
<1>3. ASSUME NEW n \in Nat PROVE Keeps(r, UpdateProducedSegment(r, n))
  BY DEF UpdateProducedSegment
<1>4. ASSUME NEW b \in BOOLEAN PROVE Keeps(r, SetThrottleSuspended(r, b))
  <2>1. CASE r.status \notin {"active", "suspended"}
    BY <2>1 DEF SetThrottleSuspended
  <2>2. CASE r.status \in {"active", "suspended"} /\ b = TRUE
    <3>1. SetThrottleSuspended(r, b) = [r EXCEPT !.status = "suspended", !.flag = TRUE]
      BY <2>2 DEF SetThrottleSuspended
    <3> QED BY <2>2, <3>1
  <2>3. CASE r.status \in {"active", "suspended"} /\ b = FALSE
    <3>1. SetThrottleSuspended(r, b) = [r EXCEPT !.status = "active", !.flag = FALSE]
      BY <2>3 DEF SetThrottleSuspended
    <3> QED BY <2>3, <3>1
  <2> QED BY <2>1, <2>2, <2>3
<1>5. Keeps(r, ClearThrottleSuspendedOnRestart(r))
  <2>1. CASE ~(r.flag /\ Live(r))
    <3>1. ClearThrottleSuspendedOnRestart(r) = r
      BY <2>1 DEF ClearThrottleSuspendedOnRestart
    <3> QED BY <3>1
  <2>2. CASE r.flag /\ Live(r) /\ r.status = "suspended"
    <3>1. ClearThrottleSuspendedOnRestart(r) = [r EXCEPT !.flag = FALSE, !.status = "active"]
      BY <2>2 DEF ClearThrottleSuspendedOnRestart
    <3> QED BY <2>2, <3>1
  <2>3. CASE r.flag /\ Live(r) /\ r.status # "suspended"
    <3>1. ClearThrottleSuspendedOnRestart(r) = [r EXCEPT !.flag = FALSE]
      BY <2>3 DEF ClearThrottleSuspendedOnRestart
    <3> QED BY <2>3, <3>1
  <2> QED BY <2>1, <2>2, <2>3
<1>6. Keeps(r, ClaimSeekTarget(r))
  <2>1. CASE ~SeekIsClaimable(r)
    BY <2>1 DEF ClaimSeekTarget
  <2>2. CASE SeekIsClaimable(r)
    <3>1. ClaimSeekTarget(r)
            = [r EXCEPT !.seek = NULL, !.disc = r.disc + 1, !.status = "seeking"]
      BY <2>2 DEF ClaimSeekTarget
    <3>2. Live(r) /\ r.disc + 1 \in Nat
      BY <2>2 DEF SeekIsClaimable
    <3> QED BY <3>1, <3>2
  <2> QED BY <2>1, <2>2
<1>7. ASSUME NEW v PROVE Keeps(r, AbsorbSeekTarget(r, v))
  BY DEF AbsorbSeekTarget
<1>8. Keeps(r, EnsureSessionStagingDir(r))
  <2>1. CASE ~Live(r)
    BY <2>1 DEF EnsureSessionStagingDir
  <2>2. CASE Live(r)
    <3>1. EnsureSessionStagingDir(r) = [r EXCEPT !.staging = TRUE]
      BY <2>2 DEF EnsureSessionStagingDir
    <3> QED BY <2>2, <3>1
  <2> QED BY <2>1, <2>2
<1>9. ASSUME NEW k \in Rungs PROVE Keeps(r, RecordActiveRungIndex(r, k))
  <2>1. CASE ~Live(r)
    BY <2>1 DEF RecordActiveRungIndex
  <2>2. CASE Live(r) /\ r.pending = k
    <3>1. RecordActiveRungIndex(r, k) = [r EXCEPT !.active = k, !.pending = NULL]
      BY <2>2 DEF RecordActiveRungIndex
    <3> QED BY <2>2, <3>1
  <2>3. CASE Live(r) /\ r.pending # k
    <3>1. RecordActiveRungIndex(r, k) = [r EXCEPT !.active = k]
      BY <2>3 DEF RecordActiveRungIndex
    <3> QED BY <2>3, <3>1
  <2> QED BY <2>1, <2>2, <2>3
<1>10. ASSUME NEW v PROVE Keeps(r, ClaimPendingRung(r, v))
  BY DEF ClaimPendingRung
<1> QED BY <1>1, <1>2, <1>3, <1>4, <1>5, <1>6, <1>7, <1>8, <1>9, <1>10

\* The statements of query/playback-sessions.ts other than finalizeSession's.
LEMMA ServerStatementsKeep ==
  ASSUME NEW r \in RowType
  PROVE /\ Keeps(r, HeartbeatPlaybackSession(r))
        /\ Keeps(r, SuspendStalePlaybackSession(r))
        /\ \A n \in Nat : Keeps(r, UpdateRequestedSegment(r, n))
        /\ \A n \in Nat : Keeps(r, RecordServedSegment(r, n))
        /\ \A t \in Targets : Keeps(r, RequestSeek(r, t))
        /\ \A k \in Rungs : Keeps(r, RequestRungSwitch(r, k))
        /\ \A t \in Targets, k \in Rungs : Keeps(r, RequestSeekWithRungSwitch(r, t, k))
<1> USE DEF Keeps, StatusMove, RowType, Live, LiveStatuses, TerminalStatuses, Statuses,
            SeekValues, RungValues
<1>1. Keeps(r, HeartbeatPlaybackSession(r))
  <2>1. CASE ~AcceptsHeartbeat(r)
    BY <2>1 DEF HeartbeatPlaybackSession
  <2>2. CASE AcceptsHeartbeat(r)
    <3>1. HeartbeatPlaybackSession(r) = [r EXCEPT !.status = "active"]
      BY <2>2 DEF HeartbeatPlaybackSession
    <3>2. Live(r)
      BY <2>2 DEF AcceptsHeartbeat
    <3> QED BY <3>1, <3>2
  <2> QED BY <2>1, <2>2
<1>2. Keeps(r, SuspendStalePlaybackSession(r))
  <2>1. CASE r.status # "active"
    BY <2>1 DEF SuspendStalePlaybackSession
  <2>2. CASE r.status = "active"
    <3>1. SuspendStalePlaybackSession(r) = [r EXCEPT !.status = "suspended", !.flag = FALSE]
      BY <2>2 DEF SuspendStalePlaybackSession
    <3> QED BY <2>2, <3>1
  <2> QED BY <2>1, <2>2
<1>3. ASSUME NEW n \in Nat PROVE Keeps(r, UpdateRequestedSegment(r, n))
  BY DEF UpdateRequestedSegment
<1>4. ASSUME NEW n \in Nat PROVE Keeps(r, RecordServedSegment(r, n))
  BY DEF RecordServedSegment
<1>5. ASSUME NEW t \in Targets PROVE Keeps(r, RequestSeek(r, t))
  <2>1. CASE ~(Live(r))
    BY <2>1 DEF RequestSeek
  <2>2. CASE Live(r)
    <3>1. RequestSeek(r, t) = [r EXCEPT !.seek = t]
      BY <2>2 DEF RequestSeek
    <3> QED BY <2>2, <3>1
  <2> QED BY <2>1, <2>2
<1>6. ASSUME NEW k \in Rungs PROVE Keeps(r, RequestRungSwitch(r, k))
  <2>1. CASE ~(Live(r) /\ r.active # k)
    BY <2>1 DEF RequestRungSwitch
  <2>2. CASE Live(r) /\ r.active # k
    <3>1. RequestRungSwitch(r, k) = [r EXCEPT !.pending = k]
      BY <2>2 DEF RequestRungSwitch
    <3> QED BY <2>2, <3>1
  <2> QED BY <2>1, <2>2
<1>7. ASSUME NEW t \in Targets, NEW k \in Rungs PROVE Keeps(r, RequestSeekWithRungSwitch(r, t, k))
  <2>1. CASE ~Live(r)
    BY <2>1 DEF RequestSeekWithRungSwitch
  <2>2. CASE Live(r) /\ r.active # k
    <3>1. RequestSeekWithRungSwitch(r, t, k) = [r EXCEPT !.seek = t, !.pending = k]
      BY <2>2 DEF RequestSeekWithRungSwitch
    <3> QED BY <2>2, <3>1
  <2>3. CASE Live(r) /\ r.active = k
    <3>1. RequestSeekWithRungSwitch(r, t, k) = [r EXCEPT !.seek = t]
      BY <2>3 DEF RequestSeekWithRungSwitch
    <3> QED BY <2>3, <3>1
  <2> QED BY <2>1, <2>2, <2>3
<1> QED BY <1>1, <1>2, <1>3, <1>4, <1>5, <1>6, <1>7

\* The closing UPDATE shared by finalizeSession and markSessionFailed.
LEMMA CloseRowCloses ==
  ASSUME NEW r \in RowType, NEW terminal \in TerminalStatuses
  PROVE /\ CloseRow(r, terminal) \in RowType
        /\ ~Live(CloseRow(r, terminal))
        /\ ~Live(r) => CloseRow(r, terminal) = r
        /\ Live(r) => CloseRow(r, terminal).status = terminal
  BY DEF CloseRow, RowType, Live, LiveStatuses, TerminalStatuses, Statuses,
         SeekValues, RungValues

-----------------------------------------------------------------------------
(* Every step either keeps the row's fate or closes it.                    *)

TypeInv == TypeOK /\ PcInv /\ ExtentInv

RowKept == Keeps(row, row') /\ ended' = ended
RowClosed ==
  \E terminal \in TerminalStatuses :
    /\ row' = CloseRow(row, terminal)
    /\ ended' = IF Live(row) THEN ended + 1 ELSE ended

\* A row no statement writes is kept.
LEMMA KeepsReflexive ==
  ASSUME NEW r \in RowType
  PROVE Keeps(r, r)
  BY DEF Keeps, StatusMove

\* The current run is the last of a nonempty history.
LEMMA CurIsRun ==
  ASSUME TypeInv, runs # <<>>
  PROVE /\ CurIndex \in DOMAIN runs
        /\ CurIndex \in Nat \ {0}
        /\ Cur \in RunType
  BY DEF TypeInv, TypeOK, CurIndex, Cur

\* The steps that leave the row and its events alone.
LocalStep ==
  \/ BeginJob \/ SpawnRun \/ RecordRun \/ Tick \/ WritePlaylist \/ ExitCheck \/ GiveUp
  \/ Recover \/ ConsumeSeek \/ SeekSelect \/ Handoff \/ DeferHandoff \/ RungSelect \/ Terminate
  \/ RestartReady \/ TeardownDone \/ FailSelect \/ Released \/ Ffmpeg \/ CooldownElapses
  \/ Finished

\* Every step either keeps the row open or closed as it was, or closes it once.
LEMMA RowMoves ==
  ASSUME TypeInv, Next
  PROVE RowKept \/ RowClosed
<1> USE DEF TypeInv
<1>0. row \in RowType /\ Keeps(row, row)
  BY KeepsReflexive DEF TypeOK
<1>1. CASE LocalStep
  <2>1. UNCHANGED <<row, ended>>
    BY <1>1 DEF LocalStep, rowVars, vars, BeginJob, SpawnRun, RecordRun, Tick, WritePlaylist, ExitCheck,
      GiveUp, Recover, ConsumeSeek, SeekSelect, Handoff, DeferHandoff, RungSelect, Terminate,
      RestartReady, TeardownDone, FailSelect, Released, Ffmpeg, Produce, ReachEnd, Die,
      ObeyTermination, CooldownElapses, Finished
  <2> QED BY <1>0, <2>1 DEF RowKept
<1>2. CASE StartSession
  BY <1>0, <1>2, WorkerStatementsKeep DEF StartSession, RowKept
<1>3. CASE RecordRung
  <2>1. Cur \in RunType
    BY <1>3, CurIsRun DEF RecordRung, PcInv, NoRunYet, BetweenRuns
  <2>2. Cur.rung = NULL \/ Cur.rung \in Rungs
    BY <2>1 DEF RunType, RungValues
  <2> QED BY <1>0, <1>3, <2>2, WorkerStatementsKeep DEF RecordRung, RowKept
<1>4. CASE FinishRestart
  BY <1>0, <1>4, WorkerStatementsKeep DEF FinishRestart, RowKept
<1>5. CASE Publish
  <2>1. highest < 0 \/ highest \in Nat
    BY DEF TypeOK
  <2> QED BY <1>0, <1>5, <2>1, WorkerStatementsKeep DEF Publish, RowKept
<1>6. CASE AbsorbSeek
  BY <1>0, <1>6, WorkerStatementsKeep DEF AbsorbSeek, RowKept
<1>7. CASE SeekUpdate
  BY <1>0, <1>7, WorkerStatementsKeep DEF SeekUpdate, RowKept
<1>8. CASE RungUpdate
  BY <1>0, <1>8, WorkerStatementsKeep DEF RungUpdate, RowKept
<1>9. CASE FailUpdate
  BY <1>9 DEF FailUpdate, RowClosed, TerminalStatuses
<1>10. CASE Throttle
  <2>1. ended' = ended
    BY <1>10 DEF Throttle
  <2>2. \/ row' = row
        \/ row' = SetThrottleSuspended(row, TRUE)
        \/ row' = SetThrottleSuspended(row, FALSE)
    BY <1>10 DEF Throttle, StopFor, ResumeLive, ResumeReleased
  <2> QED BY <1>0, <2>1, <2>2, WorkerStatementsKeep DEF RowKept
<1>11. CASE Server
  <2>1. CASE Heartbeat \/ SweepSuspend \/ ExtractSidecar
    BY <1>0, <2>1, ServerStatementsKeep, WorkerStatementsKeep
       DEF Heartbeat, SweepSuspend, ExtractSidecar, RowKept
  <2>2. CASE ClientRequest
    BY <1>0, <2>2, ServerStatementsKeep DEF ClientRequest, RowKept
  <2>3. ASSUME NEW e \in Enders, EndSelect(e)
        PROVE RowKept
    BY <1>0, <2>3 DEF EndSelect, RowKept
  <2>4. ASSUME NEW e \in Enders, FinalizeSession(e)
        PROVE RowClosed
    BY <2>4 DEF FinalizeSession, RowClosed
  <2>5. ASSUME NEW n \in Gets, RequestSegment(n) \/ ServeSegment(n)
        PROVE RowKept
    <3>1. n \in Nat
      BY BoundsAssumption
    <3> QED BY <1>0, <2>5, <3>1, ServerStatementsKeep DEF RequestSegment, ServeSegment, RowKept
  <2> QED BY <1>11, <2>1, <2>2, <2>3, <2>4, <2>5 DEF Server
<1> QED BY <1>1, <1>2, <1>3, <1>4, <1>5, <1>6, <1>7, <1>8, <1>9, <1>10, <1>11
           DEF Next, Worker, LocalStep

-----------------------------------------------------------------------------
(* Types, extents, and what each program point may rely on.                *)

\* Editing one run of the history in place.
LEMMA EditRun ==
  ASSUME NEW S, NEW rs \in Seq(S), NEW i \in DOMAIN rs, NEW v \in S
  PROVE LET new == [rs EXCEPT ![i] = v]
        IN /\ new \in Seq(S)
           /\ Len(new) = Len(rs)
           /\ DOMAIN new = DOMAIN rs
           /\ new[i] = v
           /\ \A j \in DOMAIN rs : j # i => new[j] = rs[j]
           /\ new # <<>>
  OBVIOUS

\* Every step keeps the type of the row.
LEMMA RowTyped ==
  ASSUME TypeInv, Next
  PROVE row' \in RowType
  BY RowMoves, CloseRowCloses DEF RowKept, RowClosed, Keeps, TypeInv, TypeOK

\* The worker's bookkeeping apart from the row and the history of runs.
TickTypes ==
  /\ snap \in RowType \cup {NULL}
  /\ ctl \in [stopped : BOOLEAN, released : BOOLEAN, pruned : BOOLEAN]
  /\ highest \in Nat \cup {-1}
  /\ cooldown \in BOOLEAN
  /\ recovery \in [retries : 0 .. MaxHardwareRetries, software : BOOLEAN]
  /\ next \in RestartType
  /\ claimed \in SeekValues \cup RungValues
  /\ file \in Nat

\* The live edge a recovery or a handoff continues from lies within the source.
LEMMA ContinuationTyped ==
  ASSUME TypeInv, runs # <<>>, NEW cause \in Restarts
  PROVE Continuation(cause) \in RestartType
<1>1. Cur \in RunType /\ Cur.listed <= Cur.out /\ Cur.origin + Cur.out <= SourceLen
  BY CurIsRun DEF TypeInv, ExtentInv, Cur
<1>2. Cur.origin + Cur.listed \in 0 .. SourceLen
  BY <1>1, SourceLenAssumption DEF RunType
<1> QED BY <1>1, <1>2 DEF Continuation, RestartType, RunType, RungValues, SeekValues

\* The restart a claimed seek asks for is well typed.
LEMMA SeekRestartTyped ==
  ASSUME NEW restart \in RestartType, NEW target \in Targets
  PROVE [restart EXCEPT !.origin = target, !.seek = target] \in RestartType
<1>1. target \in 0 .. SourceLen
  BY TargetsAssumption, SourceLenAssumption
<1>2. target \in SeekValues
  BY DEF SeekValues
<1> QED BY <1>1, <1>2 DEF RestartType

\* Where a new run lands lies within the source.
LEMMA LandingTyped ==
  ASSUME NEW restart \in RestartType, NEW origin \in LandingOrigins(restart.origin)
  PROVE origin \in 0 .. SourceLen
<1>1. restart.origin \in 0 .. SourceLen
  BY DEF RestartType
<1> QED BY <1>1, SourceLenAssumption DEF LandingOrigins

\* A freshly spawned run is well typed.
LEMMA FreshRunTyped ==
  ASSUME NEW restart \in RestartType, NEW start \in Nat, NEW origin \in 0 .. SourceLen
  PROVE [st |-> "live", start |-> start, origin |-> origin, rung |-> restart.rung,
         seek |-> restart.seek, out |-> 0, listed |-> 0, recorded |-> FALSE] \in RunType
<1>1. 0 \in 0 .. SourceLen
  BY SourceLenAssumption
<1>2. restart.rung \in RungValues /\ restart.seek \in SeekValues
  BY DEF RestartType
<1> QED BY <1>1, <1>2 DEF RunType, AliveStates

\* The empty restart request is well typed.
LEMMA NoRestartTyped == NoRestart \in RestartType
  BY SourceLenAssumption DEF NoRestart, RestartType, Restarts, RungValues, SeekValues

\* The restart a claimed rung switch asks for is well typed.
LEMMA RungRestartTyped ==
  ASSUME NEW restart \in RestartType, NEW rung \in RungValues
  PROVE [restart EXCEPT !.rung = rung] \in RestartType
  BY DEF RestartType

\* One more segment of a run that has not reached the end of the source.
LEMMA ProducedRun ==
  ASSUME NEW run \in RunType, run.origin + run.out < SourceLen, run.listed <= run.out
  PROVE LET longer == [run EXCEPT !.out = run.out + 1]
        IN /\ longer \in RunType
           /\ longer.listed <= longer.out
           /\ longer.origin + longer.out <= SourceLen
<1>1. run.out + 1 \in 0 .. SourceLen
  BY SourceLenAssumption DEF RunType
<1> QED BY <1>1, SourceLenAssumption DEF RunType

\* Everything TypeInv says except row's own type.
Rest ==
  /\ ended \in Nat
  /\ closing \in [Enders -> {"idle", "selected", "done"}]
  /\ pc \in PcStates
  /\ runs \in Seq(RunType)
  /\ TickTypes
  /\ requests \in 0 .. MaxRequests
  /\ sweeps \in 0 .. MaxSweeps
  /\ PcInv
  /\ ExtentInv

\* The type invariant is the type of the row and that of the rest.
LEMMA RestIsEnough ==
  /\ TypeInv <=> (row \in RowType /\ Rest)
  /\ TypeInv' <=> ((row \in RowType)' /\ Rest')
  BY DEF TypeInv, TypeOK, Rest, TickTypes

\* A signal changes no extent.
LEMMA SignalKeepsExtents ==
  ASSUME TypeInv, NEW i \in DOMAIN runs, NEW st,
         runs' = [runs EXCEPT ![i] = [runs[i] EXCEPT !.st = st]]
  PROVE ExtentInv'
<1>1. \A j \in DOMAIN runs : runs[j] \in RunType
  BY DEF TypeInv, TypeOK
<1>2. DOMAIN runs' = DOMAIN runs
  BY DEF TypeInv, TypeOK
<1>3. \A j \in DOMAIN runs : /\ runs'[j].listed = runs[j].listed
                             /\ runs'[j].out = runs[j].out
                             /\ runs'[j].origin = runs[j].origin
  BY <1>1 DEF RunType
<1> QED BY <1>2, <1>3 DEF TypeInv, ExtentInv

\* Recording a run changes no more than that.
LEMMA RecordingKeeps ==
  ASSUME TypeInv, RecordRun
  PROVE /\ runs' \in Seq(RunType) /\ DOMAIN runs' = DOMAIN runs /\ Len(runs') = Len(runs)
        /\ runs # <<>> /\ runs' # <<>>
        /\ \A j \in DOMAIN runs :
             /\ runs'[j].st = runs[j].st /\ runs'[j].start = runs[j].start
             /\ runs'[j].origin = runs[j].origin /\ runs'[j].seek = runs[j].seek
             /\ runs'[j].out = runs[j].out /\ runs'[j].listed = runs[j].listed
<1>1. runs # <<>> /\ CurIndex \in DOMAIN runs /\ Cur \in RunType /\ runs \in Seq(RunType)
  BY CurIsRun DEF RecordRun, TypeInv, TypeOK, PcInv, NoRunYet, BetweenRuns
<1>2. CASE runs' = runs
  BY <1>1, <1>2
<1>3. CASE runs' = [runs EXCEPT ![CurIndex].recorded = TRUE]
  <2> DEFINE noted == [Cur EXCEPT !.recorded = TRUE]
  <2>1. runs' = [runs EXCEPT ![CurIndex] = noted]
    BY <1>1, <1>3 DEF Cur
  <2>2. /\ noted \in RunType
        /\ noted.st = Cur.st /\ noted.start = Cur.start /\ noted.origin = Cur.origin
        /\ noted.seek = Cur.seek /\ noted.out = Cur.out /\ noted.listed = Cur.listed
    BY <1>1 DEF RunType
  <2> HIDE DEF noted
  <2>3. /\ runs' \in Seq(RunType) /\ runs' # <<>> /\ DOMAIN runs' = DOMAIN runs
        /\ Len(runs') = Len(runs) /\ runs'[CurIndex] = noted
        /\ \A j \in DOMAIN runs : j # CurIndex => runs'[j] = runs[j]
    BY ONLY <1>1, <2>1, <2>2, EditRun
  <2> QED BY <1>1, <2>2, <2>3 DEF Cur
<1> QED BY <1>2, <1>3 DEF RecordRun

\* One worker step keeps the types.
LEMMA WorkerTypes ==
  ASSUME TypeInv, Worker
  PROVE Rest'
<1>0. row \in RowType /\ Rest
  BY RestIsEnough
<1> USE <1>0, SourceLenAssumption, ThresholdAssumption
        DEF Rest, TickTypes, rowVars, tickVars, clientVars, PcInv, PcStates,
            NoRunYet, BetweenRuns, InTick
<1>1. CASE BeginJob
  BY <1>1 DEF BeginJob, ExtentInv
<1>2. CASE StartSession
  <2>1. next' \in RestartType
    BY <1>2, RungsAssumption, NoRestartTyped, RungRestartTyped DEF StartSession, RungValues
  <2> QED BY <1>2, <2>1 DEF StartSession, ExtentInv
<1>3. CASE RecordRung
  BY <1>3 DEF RecordRung, ExtentInv
<1>4. CASE FinishRestart
  BY <1>4, NoRestartTyped DEF FinishRestart, ExtentInv
<1>5. CASE Publish
  BY <1>5 DEF Publish, ExtentInv
<1>6. CASE WritePlaylist
  <2>1. CurIndex \in Nat
    BY DEF CurIndex
  <2> QED BY <1>6, <2>1 DEF WritePlaylist, HeadPruned, ExtentInv
<1>7. CASE ExitCheck \/ GiveUp
  BY <1>7 DEF ExitCheck, GiveUp, AfterExitBlock, AfterSeekBlock, ExtentInv
<1>8. CASE Recover
  <2>1. next' \in RestartType
    BY <1>8, ContinuationTyped DEF Recover, Restarts
  <2>2. recovery' \in [retries : 0 .. MaxHardwareRetries, software : BOOLEAN]
    <3>1. CASE RecoveryAction = "retry-hardware"
      <4>1. recovery.retries < MaxHardwareRetries
        BY <3>1 DEF RecoveryAction
      <4>2. recovery' = [recovery EXCEPT !.retries = recovery.retries + 1]
        BY <1>8, <3>1 DEF Recover
      <4>3. recovery.retries + 1 \in 0 .. MaxHardwareRetries /\ recovery.software \in BOOLEAN
        BY <4>1
      <4>4. recovery \in [retries : 0 .. MaxHardwareRetries, software : BOOLEAN]
        OBVIOUS
      <4> QED BY ONLY <4>2, <4>3, <4>4
    <3>2. CASE RecoveryAction # "retry-hardware"
      BY <1>8, <3>2 DEF Recover
    <3> QED BY <3>1, <3>2
  <2> QED BY <1>8, <2>1, <2>2 DEF Recover, ExtentInv
<1>9. CASE AbsorbSeek
  BY <1>9 DEF AbsorbSeek, ExtentInv
<1>10. CASE ConsumeSeek
  <2>1. next' \in RestartType
    BY <1>10, ContinuationTyped DEF ConsumeSeek, Restarts
  <2> QED BY <1>10, <2>1 DEF ConsumeSeek, ExtentInv
<1>11. CASE SeekSelect
  BY <1>11 DEF SeekSelect, SeekIsClaimable, AfterSeek, AfterSeekBlock, ExtentInv, RowType,
     SeekValues, RungValues
<1>12. CASE SeekUpdate
  <2>1. next' \in RestartType
    <3>1. next' = next \/ next' = [next EXCEPT !.origin = claimed, !.seek = claimed]
      BY <1>12 DEF SeekUpdate
    <3>2. claimed \in Targets
      BY <1>12 DEF SeekUpdate
    <3>3. next \in RestartType
      OBVIOUS
    <3> QED BY ONLY <3>1, <3>2, <3>3, SeekRestartTyped
  <2> QED BY <1>12, <2>1 DEF SeekUpdate, AfterSeek, AfterSeekBlock, ExtentInv, SeekValues
<1>13. CASE Handoff \/ DeferHandoff
  <2>1. CASE Handoff
    <3>1. next' \in RestartType
      BY <2>1, ContinuationTyped DEF Handoff, Restarts
    <3> QED BY <2>1, <3>1 DEF Handoff, ExtentInv
  <2>2. CASE DeferHandoff
    BY <2>2 DEF DeferHandoff, ExtentInv
  <2> QED BY <1>13, <2>1, <2>2
<1>14. CASE RungSelect
  BY <1>14 DEF RungSelect, AfterRung, ExtentInv, RowType, SeekValues, RungValues
<1>15. CASE RungUpdate
  <2>1. next' \in RestartType
    <3>1. next' = next \/ next' = [next EXCEPT !.rung = claimed]
      BY <1>15 DEF RungUpdate
    <3>2. claimed \in RungValues
      BY <1>15 DEF RungUpdate, RungValues
    <3> QED BY <3>1, <3>2, RungRestartTyped
  <2> QED BY <1>15, <2>1 DEF RungUpdate, AfterRung, ExtentInv, SeekValues
<1>16. CASE RestartReady \/ TeardownDone \/ FailSelect \/ FailUpdate
  BY <1>16 DEF RestartReady, TeardownDone, FailSelect, FailUpdate, ExtentInv
<1>17. CASE Released
  BY <1>17 DEF Released, ExtentInv
<1>18. CASE SpawnRun
  <2>1. PICK origin \in LandingOrigins(next.origin) :
          runs' = Append(runs, [st |-> "live", start |-> StartSegment, origin |-> origin,
                                rung |-> next.rung, seek |-> next.seek,
                                out |-> 0, listed |-> 0, recorded |-> FALSE])
    BY <1>18 DEF SpawnRun
  <2>2. origin \in 0 .. SourceLen
    BY LandingTyped
  <2>3. StartSegment \in Nat
    <3>1. runs # <<>> => Cur.start \in Nat
      BY CurIsRun DEF RunType
    <3>2. highest + 1 \in Nat
      OBVIOUS
    <3> QED BY <3>1, <3>2 DEF StartSegment, Max2
  <2>4. [st |-> "live", start |-> StartSegment, origin |-> origin, rung |-> next.rung,
         seek |-> next.seek, out |-> 0, listed |-> 0, recorded |-> FALSE] \in RunType
    BY <2>2, <2>3, FreshRunTyped
  <2>5. runs' \in Seq(RunType) /\ runs' # <<>>
    BY <2>1, <2>4
  <2>6. ExtentInv'
    BY <2>1, <2>2, <2>4 DEF ExtentInv
  <2> QED BY <1>18, <2>5, <2>6 DEF SpawnRun, FreshCtl
<1>19. CASE Tick
  <2>1. runs # <<>> /\ CurIndex \in DOMAIN runs /\ Cur \in RunType
    BY <1>19, CurIsRun DEF Tick
  <2>2. CASE ~Live(row)
    BY <1>19, <2>2 DEF Tick, ExtentInv
  <2>3. CASE Live(row)
    <3>1. runs' = [runs EXCEPT ![CurIndex] = [Cur EXCEPT !.listed = Cur.out]]
      BY <1>19, <2>3 DEF Tick, Cur
    <3>2. [Cur EXCEPT !.listed = Cur.out] \in RunType
      BY <2>1 DEF RunType
    <3>3. runs' \in Seq(RunType) /\ runs' # <<>>
      BY <2>1, <3>1, <3>2, EditRun
    <3>4. ExtentInv'
      <4> DEFINE folded == [Cur EXCEPT !.listed = Cur.out]
      <4>1. /\ DOMAIN runs' = DOMAIN runs /\ runs'[CurIndex] = folded
            /\ \A j \in DOMAIN runs : j # CurIndex => runs'[j] = runs[j]
        <5>1. runs \in Seq(RunType)
          OBVIOUS
        <5> QED BY ONLY <2>1, <3>1, <3>2, <5>1, EditRun
      <4>2. folded.listed <= folded.out /\ folded.origin + folded.out <= SourceLen
        <5>1. folded.listed = Cur.out /\ folded.out = Cur.out /\ folded.origin = Cur.origin
          BY <2>1 DEF RunType
        <5>2. Cur.origin + Cur.out <= SourceLen /\ Cur.out \in Nat
          BY <2>1 DEF ExtentInv, Cur, RunType
        <5> HIDE DEF folded
        <5> QED BY <5>1, <5>2
      <4>3. ExtentInv
        OBVIOUS
      <4> HIDE DEF folded
      <4> QED BY ONLY <4>1, <4>2, <4>3 DEF ExtentInv
    <3>5. highest' \in Nat \cup {-1}
      <4>1. Cur.out \in Nat /\ Cur.start \in Nat
        BY <2>1 DEF RunType
      <4>2. Cur.out > 0 => Cur.start + Cur.out - 1 \in Nat
        BY <4>1
      <4>3. highest' = highest \/ (Cur.out > 0 /\ highest' = Cur.start + Cur.out - 1)
        BY <1>19, <2>3 DEF Tick, Max2
      <4> QED BY <4>2, <4>3
    <3> QED BY <1>19, <2>3, <3>3, <3>4, <3>5 DEF Tick
  <2> QED BY <2>2, <2>3
<1>20. CASE Terminate
  <2>1. runs # <<>> /\ CurIndex \in DOMAIN runs /\ Cur \in RunType
    BY <1>20, CurIsRun DEF Terminate, TerminateWaits
  <2>2. PICK st \in AliveStates \cup ExitStates :
          runs' = [runs EXCEPT ![CurIndex] = [Cur EXCEPT !.st = st]]
    BY <1>20, <2>1 DEF Terminate, Cur, RunType, AliveStates
  <2>3. [Cur EXCEPT !.st = st] \in RunType
    BY <2>1 DEF RunType
  <2>4. runs' \in Seq(RunType) /\ runs' # <<>>
    BY <2>1, <2>2, <2>3, EditRun
  <2>5. ExtentInv'
    BY <2>1, <2>2, SignalKeepsExtents DEF Cur
  <2>6. pc' \in {"awaitRestart", "awaitTeardown", "awaitRelease"}
    BY <1>20 DEF Terminate, TerminateWaits
  <2>7. /\ UNCHANGED <<ended, closing, requests, sweeps, ctl>>
        /\ UNCHANGED <<snap, highest, cooldown, recovery, next, claimed, file>>
    BY <1>20 DEF Terminate, rowVars, tickVars, clientVars
  <2> QED BY <2>4, <2>5, <2>6, <2>7
<1>21. CASE Throttle
  <2>1. runs # <<>> /\ CurIndex \in DOMAIN runs /\ Cur \in RunType
    BY <1>21, CurIsRun DEF Throttle
  <2>2. next' \in RestartType
    <3>1. next' = NoRestart \/ next' = Continuation("resume")
      BY <1>21 DEF Throttle, StopFor, ResumeLive, ResumeReleased
    <3> QED BY <2>1, <3>1, NoRestartTyped, ContinuationTyped DEF Restarts
  <2>3. PICK st \in AliveStates \cup ExitStates :
          runs' = [runs EXCEPT ![CurIndex] = [Cur EXCEPT !.st = st]]
    <3>1. CASE runs' = runs
      BY <2>1, <3>1 DEF Cur, RunType
    <3>2. ASSUME NEW from \in AliveStates, NEW to \in AliveStates, Signal(from, to)
          PROVE \E st \in AliveStates \cup ExitStates :
                  runs' = [runs EXCEPT ![CurIndex] = [Cur EXCEPT !.st = st]]
      BY <2>1, <3>2 DEF Signal, Cur, RunType
    <3>3. runs' = runs \/ Signal("live", "stopped") \/ Signal("stopped", "live")
      BY <1>21 DEF Throttle, StopFor, ResumeLive, ResumeReleased
    <3> QED BY <3>1, <3>2, <3>3 DEF AliveStates
  <2>4. [Cur EXCEPT !.st = st] \in RunType
    BY <2>1 DEF RunType
  <2>5. runs' \in Seq(RunType) /\ runs' # <<>>
    BY <2>1, <2>3, <2>4, EditRun
  <2>8. ExtentInv'
    BY <2>1, <2>3, SignalKeepsExtents DEF Cur
  <2>6. ctl' \in [stopped : BOOLEAN, released : BOOLEAN, pruned : BOOLEAN]
    BY <1>21 DEF Throttle, StopFor, ResumeLive, ResumeReleased
  <2>7. pc' \in {"sleep", "kill", "release"}
    BY <1>21 DEF Throttle, StopFor, ResumeLive, ResumeReleased
  <2> QED BY <1>21, <2>2, <2>5, <2>6, <2>7, <2>8 DEF Throttle
<1>22. CASE RecordRun
  <2>1. runs' \in Seq(RunType) /\ runs' # <<>> /\ DOMAIN runs' = DOMAIN runs
    BY <1>22, RecordingKeeps
  <2>2. ExtentInv'
    BY <1>22, RecordingKeeps DEF TypeInv, ExtentInv
  <2> QED BY <1>22, <2>1, <2>2 DEF RecordRun
<1> QED BY <1>1, <1>2, <1>3, <1>4, <1>5, <1>6, <1>7, <1>8, <1>9, <1>10, <1>11, <1>12, <1>13,
           <1>14, <1>15, <1>16, <1>17, <1>18, <1>19, <1>20, <1>21, <1>22 DEF Worker

\* Steps of ffmpeg, the server, the sweeper and the clock keep the types.
LEMMA EnvironmentTypes ==
  ASSUME TypeInv, Ffmpeg \/ Server \/ CooldownElapses \/ UNCHANGED vars
  PROVE Rest'
<1>0. row \in RowType /\ Rest
  BY RestIsEnough
<1> USE <1>0, SourceLenAssumption, BoundsAssumption
        DEF Rest, TickTypes, rowVars, tickVars, clientVars, PcInv
<1>1. CASE Ffmpeg
  <2>1. PICK i \in DOMAIN runs :
          Produce(i) \/ ReachEnd(i) \/ Die(i) \/ ObeyTermination(i)
    BY <1>1 DEF Ffmpeg
  <2>2. runs[i] \in RunType /\ i \in DOMAIN runs
    OBVIOUS
  <2>3. CASE Produce(i)
    <3>1. runs' = [runs EXCEPT ![i] = [runs[i] EXCEPT !.out = runs[i].out + 1]]
      BY <2>3 DEF Produce
    <3>2. LET longer == [runs[i] EXCEPT !.out = runs[i].out + 1]
          IN /\ longer \in RunType
             /\ longer.listed <= longer.out
             /\ longer.origin + longer.out <= SourceLen
      <4>1. runs[i].origin + runs[i].out < SourceLen /\ runs[i].listed <= runs[i].out
        BY <2>3 DEF Produce, ExtentInv
      <4> QED BY <2>2, <4>1, ProducedRun
    <3>3. runs' \in Seq(RunType) /\ runs' # <<>>
      BY <3>1, <3>2, EditRun
    <3>4. ExtentInv'
      <4>1. DOMAIN runs' = DOMAIN runs /\ \A j \in DOMAIN runs : j # i => runs'[j] = runs[j]
        BY <3>1
      <4>2. runs'[i] = [runs[i] EXCEPT !.out = runs[i].out + 1]
        BY <3>1
      <4> QED BY <3>2, <4>1, <4>2 DEF ExtentInv
    <3> QED BY <2>3, <3>3, <3>4 DEF Produce
  <2>4. CASE ReachEnd(i) \/ Die(i) \/ ObeyTermination(i)
    <3>1. PICK st \in ExitStates : runs' = [runs EXCEPT ![i] = [runs[i] EXCEPT !.st = st]]
      BY <2>4, ShapeAssumption DEF ReachEnd, Die, ObeyTermination, SetProcess, ExitStates
    <3>2. [runs[i] EXCEPT !.st = st] \in RunType
      BY <2>2 DEF RunType
    <3>3. runs' \in Seq(RunType) /\ runs' # <<>>
      BY <3>1, <3>2, EditRun
    <3>4. ExtentInv'
      BY <3>1, SignalKeepsExtents
    <3> QED BY <2>4, <3>3, <3>4 DEF ReachEnd, Die, ObeyTermination
  <2> QED BY <2>1, <2>3, <2>4
<1>2. CASE Server
  <2>1. UNCHANGED <<pc, tickVars, runs, ctl>>
    BY <1>2 DEF Server, ServerStep, Heartbeat, SweepSuspend, ClientRequest, ExtractSidecar,
       EndSelect, FinalizeSession, RequestSegment, ServeSegment
  <2>2. closing' \in [Enders -> {"idle", "selected", "done"}]
    BY <1>2 DEF Server, Heartbeat, SweepSuspend, ClientRequest, ExtractSidecar,
       EndSelect, FinalizeSession, RequestSegment, ServeSegment
  <2>3. requests' \in 0 .. MaxRequests /\ sweeps' \in 0 .. MaxSweeps
    BY <1>2 DEF Server, Heartbeat, SweepSuspend, ClientRequest, ExtractSidecar,
       EndSelect, FinalizeSession, RequestSegment, ServeSegment
  <2>4. ended' \in Nat
    BY <1>2 DEF Server, Heartbeat, SweepSuspend, ClientRequest, ExtractSidecar,
       EndSelect, FinalizeSession, RequestSegment, ServeSegment
  <2> QED BY <2>1, <2>2, <2>3, <2>4 DEF ExtentInv
<1>3. CASE CooldownElapses
  <2>1. UNCHANGED <<ended, closing, pc, runs, ctl, requests, sweeps>>
    BY <1>3 DEF CooldownElapses, rowVars, clientVars
  <2>2. UNCHANGED <<snap, highest, recovery, next, claimed, file>> /\ cooldown' = FALSE
    BY <1>3 DEF CooldownElapses
  <2>3. ExtentInv'
    BY <2>1 DEF ExtentInv
  <2>4. TickTypes'
    BY <2>1, <2>2
  <2>5. PcInv'
    BY <2>1, <2>2
  <2> QED BY <2>1, <2>3, <2>4, <2>5
<1>4. CASE UNCHANGED vars
  <2>1. UNCHANGED <<ended, closing, pc, runs, ctl, requests, sweeps>>
    BY <1>4 DEF vars, rowVars, clientVars
  <2>2. UNCHANGED <<snap, highest, cooldown, recovery, next, claimed, file>>
    BY <1>4 DEF vars, tickVars
  <2>3. ExtentInv'
    BY <2>1 DEF ExtentInv
  <2>4. TickTypes'
    BY <2>1, <2>2
  <2>5. PcInv'
    BY <2>1, <2>2
  <2> QED BY <2>1, <2>3, <2>4, <2>5
<1> QED BY <1>1, <1>2, <1>3, <1>4

\* The initial states satisfy the types.
LEMMA InitTypes == Init => TypeInv
<1> SUFFICES ASSUME Init PROVE TypeInv
  OBVIOUS
<1>1. row \in RowType
  BY DEF Init, NewRow, RowType, Statuses, LiveStatuses, SeekValues, RungValues
<1>2. runs \in Seq(RunType) /\ ExtentInv
  BY DEF Init, ExtentInv
<1>3. TickTypes
  <2>1. recovery \in [retries : 0 .. MaxHardwareRetries, software : BOOLEAN]
    BY ThresholdAssumption DEF Init
  <2>2. snap = NULL /\ claimed \in SeekValues /\ highest = -1 /\ cooldown = FALSE /\ file = 0
    BY DEF Init, SeekValues
  <2>3. next \in RestartType
    BY NoRestartTyped DEF Init
  <2>4. ctl \in [stopped : BOOLEAN, released : BOOLEAN, pruned : BOOLEAN]
    BY DEF Init, FreshCtl
  <2> QED BY <2>1, <2>2, <2>3, <2>4 DEF TickTypes
<1>4. PcInv /\ pc \in PcStates
  BY DEF Init, PcInv, PcStates, NoRunYet, BetweenRuns, InTick
<1>5. requests \in 0 .. MaxRequests /\ sweeps \in 0 .. MaxSweeps
  BY BoundsAssumption DEF Init
<1> QED BY <1>1, <1>2, <1>3, <1>4, <1>5, RestIsEnough DEF Rest, Init

\* Types, extents and program points are an invariant of the session.
LEMMA TypeInvInductive == TypeInv /\ [Next]_vars => TypeInv'
<1>1. CASE TypeInv /\ Next
  <2>1. row' \in RowType
    BY <1>1, RowTyped
  <2>2. Rest'
    BY <1>1, WorkerTypes, EnvironmentTypes DEF Next, Finished
  <2> QED BY <2>1, <2>2, RestIsEnough
<1>2. CASE TypeInv /\ UNCHANGED vars
  <2>1. Rest' /\ row' \in RowType
    BY <1>2, EnvironmentTypes DEF vars, rowVars, TypeInv, TypeOK
  <2> QED BY <2>1, RestIsEnough
<1> QED BY <1>1, <1>2

\* The inductive type invariant holds in every reachable state.
LEMMA TypeInvariance == Spec => []TypeInv
  BY InitTypes, TypeInvInductive, PTL DEF Spec

\* Every variable keeps its type, whatever the length of the source, the ladder,
\* the thresholds and the number of enders: in particular a live-edge restart
\* never has an origin past the end of the source.
THEOREM TypesInvariant == Spec => []TypeOK
<1>1. TypeInv => TypeOK
  BY DEF TypeInv
<1> QED BY <1>1, TypeInvariance, PTL

-----------------------------------------------------------------------------
(* The session's one end.                                                  *)

\* No step separates the playback.ended events from the closing of the row.
LEMMA EndedStep ==
  ASSUME TypeInv, EndedExactlyOnce, [Next]_vars
  PROVE EndedExactlyOnce'
<1>1. CASE UNCHANGED vars
  BY <1>1 DEF vars, rowVars, EndedExactlyOnce, Live
<1>2. CASE RowKept
  BY <1>2 DEF RowKept, Keeps, EndedExactlyOnce
<1>3. CASE RowClosed
  <2>1. PICK terminal \in TerminalStatuses :
          /\ row' = CloseRow(row, terminal)
          /\ ended' = IF Live(row) THEN ended + 1 ELSE ended
    BY <1>3 DEF RowClosed
  <2>2. ~Live(row)'
    BY <2>1, CloseRowCloses DEF TypeInv, TypeOK, Live
  <2> QED BY <2>1, <2>2 DEF EndedExactlyOnce
<1> QED BY <1>1, <1>2, <1>3, RowMoves

\* However many DELETE handlers and sweeps race the worker's markSessionFailed,
\* playback.ended is written exactly once, in the step that closes the row.
THEOREM EndedOnceTheorem == Spec => []EndedExactlyOnce
<1>1. Init => EndedExactlyOnce
  BY DEF Init, EndedExactlyOnce, NewRow, Live, LiveStatuses
<1>2. TypeInv /\ EndedExactlyOnce /\ [Next]_vars => EndedExactlyOnce'
  BY EndedStep
<1> QED BY <1>1, <1>2, TypeInvariance, PTL DEF Spec

\* No statement of the server or of the worker writes a closed row.
THEOREM ClosedIsFinalTheorem == Spec => ClosedIsFinal
<1>1. TypeInv /\ [Next]_vars => [~Live(row) => UNCHANGED row]_vars
  <2> SUFFICES ASSUME TypeInv, Next, ~Live(row) PROVE UNCHANGED row
    OBVIOUS
  <2>1. CASE RowKept
    BY <2>1 DEF RowKept, Keeps
  <2>2. CASE RowClosed
    BY <2>2, CloseRowCloses DEF RowClosed, TypeInv, TypeOK
  <2> QED BY <2>1, <2>2, RowMoves
<1> QED BY <1>1, TypeInvariance, PTL DEF Spec, ClosedIsFinal

\* Every step of the session is a step of the lifecycle or leaves it alone.
LEMMA LifecycleStep ==
  ASSUME TypeInv, [Next]_vars
  PROVE [LifecycleSpec!LifecycleNext]_<<row.status, ended>>
<1> USE DEF LifecycleSpec!LifecycleNext, LifecycleSpec!Pick, LifecycleSpec!Play,
            LifecycleSpec!Close, LifecycleSpec!Playing, LifecycleSpec!Closed
<1>0. row \in RowType
  BY DEF TypeInv, TypeOK
<1>1. CASE UNCHANGED vars
  BY <1>1 DEF vars, rowVars
<1>2. CASE RowKept
  <2>1. CASE Live(row)
    BY <1>2, <2>1 DEF RowKept, Keeps, StatusMove, Live, LiveStatuses
  <2>2. CASE ~Live(row)
    BY <1>2, <2>2 DEF RowKept, Keeps
  <2> QED BY <2>1, <2>2
<1>3. CASE RowClosed
  <2>1. PICK terminal \in TerminalStatuses :
          /\ row' = CloseRow(row, terminal)
          /\ ended' = IF Live(row) THEN ended + 1 ELSE ended
    BY <1>3 DEF RowClosed
  <2>2. CASE Live(row)
    <3>1. row'.status = terminal
      BY <1>0, <2>1, <2>2, CloseRowCloses
    <3> QED BY <2>1, <2>2, <3>1 DEF Live, LiveStatuses, TerminalStatuses
  <2>3. CASE ~Live(row)
    BY <1>0, <2>1, <2>3, CloseRowCloses
  <2> QED BY <2>2, <2>3
<1> QED BY <1>1, <1>2, <1>3, RowMoves

\* The session, with all its processes and races, implements SessionLifecycle.
THEOREM LifecycleTheorem == Spec => ImplementsLifecycle
<1>1. Init => LifecycleSpec!LifecycleInit
  BY DEF Init, NewRow, LifecycleSpec!LifecycleInit
<1>2. TypeInv /\ [Next]_vars => [LifecycleSpec!LifecycleNext]_<<row.status, ended>>
  BY LifecycleStep
<1> QED BY <1>1, <1>2, TypeInvariance, PTL
        DEF Spec, ImplementsLifecycle, LifecycleSpec!Lifecycle

-----------------------------------------------------------------------------
(* One process at a time.                                                  *)

\* Changing the state of one process leaves the others' alone.
LEMMA OneProcess ==
  ASSUME TypeInv, NEW i \in DOMAIN runs, NEW st,
         runs' = [runs EXCEPT ![i] = [runs[i] EXCEPT !.st = st]]
  PROVE /\ DOMAIN runs' = DOMAIN runs
        /\ CurIndex' = CurIndex
        /\ \A j \in DOMAIN runs : Exited(runs'[j]) <=> IF j = i THEN st \in ExitStates
                                                            ELSE Exited(runs[j])
<1>1. /\ runs \in Seq(RunType)
      /\ \A j \in DOMAIN runs : runs[j] \in RunType
  BY DEF TypeInv, TypeOK
<1>2. DOMAIN runs' = DOMAIN runs /\ Len(runs') = Len(runs)
  BY <1>1
<1>3. \A j \in DOMAIN runs : runs'[j].st = IF j = i THEN st ELSE runs[j].st
  BY <1>1 DEF RunType
<1> QED BY <1>2, <1>3 DEF Exited, CurIndex

\* The row statements of a running tick close nothing.
LEMMA KeptAtTick ==
  ASSUME TypeInv, Next, ended' = ended
  PROVE Keeps(row, row')
<1>1. CASE RowKept
  BY <1>1 DEF RowKept
<1>2. CASE RowClosed
  <2>1. row \in RowType /\ ended \in Nat
    BY DEF TypeInv, TypeOK
  <2>2. ~Live(row)
    BY <1>2, <2>1 DEF RowClosed
  <2> QED BY <1>2, <2>1, <2>2, CloseRowCloses, KeepsReflexive DEF RowClosed
<1> QED BY <1>1, <1>2, RowMoves

\* A closed row stays closed.
LEMMA ClosedStays ==
  ASSUME TypeInv, Next, ~Live(row)
  PROVE ~Live(row')
<1>1. CASE RowKept
  BY <1>1 DEF RowKept, Keeps
<1>2. CASE RowClosed
  BY <1>2, CloseRowCloses DEF RowClosed, TypeInv, TypeOK
<1> QED BY <1>1, <1>2, RowMoves

\* A step that changes no process state.
LEMMA SettledFrame ==
  ASSUME TypeInv, SettledInv, Keeps(row, row') \/ row' = row,
         DOMAIN runs' = DOMAIN runs, CurIndex' = CurIndex,
         \A j \in DOMAIN runs : runs'[j].st = runs[j].st,
         pc' \in BetweenRuns => pc \in BetweenRuns \/ Exited(Cur) \/ runs = <<>>,
         pc' \in {"teardown", "awaitTeardown", "done"} => ~Live(row)
  PROVE SettledInv'
<1>1. \A j \in DOMAIN runs : Exited(runs'[j]) <=> Exited(runs[j])
  BY DEF Exited
<1>2. (\A j \in DOMAIN runs : ~Exited(runs[j]) => j = CurIndex)'
  BY <1>1 DEF SettledInv
<1>3. (pc \in BetweenRuns => \A j \in DOMAIN runs : Exited(runs[j]))'
  BY <1>1 DEF SettledInv, Cur
<1>4. (pc \in {"teardown", "awaitTeardown", "done"} => ~Live(row))'
  BY DEF Keeps
<1> QED BY <1>2, <1>3, <1>4 DEF SettledInv

\* What a tick does to the history: at most the current run's list grows.
LEMMA TickFolds ==
  ASSUME TypeInv, Tick
  PROVE /\ DOMAIN runs' = DOMAIN runs /\ Len(runs') = Len(runs)
        /\ CurIndex \in DOMAIN runs
        /\ \A j \in DOMAIN runs : /\ runs'[j].st = runs[j].st
                                  /\ runs'[j].start = runs[j].start
                                  /\ runs'[j].origin = runs[j].origin
                                  /\ runs'[j].seek = runs[j].seek
                                  /\ j # CurIndex => runs'[j].listed = runs[j].listed
        /\ \/ runs' = runs /\ highest' = highest
           \/ /\ runs'[CurIndex].listed = Cur.out
              /\ highest' = IF Cur.out > 0 THEN Max2(highest, Cur.start + Cur.out - 1)
                                           ELSE highest
<1>1. runs \in Seq(RunType) /\ CurIndex \in DOMAIN runs /\ Cur \in RunType
  BY CurIsRun DEF Tick, TypeInv, TypeOK, PcInv, NoRunYet, BetweenRuns
<1>2. CASE ~Live(row)
  BY <1>1, <1>2 DEF Tick
<1>3. CASE Live(row)
  <2>1. runs' = [runs EXCEPT ![CurIndex] = [Cur EXCEPT !.listed = Cur.out]]
    BY <1>3 DEF Tick, Cur
  <2>2. /\ DOMAIN runs' = DOMAIN runs /\ Len(runs') = Len(runs)
        /\ runs'[CurIndex] = [Cur EXCEPT !.listed = Cur.out]
        /\ \A j \in DOMAIN runs : j # CurIndex => runs'[j] = runs[j]
    BY <1>1, <2>1
  <2>3. LET new == [Cur EXCEPT !.listed = Cur.out]
        IN /\ new.st = Cur.st /\ new.start = Cur.start /\ new.origin = Cur.origin
           /\ new.seek = Cur.seek /\ new.listed = Cur.out
    BY <1>1 DEF RunType
  <2>4. highest' = IF Cur.out > 0 THEN Max2(highest, Cur.start + Cur.out - 1) ELSE highest
    BY <1>3 DEF Tick
  <2> QED BY <1>1, <2>2, <2>3, <2>4 DEF Cur
<1> QED BY <1>2, <1>3

\* One worker step keeps the census of processes.
LEMMA WorkerSettles ==
  ASSUME TypeInv, SettledInv, Worker
  PROVE SettledInv'
<1>0. Next /\ runs \in Seq(RunType) /\ row \in RowType
  BY DEF Next, TypeInv, TypeOK
<1>1. CASE BeginJob
  <2>1. runs = <<>>
    BY <1>1 DEF BeginJob, TypeInv, PcInv, NoRunYet
  <2> QED BY <1>1, <2>1, SettledFrame DEF BeginJob, rowVars, CurIndex, Cur
<1>2. CASE StartSession
  <2>1. runs = <<>>
    BY <1>2 DEF StartSession, TypeInv, PcInv, NoRunYet
  <2> QED BY <1>0, <1>2, <2>1, SettledFrame, WorkerStatementsKeep DEF StartSession, CurIndex
<1>3. CASE SpawnRun
  <2>1. PICK new : runs' = Append(runs, new) /\ new.st = "live"
    BY <1>3 DEF SpawnRun
  <2>2. \A j \in DOMAIN runs : Exited(runs[j])
    BY <1>3 DEF SpawnRun, SettledInv, BetweenRuns
  <2>3. CurIndex' = CurIndex + 1 /\ \A j \in DOMAIN runs' : j # CurIndex' => runs'[j] = runs[j]
    BY <1>0, <2>1 DEF CurIndex
  <2>4. \A j \in DOMAIN runs' : j # CurIndex' => j \in DOMAIN runs
    BY <1>0, <2>1 DEF CurIndex
  <2>5. pc' = "recordRun"
    BY <1>3 DEF SpawnRun
  <2> QED BY <2>2, <2>3, <2>4, <2>5 DEF SettledInv, BetweenRuns, Exited
<1>20. CASE RecordRun
  <2>1. pc' = "recordRung" /\ row' = row
    BY <1>20 DEF RecordRun, rowVars
  <2>2. /\ DOMAIN runs' = DOMAIN runs /\ CurIndex' = CurIndex
        /\ \A j \in DOMAIN runs : runs'[j].st = runs[j].st
    BY <1>20, RecordingKeeps DEF CurIndex
  <2> QED BY <2>1, <2>2 DEF SettledInv, BetweenRuns, Exited
<1>4. CASE RecordRung \/ FinishRestart \/ Publish \/ AbsorbSeek \/ SeekUpdate \/ RungUpdate
  <2>1. Keeps(row, row')
    <3>1. ended' = ended
      BY <1>4 DEF RecordRung, FinishRestart, Publish, AbsorbSeek, SeekUpdate, RungUpdate
    <3> QED BY <1>0, <3>1, KeptAtTick
  <2>2. runs' = runs
    BY <1>4 DEF RecordRung, FinishRestart, Publish, AbsorbSeek, SeekUpdate, RungUpdate
  <2>3. pc' \notin BetweenRuns \cup {"teardown", "awaitTeardown", "done"}
    BY <1>4 DEF RecordRung, FinishRestart, Publish, AbsorbSeek, SeekUpdate, RungUpdate,
       AfterSeek, AfterSeekBlock, AfterRung, BetweenRuns
  <2> QED BY <2>1, <2>2, <2>3, SettledFrame DEF CurIndex
<1>5. CASE Tick
  <2>1. DOMAIN runs' = DOMAIN runs /\ Len(runs') = Len(runs)
    BY <1>5, TickFolds
  <2>2. \A j \in DOMAIN runs : runs'[j].st = runs[j].st
    BY <1>5, TickFolds
  <2>3. row' = row /\ pc' \notin BetweenRuns
    BY <1>5 DEF Tick, rowVars, BetweenRuns
  <2>4. pc' \in {"teardown", "awaitTeardown", "done"} => ~Live(row)
    BY <1>5 DEF Tick
  <2> QED BY <2>1, <2>2, <2>3, <2>4, SettledFrame DEF CurIndex
<1>6. CASE WritePlaylist \/ ExitCheck \/ Recover \/ ConsumeSeek \/ SeekSelect \/ Handoff
           \/ DeferHandoff \/ RungSelect \/ Released
  <2>1. runs' = runs /\ row' = row
    BY <1>6 DEF WritePlaylist, ExitCheck, Recover, ConsumeSeek, SeekSelect, Handoff,
       DeferHandoff, RungSelect, Released, rowVars
  <2>2. pc' \notin BetweenRuns \cup {"teardown", "awaitTeardown", "done"}
    BY <1>6 DEF WritePlaylist, ExitCheck, Recover, ConsumeSeek, SeekSelect, Handoff,
       DeferHandoff, RungSelect, Released, AfterSeek, AfterSeekBlock, AfterExitBlock,
       AfterRung, BetweenRuns
  <2> QED BY <2>1, <2>2, SettledFrame DEF CurIndex
<1>7. CASE GiveUp \/ RestartReady
  <2>1. runs' = runs /\ row' = row /\ Exited(Cur)
    BY <1>7 DEF GiveUp, RestartReady, rowVars, Exited, ExitStates
  <2>2. pc' \notin {"teardown", "awaitTeardown", "done"}
    BY <1>7 DEF GiveUp, RestartReady
  <2> QED BY <2>1, <2>2, SettledFrame DEF CurIndex
<1>8. CASE Terminate
  <2>1. CurIndex \in DOMAIN runs /\ Cur = runs[CurIndex]
    BY <1>8, CurIsRun DEF Terminate, TerminateWaits, TypeInv, PcInv, NoRunYet, BetweenRuns, Cur
  <2>2. runs' = [runs EXCEPT ![CurIndex] = [runs[CurIndex] EXCEPT
                   !.st = IF Exited(Cur) THEN Cur.st ELSE "dying"]]
    BY <1>8, <2>1 DEF Terminate
  <2>3. pc' \notin BetweenRuns /\ row' = row
    BY <1>8 DEF Terminate, TerminateWaits, BetweenRuns, rowVars
  <2>4. pc' \in {"teardown", "awaitTeardown", "done"} => pc = "teardown"
    BY <1>8 DEF Terminate, TerminateWaits
  <2>5. DOMAIN runs' = DOMAIN runs /\ CurIndex' = CurIndex
    BY <2>1, <2>2, OneProcess
  <2>6. \A j \in DOMAIN runs : j # CurIndex => (Exited(runs'[j]) <=> Exited(runs[j]))
    BY <2>1, <2>2, OneProcess
  <2> QED BY <2>3, <2>4, <2>5, <2>6 DEF SettledInv
<1>9. CASE TeardownDone
  <2>1. runs' = runs /\ row' = row /\ Exited(Cur) /\ ~Live(row)
    BY <1>9 DEF TeardownDone, rowVars, SettledInv
  <2> QED BY <2>1, SettledFrame DEF CurIndex
<1>10. CASE FailSelect
  <2>1. /\ runs' = runs /\ row' = row /\ pc \in BetweenRuns
        /\ pc' \in {"teardown", "awaitTeardown", "done"} => ~Live(row)
    BY <1>10 DEF FailSelect, rowVars, BetweenRuns
  <2> QED BY <2>1, SettledFrame DEF CurIndex
<1>11. CASE FailUpdate
  <2>1. runs' = runs /\ pc \in BetweenRuns /\ row' = CloseRow(row, "failed")
    BY <1>11 DEF FailUpdate, BetweenRuns
  <2>2. ~Live(row')
    BY <1>0, <2>1, CloseRowCloses DEF TerminalStatuses
  <2> QED BY <2>1, <2>2 DEF SettledInv, CurIndex
<1>12. CASE Throttle
  <2>1. CurIndex \in DOMAIN runs
    BY <1>12, CurIsRun DEF Throttle, TypeInv, PcInv, NoRunYet, BetweenRuns
  <2>2. runs' = runs \/ Signal("live", "stopped") \/ Signal("stopped", "live")
    BY <1>12 DEF Throttle, StopFor, ResumeLive, ResumeReleased
  <2>3. pc' \notin BetweenRuns \cup {"teardown", "awaitTeardown", "done"}
    BY <1>12 DEF Throttle, StopFor, ResumeLive, ResumeReleased, BetweenRuns
  <2>4. CASE runs' = runs
    BY <2>3, <2>4 DEF SettledInv, CurIndex
  <2>5. ASSUME NEW from, NEW to, Signal(from, to) PROVE SettledInv'
    <3>1. runs' = [runs EXCEPT ![CurIndex] = [runs[CurIndex] EXCEPT
                     !.st = IF runs[CurIndex].st = from THEN to ELSE runs[CurIndex].st]]
      BY <2>1, <2>5 DEF Signal
    <3>2. DOMAIN runs' = DOMAIN runs /\ CurIndex' = CurIndex
      BY <2>1, <3>1, OneProcess
    <3>3. \A j \in DOMAIN runs : j # CurIndex => (Exited(runs'[j]) <=> Exited(runs[j]))
      BY <2>1, <3>1, OneProcess
    <3> QED BY <2>3, <3>2, <3>3 DEF SettledInv
  <2> QED BY <2>2, <2>4, <2>5
<1> QED BY <1>1, <1>2, <1>3, <1>4, <1>5, <1>6, <1>7, <1>8, <1>9, <1>10, <1>11, <1>12,
           <1>20 DEF Worker

\* Steps of ffmpeg, the server and the clock keep the census of processes.
LEMMA EnvironmentSettles ==
  ASSUME TypeInv, SettledInv, Ffmpeg \/ Server \/ CooldownElapses \/ UNCHANGED vars
  PROVE SettledInv'
<1>0. runs \in Seq(RunType) /\ row \in RowType
  BY DEF TypeInv, TypeOK
<1>1. CASE Ffmpeg
  <2>1. PICK i \in DOMAIN runs :
          Produce(i) \/ ReachEnd(i) \/ Die(i) \/ ObeyTermination(i)
    BY <1>1 DEF Ffmpeg
  <2>2. row' = row /\ pc' = pc
    BY <2>1 DEF Produce, ReachEnd, Die, ObeyTermination, rowVars
  <2>3. CASE Produce(i)
    <3>1. DOMAIN runs' = DOMAIN runs /\ Len(runs') = Len(runs)
      BY <1>0, <2>3 DEF Produce
    <3>2. \A j \in DOMAIN runs : runs'[j].st = runs[j].st
      BY <1>0, <2>3 DEF Produce, RunType
    <3> QED BY <2>2, <3>1, <3>2, SettledFrame DEF SettledInv, CurIndex
  <2>4. CASE ReachEnd(i) \/ Die(i) \/ ObeyTermination(i)
    <3>1. PICK st \in ExitStates : runs' = [runs EXCEPT ![i] = [runs[i] EXCEPT !.st = st]]
      BY <2>4, ShapeAssumption DEF ReachEnd, Die, ObeyTermination, SetProcess, ExitStates
    <3>2. DOMAIN runs' = DOMAIN runs /\ CurIndex' = CurIndex
      BY <3>1, OneProcess
    <3>3. \A j \in DOMAIN runs : Exited(runs[j]) => Exited(runs'[j])
      BY <3>1, OneProcess
    <3> QED BY <2>2, <3>2, <3>3 DEF SettledInv
  <2> QED BY <2>1, <2>3, <2>4
<1>2. CASE Server
  <2>1. runs' = runs /\ pc' = pc
    BY <1>2 DEF Server, ServerStep, Heartbeat, SweepSuspend, ClientRequest, ExtractSidecar,
       EndSelect, FinalizeSession, RequestSegment, ServeSegment
  <2>2. ~Live(row) => ~Live(row')
    BY <1>2, ClosedStays DEF Next
  <2> QED BY <2>1, <2>2 DEF SettledInv, CurIndex
<1>3. CASE CooldownElapses \/ UNCHANGED vars
  <2>1. runs' = runs /\ pc' = pc /\ row' = row
    BY <1>3 DEF CooldownElapses, vars, rowVars
  <2> QED BY <2>1 DEF SettledInv, CurIndex
<1> QED BY <1>1, <1>2, <1>3

\* The census invariant holds in every reachable state.
LEMMA SettledInvariance == Spec => []SettledInv
<1>1. Init => SettledInv
  BY DEF Init, SettledInv, BetweenRuns
<1>2. TypeInv /\ SettledInv /\ [Next]_vars => SettledInv'
  BY WorkerSettles, EnvironmentSettles DEF Next, Finished
<1> QED BY <1>1, <1>2, TypeInvariance, PTL DEF Spec

\* At no time do two ffmpeg of one session exist, however seeks, handoffs,
\* recoveries, releases and closes interleave with the processes' exits.
THEOREM CensusTheorem == Spec => []ProcessCensus
<1>1. SettledInv => ProcessCensus
  BY DEF SettledInv, ProcessCensus
<1> QED BY <1>1, SettledInvariance, PTL

\* The job never returns leaving an open row or a process behind.
THEOREM DoneTheorem == Spec => []DoneMeansClosed
<1>1. SettledInv => DoneMeansClosed
  BY DEF SettledInv, DoneMeansClosed, BetweenRuns
<1> QED BY <1>1, SettledInvariance, PTL

-----------------------------------------------------------------------------
(* Segment numbers and source time across runs.                            *)

\* Outside SpawnRun and Tick, no run is added, renumbered, moved or relisted.
SameLists ==
  /\ DOMAIN runs' = DOMAIN runs /\ CurIndex' = CurIndex
  /\ \A j \in DOMAIN runs : /\ runs'[j].start = runs[j].start
                            /\ runs'[j].origin = runs[j].origin
                            /\ runs'[j].seek = runs[j].seek
                            /\ runs'[j].listed = runs[j].listed
  /\ highest' = highest

\* Only a spawn and a tick change what the runs list.
LEMMA ListsMove ==
  ASSUME TypeInv, [Next]_vars
  PROVE SpawnRun \/ Tick \/ SameLists
<1>0. runs \in Seq(RunType)
  BY DEF TypeInv, TypeOK
<1>1. CASE runs' = runs /\ highest' = highest
  BY <1>1 DEF SameLists, CurIndex
<1>2. ASSUME NEW i \in DOMAIN runs, NEW st,
             runs' = [runs EXCEPT ![i] = [runs[i] EXCEPT !.st = st]], highest' = highest
      PROVE SameLists
  <2>1. DOMAIN runs' = DOMAIN runs /\ Len(runs') = Len(runs)
    BY <1>0, <1>2
  <2>2. \A j \in DOMAIN runs : j # i => runs'[j] = runs[j]
    BY <1>0, <1>2
  <2>3. runs[i] \in RunType /\ runs'[i] = [runs[i] EXCEPT !.st = st]
    BY <1>0, <1>2
  <2>4. /\ runs'[i].start = runs[i].start /\ runs'[i].origin = runs[i].origin
        /\ runs'[i].seek = runs[i].seek /\ runs'[i].listed = runs[i].listed
    BY <2>3 DEF RunType
  <2> QED BY <1>2, <2>1, <2>2, <2>4 DEF SameLists, CurIndex
<1>3. CASE UNCHANGED vars \/ Server \/ CooldownElapses \/ Finished
  BY <1>1, <1>3 DEF vars, tickVars, CooldownElapses, Finished, Server, ServerStep, Heartbeat,
     SweepSuspend, ClientRequest, ExtractSidecar, EndSelect, FinalizeSession, RequestSegment,
     ServeSegment
<1>4. CASE Ffmpeg
  <2>1. PICK i \in DOMAIN runs :
          Produce(i) \/ ReachEnd(i) \/ Die(i) \/ ObeyTermination(i)
    BY <1>4 DEF Ffmpeg
  <2>2. highest' = highest
    BY <2>1 DEF Produce, ReachEnd, Die, ObeyTermination, tickVars
  <2>3. CASE Produce(i)
    <3>1. runs[i] \in RunType /\ runs' = [runs EXCEPT ![i] = [runs[i] EXCEPT !.out = @ + 1]]
      BY <1>0, <2>3 DEF Produce
    <3>2. /\ DOMAIN runs' = DOMAIN runs /\ Len(runs') = Len(runs)
          /\ runs'[i] = [runs[i] EXCEPT !.out = @ + 1]
          /\ \A j \in DOMAIN runs : j # i => runs'[j] = runs[j]
      BY <1>0, <3>1
    <3>3. /\ runs'[i].start = runs[i].start /\ runs'[i].origin = runs[i].origin
          /\ runs'[i].seek = runs[i].seek /\ runs'[i].listed = runs[i].listed
      BY <3>1, <3>2 DEF RunType
    <3> QED BY <2>2, <3>2, <3>3 DEF SameLists, CurIndex
  <2>4. CASE ReachEnd(i) \/ Die(i) \/ ObeyTermination(i)
    <3>1. PICK st \in ExitStates : runs' = [runs EXCEPT ![i] = [runs[i] EXCEPT !.st = st]]
      BY <2>4, ShapeAssumption DEF ReachEnd, Die, ObeyTermination, SetProcess, ExitStates
    <3> QED BY <1>2, <2>2, <3>1
  <2> QED BY <2>1, <2>3, <2>4
<1>5. CASE Terminate
  <2>1. CurIndex \in DOMAIN runs
    BY <1>5, CurIsRun DEF Terminate, TerminateWaits, TypeInv, PcInv, NoRunYet, BetweenRuns
  <2>2. runs' = [runs EXCEPT ![CurIndex] = [runs[CurIndex] EXCEPT
                   !.st = IF Exited(Cur) THEN @ ELSE "dying"]]
    BY <1>5, <2>1 DEF Terminate
  <2>3. highest' = highest
    BY <1>5 DEF Terminate, tickVars
  <2> QED BY <1>2, <2>1, <2>2, <2>3
<1>6. CASE Throttle
  <2>1. CurIndex \in DOMAIN runs
    BY <1>6, CurIsRun DEF Throttle, TypeInv, PcInv, NoRunYet, BetweenRuns
  <2>2. runs' = runs \/ Signal("live", "stopped") \/ Signal("stopped", "live")
    BY <1>6 DEF Throttle, StopFor, ResumeLive, ResumeReleased
  <2>3. highest' = highest
    BY <1>6 DEF Throttle
  <2>4. ASSUME NEW from, NEW to, Signal(from, to) PROVE SameLists
    <3>1. runs' = [runs EXCEPT ![CurIndex] = [runs[CurIndex] EXCEPT
                     !.st = IF @ = from THEN to ELSE @]]
      BY <2>4 DEF Signal
    <3> QED BY <1>2, <2>1, <2>3, <3>1
  <2> QED BY <1>1, <2>2, <2>3, <2>4
<1>8. CASE RecordRun
  BY <1>8, RecordingKeeps DEF RecordRun, SameLists, CurIndex, tickVars
<1>7. CASE \/ BeginJob \/ StartSession \/ RecordRung \/ FinishRestart \/ Publish
           \/ WritePlaylist \/ ExitCheck \/ GiveUp \/ Recover \/ AbsorbSeek \/ ConsumeSeek
           \/ SeekSelect \/ SeekUpdate \/ Handoff \/ DeferHandoff \/ RungSelect \/ RungUpdate
           \/ RestartReady \/ TeardownDone \/ FailSelect \/ FailUpdate \/ Released
  BY <1>1, <1>7 DEF tickVars, BeginJob, StartSession, RecordRung, FinishRestart, Publish,
     WritePlaylist, ExitCheck, GiveUp, Recover, AbsorbSeek, ConsumeSeek, SeekSelect, SeekUpdate,
     Handoff, DeferHandoff, RungSelect, RungUpdate, RestartReady, TeardownDone, FailSelect,
     FailUpdate, Released
<1> QED BY <1>3, <1>4, <1>5, <1>6, <1>7, <1>8 DEF Next, Worker

\* What a spawn adds.
LEMMA SpawnAppends ==
  ASSUME TypeInv, SpawnRun
  PROVE /\ DOMAIN runs' = DOMAIN runs \cup {CurIndex + 1}
        /\ CurIndex + 1 \notin DOMAIN runs
        /\ CurIndex' = CurIndex + 1 /\ CurIndex \in Nat
        /\ DOMAIN runs = 1 .. CurIndex
        /\ \A j \in DOMAIN runs : runs'[j] = runs[j]
        /\ runs'[CurIndex + 1].start = StartSegment
        /\ runs'[CurIndex + 1].listed = 0
        /\ runs'[CurIndex + 1].seek = next.seek
        /\ ~CopyShape => runs'[CurIndex + 1].origin = next.origin
        /\ highest' = highest
<1>1. runs \in Seq(RunType)
  BY DEF TypeInv, TypeOK
<1>2. PICK origin \in LandingOrigins(next.origin) :
        runs' = Append(runs, [st |-> "live", start |-> StartSegment, origin |-> origin,
                              rung |-> next.rung, seek |-> next.seek, out |-> 0, listed |-> 0, recorded |-> FALSE])
  BY DEF SpawnRun
<1>3. highest' = highest
  BY DEF SpawnRun, tickVars
<1>4. ~CopyShape => origin = next.origin
  BY DEF LandingOrigins
<1> QED BY <1>1, <1>2, <1>3, <1>4 DEF CurIndex

\* The extents of a run are natural numbers.
LEMMA RunNumbers ==
  ASSUME TypeInv, NEW j \in DOMAIN runs
  PROVE /\ runs[j].start \in Nat /\ runs[j].origin \in Nat
        /\ runs[j].listed \in Nat /\ runs[j].out \in Nat
<1>1. runs[j] \in RunType
  BY DEF TypeInv, TypeOK
<1> QED BY <1>1, SourceLenAssumption DEF RunType

\* Spawning a run keeps the numbering.
LEMMA NumberingSpawn ==
  ASSUME TypeInv, NumberingInv, SpawnRun
  PROVE NumberingInv'
<1>1. \A j \in DOMAIN runs : runs[j].start \in Nat /\ runs[j].listed \in Nat
  BY RunNumbers
<1>2. highest \in Int /\ highest + 1 \in Nat
  BY DEF TypeInv, TypeOK
<1>3. \A j \in DOMAIN runs : /\ runs[j].start < StartSegment
                             /\ runs[j].start + runs[j].listed <= StartSegment
  <2> SUFFICES ASSUME NEW j \in DOMAIN runs
               PROVE /\ runs[j].start < StartSegment
                     /\ runs[j].start + runs[j].listed <= StartSegment
    OBVIOUS
  <2>1. runs # <<>> /\ CurIndex \in DOMAIN runs /\ Cur.start \in Nat
    BY <1>1, CurIsRun DEF Cur
  <2>2. StartSegment >= highest + 1 /\ StartSegment >= Cur.start + 1 /\ StartSegment \in Int
    BY <1>2, <2>1 DEF StartSegment, Max2
  <2>3. runs[j].start <= Cur.start
    <3>1. j = CurIndex \/ j < CurIndex
      BY <2>1, SpawnAppends
    <3> QED BY <1>1, <2>1, <3>1 DEF NumberingInv, Cur
  <2>4. runs[j].start < StartSegment
    BY <1>1, <2>1, <2>2, <2>3
  <2>5. runs[j].listed > 0 => runs[j].start + runs[j].listed <= StartSegment
    BY <1>1, <1>2, <2>2 DEF NumberingInv
  <2> QED BY <1>1, <2>2, <2>4, <2>5
<1>4. ASSUME NEW i \in DOMAIN runs', runs'[i].listed > 0
      PROVE runs'[i].start + runs'[i].listed <= highest' + 1
  <2>1. i \in DOMAIN runs
    BY <1>4, SpawnAppends
  <2> QED BY <1>4, <2>1, SpawnAppends DEF NumberingInv
<1>5. ASSUME NEW i \in DOMAIN runs', NEW j \in DOMAIN runs', i < j
      PROVE runs'[i].start < runs'[j].start /\ runs'[i].start + runs'[i].listed <= runs'[j].start
  <2>1. i \in DOMAIN runs
    BY <1>5, SpawnAppends
  <2>2. CASE j \in DOMAIN runs
    BY <1>5, <2>1, <2>2, SpawnAppends DEF NumberingInv
  <2>3. CASE j = CurIndex + 1
    BY <1>3, <2>1, <2>3, SpawnAppends
  <2> QED BY <2>2, <2>3, SpawnAppends
<1> QED BY <1>4, <1>5 DEF NumberingInv

\* A fold of the current run keeps the numbering.
LEMMA NumberingTick ==
  ASSUME TypeInv, NumberingInv, Tick
  PROVE NumberingInv'
<1>1. CurIndex \in DOMAIN runs /\ DOMAIN runs = 1 .. CurIndex /\ CurIndex \in Nat
  BY TickFolds DEF TypeInv, TypeOK, CurIndex
<1>2. \A j \in DOMAIN runs : /\ runs[j].start \in Nat /\ runs[j].listed \in Nat
                             /\ runs[j].out \in Nat
  BY RunNumbers
<1>3. highest \in Int
  BY DEF TypeInv, TypeOK
<1>4. CASE runs' = runs /\ highest' = highest
  BY <1>4 DEF NumberingInv
<1>5. CASE /\ runs'[CurIndex].listed = Cur.out
           /\ highest' = IF Cur.out > 0 THEN Max2(highest, Cur.start + Cur.out - 1) ELSE highest
  <2>1. /\ highest' >= highest /\ highest' \in Int
        /\ Cur.out > 0 => highest' >= Cur.start + Cur.out - 1
    BY <1>1, <1>2, <1>3, <1>5 DEF Max2, Cur
  <2>2. ASSUME NEW i \in DOMAIN runs', runs'[i].listed > 0
        PROVE runs'[i].start + runs'[i].listed <= highest' + 1
    <3>1. i \in DOMAIN runs /\ runs'[i].start = runs[i].start
      BY TickFolds
    <3>2. CASE i = CurIndex
      BY <1>2, <1>5, <2>1, <2>2, <3>1, <3>2 DEF Cur
    <3>3. CASE i # CurIndex
      <4>1. runs'[i].listed = runs[i].listed
        BY <3>1, <3>3, TickFolds
      <4>2. runs[i].start + runs[i].listed <= highest + 1
        BY <2>2, <3>1, <4>1 DEF NumberingInv
      <4> QED BY <1>2, <1>3, <2>1, <3>1, <4>1, <4>2
    <3> QED BY <3>2, <3>3
  <2>3. ASSUME NEW i \in DOMAIN runs', NEW j \in DOMAIN runs', i < j
        PROVE /\ runs'[i].start < runs'[j].start
              /\ runs'[i].start + runs'[i].listed <= runs'[j].start
    <3>1. i \in DOMAIN runs /\ j \in DOMAIN runs /\ i # CurIndex
      BY <1>1, <2>3, TickFolds
    <3>2. /\ runs'[i].start = runs[i].start /\ runs'[j].start = runs[j].start
          /\ runs'[i].listed = runs[i].listed
      BY <3>1, TickFolds
    <3> QED BY <2>3, <3>1, <3>2 DEF NumberingInv
  <2> QED BY <2>2, <2>3 DEF NumberingInv
<1> QED BY <1>4, <1>5, TickFolds

\* The numbering invariant holds in every reachable state.
LEMMA NumberingInvariance == Spec => []NumberingInv
<1>1. Init => NumberingInv
  BY DEF Init, NumberingInv
<1>2. TypeInv /\ NumberingInv /\ [Next]_vars => NumberingInv'
  <2> SUFFICES ASSUME TypeInv, NumberingInv, SameLists PROVE NumberingInv'
    BY ListsMove, NumberingSpawn, NumberingTick
  <2> QED BY DEF NumberingInv, SameLists
<1> QED BY <1>1, <1>2, TypeInvariance, PTL DEF Spec

\* A non-empty set of indexes has a greatest one.
LEMMA HighestOf ==
  ASSUME NEW k \in Nat, NEW S, S \subseteq 1 .. k, S # {}
  PROVE \E x \in S : \A y \in S : y <= x
<1> DEFINE T == {n .. k : n \in S}
<1>1. T \subseteq FiniteSubsetsOf(Nat) /\ T # {}
  <2>1. \A n \in S : n .. k \subseteq Nat /\ IsFiniteSet(n .. k)
    BY FS_Interval
  <2> QED BY <2>1 DEF FiniteSubsetsOf
<1>2. PICK t \in T : \A u \in T : ~(<<u, t>> \in StrictSubsetOrdering(Nat))
  <2> HIDE DEF T
  <2> QED BY <1>1, FS_StrictSubsetOrderingWellFounded, WFMin
<1>3. PICK x \in S : t = x .. k
  OBVIOUS
<1>4. ASSUME NEW y \in S, x < y PROVE FALSE
  <2>1. y .. k \subseteq x .. k /\ x \notin y .. k /\ x \in x .. k /\ y .. k \in T
    BY <1>4
  <2>2. <<y .. k, x .. k>> \in StrictSubsetOrdering(Nat)
    BY <1>1, <1>3, <2>1 DEF StrictSubsetOrdering
  <2> QED BY <1>2, <1>3, <2>1, <2>2
<1> QED BY <1>4

\* The server never takes a listed segment for a later run's, whichever rows of
\* transcode_runs were lost, and finds the very run wherever its row was written, for
\* any number of restarts.
THEOREM OwnershipTheorem == Spec => []ListedSegmentsOwned
<1>1. TypeInv /\ NumberingInv => ListedSegmentsOwned
  <2> SUFFICES ASSUME TypeInv, NumberingInv, NEW i \in DOMAIN runs,
                      NEW k \in 0 .. runs[i].listed - 1
               PROVE /\ OwningRun(runs[i].start + k) <= i
                     /\ runs[i].recorded => OwningRun(runs[i].start + k) = i
    BY DEF ListedSegmentsOwned
  <2> DEFINE n == runs[i].start + k
             starting == {j \in DOMAIN runs : runs[j].recorded /\ runs[j].start <= n}
             Owns(o) == \A j \in starting : runs[j].start <= runs[o].start
  <2>1. \A j \in DOMAIN runs : runs[j].start \in Nat /\ runs[j].listed \in Nat
    BY RunNumbers
  <2>2. DOMAIN runs = 1 .. Len(runs) /\ Len(runs) \in Nat
    BY DEF TypeInv, TypeOK
  <2>3. n \in Nat /\ runs[i].start <= n /\ n < runs[i].start + runs[i].listed
    BY <2>1
  <2>4. \A j \in starting : j \in 1 .. i
    <3> SUFFICES ASSUME NEW j \in starting, i < j PROVE FALSE
      BY <2>2
    <3> QED BY <2>1, <2>3 DEF NumberingInv
  <2>5. \A j, o \in DOMAIN runs : j < o => runs[j].start < runs[o].start
    BY DEF NumberingInv
  <2>6. OwningRun(n) = IF starting = {} THEN 0 ELSE CHOOSE o \in starting : Owns(o)
    BY DEF OwningRun
  <2>7. CASE starting = {}
    <3>1. ~runs[i].recorded
      BY <2>3, <2>7
    <3> QED BY <2>2, <2>6, <2>7, <3>1
  <2>8. CASE starting # {}
    <3>1. \E o \in starting : Owns(o)
      <4>1. \E o \in starting : \A j \in starting : j <= o
        <5>1. starting \subseteq 1 .. i /\ i \in Nat
          BY <2>2, <2>4
        <5> HIDE DEF starting
        <5> QED BY <2>8, <5>1, HighestOf
      <4>2. PICK o \in starting : \A j \in starting : j <= o
        BY <4>1
      <4>3. \A j \in starting : runs[j].start <= runs[o].start
        <5> SUFFICES ASSUME NEW j \in starting PROVE runs[j].start <= runs[o].start
          OBVIOUS
        <5>1. j = o \/ j < o
          BY <2>2, <4>2
        <5> QED BY <2>1, <2>5, <5>1
      <4> QED BY <4>3
    <3> DEFINE own == CHOOSE o \in starting : Owns(o)
    <3>2. own \in starting /\ Owns(own)
      BY <3>1
    <3>5. OwningRun(n) = own
      BY <2>6, <2>8
    <3> HIDE DEF own
    <3>3. own \in 1 .. i
      BY <2>4, <3>2
    <3>4. runs[i].recorded => own = i
      <4> SUFFICES ASSUME runs[i].recorded, own < i PROVE FALSE
        BY <2>2, <3>3
      <4>1. runs[i].start <= runs[own].start
        BY <2>3, <3>2
      <4> QED BY <2>1, <2>2, <2>5, <3>2, <4>1
    <3> QED BY <2>2, <3>3, <3>4, <3>5
  <2> QED BY <2>7, <2>8
<1> QED BY <1>1, TypeInvariance, NumberingInvariance, PTL

\* The restart block keeps the live edge until it claims a seek.
LEMMA EdgeStep ==
  ASSUME TypeInv, EdgeInv, [Next]_vars
  PROVE EdgeInv'
<1> DEFINE Edge == Cur.origin + Cur.listed
<1>1. CASE SpawnRun \/ Tick
  BY <1>1 DEF SpawnRun, Tick, EdgeInv, Restarting
<1>2. CASE SameLists
  <2>0. runs' # <<>> => runs # <<>> /\ CurIndex \in DOMAIN runs
    BY <1>2, CurIsRun DEF SameLists, CurIndex, TypeInv, TypeOK
  <2>1. runs' # <<>> => Edge' = Edge
    BY <1>2, <2>0 DEF SameLists, Cur
  <2>2. CASE Recover \/ ConsumeSeek \/ Handoff \/ (Throttle /\ pc' \in Restarting)
    <3>1. \E cause \in Restarts : next' = Continuation(cause)
      BY <2>2 DEF Recover, ConsumeSeek, Handoff, Throttle, StopFor, ResumeLive,
         ResumeReleased, Restarts, Restarting
    <3>2. next'.origin = Edge
      BY <3>1 DEF Continuation
    <3> QED BY <2>1, <3>2 DEF EdgeInv
  <2>3. CASE SeekUpdate
    <3>1. CASE next' = next
      BY <2>1, <2>0, <2>3, <3>1 DEF SeekUpdate, EdgeInv, Restarting
    <3>2. CASE next' = [next EXCEPT !.origin = claimed, !.seek = claimed]
      <4>1. claimed # NULL
        BY <2>3, TargetsAssumption, NullAssumption DEF SeekUpdate, TypeInv, PcInv
      <4>2. next'.seek = claimed
        BY <3>2 DEF TypeInv, TypeOK, RestartType
      <4> QED BY <4>1, <4>2 DEF EdgeInv
    <3> QED BY <2>3, <3>1, <3>2 DEF SeekUpdate
  <2>4. CASE RungUpdate
    <3>1. next'.origin = next.origin /\ next'.seek = next.seek
      BY <2>4 DEF RungUpdate, TypeInv, TypeOK, RestartType
    <3> QED BY <2>0, <2>1, <2>4, <3>1 DEF RungUpdate, EdgeInv, Restarting
  <2>5. CASE SeekSelect \/ RungSelect \/ RestartReady
    BY <2>0, <2>1, <2>5 DEF SeekSelect, RungSelect, RestartReady, tickVars, EdgeInv, Restarting
  <2>6. CASE Terminate
    <3>1. next' = next /\ (pc' \in Restarting => pc = "kill")
      BY <2>6 DEF Terminate, TerminateWaits, tickVars, Restarting
    <3> QED BY <2>0, <2>1, <3>1 DEF EdgeInv, Restarting
  <2>7. CASE Ffmpeg \/ Server \/ CooldownElapses \/ Finished \/ UNCHANGED vars
    <3>1. next' = next /\ pc' = pc
      BY <2>7 DEF Ffmpeg, Produce, ReachEnd, Die, ObeyTermination, CooldownElapses, Finished,
         vars, tickVars, Server, ServerStep, Heartbeat, SweepSuspend, ClientRequest,
         ExtractSidecar, EndSelect, FinalizeSession, RequestSegment, ServeSegment
    <3> QED BY <2>0, <2>1, <3>1 DEF EdgeInv
  <2>8. CASE StartSession
    <3>1. runs = <<>>
      BY <2>8 DEF StartSession, TypeInv, PcInv, NoRunYet
    <3> QED BY <2>0, <3>1 DEF EdgeInv
  <2>9. CASE \/ BeginJob \/ RecordRun \/ RecordRung \/ FinishRestart \/ Publish \/ WritePlaylist \/ ExitCheck
             \/ GiveUp \/ AbsorbSeek \/ DeferHandoff \/ TeardownDone \/ FailSelect \/ FailUpdate
             \/ Released \/ (Throttle /\ pc' \notin Restarting)
    <3>1. pc' \notin Restarting
      BY <2>9 DEF BeginJob, RecordRun, RecordRung, FinishRestart, Publish, WritePlaylist, ExitCheck, GiveUp,
         AbsorbSeek, DeferHandoff, TeardownDone, FailSelect, FailUpdate, Released,
         AfterExitBlock, AfterSeekBlock, Restarting
    <3> QED BY <3>1 DEF EdgeInv
  <2> QED BY <1>2, <2>2, <2>3, <2>4, <2>5, <2>6, <2>7, <2>8, <2>9, ListsMove, <1>1
          DEF Next, Worker
<1> QED BY <1>1, <1>2, ListsMove

\* The live-edge invariant holds in every reachable state.
LEMMA EdgeInvariance == Spec => []EdgeInv
<1>1. Init => EdgeInv
  BY DEF Init, EdgeInv
<1>2. TypeInv /\ EdgeInv /\ [Next]_vars => EdgeInv'
  BY EdgeStep
<1> QED BY <1>1, <1>2, TypeInvariance, PTL DEF Spec

\* A run spawned without a seek starts where the listed output of its predecessor ends.
LEMMA SeamlessStep ==
  ASSUME TypeInv, EdgeInv, SeamlessContinuation, ~CopyShape, [Next]_vars
  PROVE SeamlessContinuation'
<1>1. CASE SameLists
  <2> SUFFICES ASSUME NEW i \in DOMAIN runs, i > 1, runs[i].seek = NULL
               PROVE /\ i - 1 \in DOMAIN runs
                     /\ runs[i].origin = runs[i - 1].origin + runs[i - 1].listed
    BY <1>1 DEF SameLists, SeamlessContinuation
  <2> QED BY DEF SeamlessContinuation, TypeInv, TypeOK
<1>2. CASE Tick
  <2> SUFFICES ASSUME NEW i \in DOMAIN runs, i > 1, runs[i].seek = NULL
               PROVE /\ i - 1 \in DOMAIN runs /\ i - 1 # CurIndex
                     /\ runs[i].origin = runs[i - 1].origin + runs[i - 1].listed
    BY <1>2, TickFolds DEF SeamlessContinuation
  <2> QED BY DEF SeamlessContinuation, TypeInv, TypeOK, CurIndex
<1>3. CASE SpawnRun
  <2> SUFFICES ASSUME NEW i \in DOMAIN runs', i > 1, runs'[i].seek = NULL
               PROVE runs'[i].origin = runs'[i - 1].origin + runs'[i - 1].listed
    BY DEF SeamlessContinuation
  <2>1. CASE i \in DOMAIN runs
    <3>1. i - 1 \in DOMAIN runs
      BY <2>1 DEF TypeInv, TypeOK
    <3> QED BY <1>3, <2>1, <3>1, SpawnAppends DEF SeamlessContinuation
  <2>2. CASE i = CurIndex + 1
    <3>1. i - 1 = CurIndex /\ CurIndex \in DOMAIN runs /\ runs # <<>>
      BY <1>3, <2>2, SpawnAppends DEF CurIndex
    <3>2. next.seek = NULL /\ runs'[i].origin = next.origin
      BY <1>3, <2>2, SpawnAppends
    <3>3. next.origin = Cur.origin + Cur.listed
      BY <1>3, <3>1, <3>2 DEF SpawnRun, EdgeInv, Restarting
    <3> QED BY <1>3, <3>1, <3>2, <3>3, SpawnAppends DEF Cur
  <2> QED BY <1>3, <2>1, <2>2, SpawnAppends
<1> QED BY <1>1, <1>2, <1>3, ListsMove

\* Handoffs, recoveries and releases skip and repeat no source time, whatever
\* the process wrote between the last fold and its exit.
THEOREM SeamlessTheorem == Spec => []SeamlessContinuation
<1>1. Init => SeamlessContinuation
  BY DEF Init, SeamlessContinuation
<1>2. TypeInv /\ EdgeInv /\ SeamlessContinuation /\ [Next]_vars => SeamlessContinuation'
  BY SeamlessStep DEF SeamlessContinuation
<1> QED BY <1>1, <1>2, TypeInvariance, EdgeInvariance, PTL DEF Spec
=============================================================================
