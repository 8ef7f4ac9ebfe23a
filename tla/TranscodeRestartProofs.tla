------------------------ MODULE TranscodeRestartProofs ------------------------
(***************************************************************************)
(* Machine-checked proofs about the two requests a restart answers, a seek *)
(* and a rung switch, on top of what TranscodeSessionProofs proves.        *)
(***************************************************************************)
EXTENDS TranscodeSessionProofs

-----------------------------------------------------------------------------
(* What a statement may do to a pending rung and to a row held for a seek. *)

\* Neither a request nor the worker's other statements clear a pending rung, or
\* take a row out of 'seeking' but to close it.
Pends(r, s) == s.pending = NULL => r.pending = NULL
Holds(r, s) == r.status \in HeldStatuses => s.status \in HeldStatuses
Steady(r, s) == Pends(r, s) /\ Holds(r, s)

LEMMA WorkerStatementsSteady ==
  ASSUME NEW r \in RowType
  PROVE /\ Steady(r, r)
        /\ Steady(r, MarkSessionStarting(r))
        /\ \A n \in Nat : Pends(r, MarkSessionActive(r, n))
        /\ \A n \in Nat : Steady(r, UpdateProducedSegment(r, n))
        /\ \A b \in BOOLEAN : Steady(r, SetThrottleSuspended(r, b))
        /\ Steady(r, ClearThrottleSuspendedOnRestart(r))
        /\ Steady(r, ClaimSeekTarget(r))
        /\ \A v : Steady(r, AbsorbSeekTarget(r, v))
        /\ Steady(r, EnsureSessionStagingDir(r))
        /\ \A k \in Rungs : Holds(r, RecordActiveRungIndex(r, k))
        /\ \A v : Holds(r, ClaimPendingRung(r, v))
        /\ \A terminal \in TerminalStatuses : Steady(r, CloseRow(r, terminal))
<1> USE DEF Steady, Pends, Holds, HeldStatuses, TerminalStatuses, RowType
<1>1. Steady(r, MarkSessionStarting(r))
  <2>1. CASE r.status = "created"
    <3>1. MarkSessionStarting(r) = [r EXCEPT !.status = "starting", !.staging = TRUE]
      BY <2>1 DEF MarkSessionStarting
    <3> QED BY <2>1, <3>1
  <2>2. CASE r.status # "created"
    BY <2>2 DEF MarkSessionStarting
  <2> QED BY <2>1, <2>2
<1>2. ASSUME NEW n \in Nat
      PROVE Pends(r, MarkSessionActive(r, n)) /\ Steady(r, UpdateProducedSegment(r, n))
  BY DEF MarkSessionActive, UpdateProducedSegment
<1>3. ASSUME NEW b \in BOOLEAN PROVE Steady(r, SetThrottleSuspended(r, b))
  <2>1. CASE r.status \in {"active", "suspended"}
    <3>1. SetThrottleSuspended(r, b).pending = r.pending
      BY <2>1 DEF SetThrottleSuspended
    <3> QED BY <2>1, <3>1
  <2>2. CASE r.status \notin {"active", "suspended"}
    BY <2>2 DEF SetThrottleSuspended
  <2> QED BY <2>1, <2>2
<1>4. Steady(r, ClearThrottleSuspendedOnRestart(r))
  <2>1. ClearThrottleSuspendedOnRestart(r).pending = r.pending
    BY DEF ClearThrottleSuspendedOnRestart
  <2>2. r.status # "suspended" => ClearThrottleSuspendedOnRestart(r).status = r.status
    BY DEF ClearThrottleSuspendedOnRestart
  <2> QED BY <2>1, <2>2
<1>5. Steady(r, ClaimSeekTarget(r))
  <2>1. CASE SeekIsClaimable(r)
    <3>1. ClaimSeekTarget(r)
            = [r EXCEPT !.seek = NULL, !.disc = r.disc + 1, !.status = "seeking"]
      BY <2>1 DEF ClaimSeekTarget
    <3> QED BY <3>1
  <2>2. CASE ~SeekIsClaimable(r)
    BY <2>2 DEF ClaimSeekTarget
  <2> QED BY <2>1, <2>2
<1>6. ASSUME NEW v
      PROVE Steady(r, AbsorbSeekTarget(r, v)) /\ Holds(r, ClaimPendingRung(r, v))
  BY DEF AbsorbSeekTarget, ClaimPendingRung
<1>7. Steady(r, EnsureSessionStagingDir(r))
  BY DEF EnsureSessionStagingDir
<1>8. ASSUME NEW k \in Rungs PROVE Holds(r, RecordActiveRungIndex(r, k))
  BY DEF RecordActiveRungIndex
<1>9. ASSUME NEW terminal \in TerminalStatuses PROVE Steady(r, CloseRow(r, terminal))
  BY DEF CloseRow
<1> QED BY <1>1, <1>2, <1>3, <1>4, <1>5, <1>6, <1>7, <1>8, <1>9

LEMMA ServerStatementsSteady ==
  ASSUME NEW r \in RowType
  PROVE /\ Steady(r, HeartbeatPlaybackSession(r))
        /\ Steady(r, SuspendStalePlaybackSession(r))
        /\ \A n \in Nat : Steady(r, UpdateRequestedSegment(r, n))
        /\ \A n \in Nat : Steady(r, RecordServedSegment(r, n))
        /\ \A t \in Targets : Steady(r, RequestSeek(r, t))
        /\ \A k \in Rungs : Steady(r, RequestRungSwitch(r, k))
        /\ \A t \in Targets, k \in Rungs : Steady(r, RequestSeekWithRungSwitch(r, t, k))
<1> USE RungsAssumption DEF Steady, Pends, Holds, HeldStatuses, TerminalStatuses, RowType
<1>1. Steady(r, HeartbeatPlaybackSession(r))
  <2>1. CASE AcceptsHeartbeat(r)
    <3>1. HeartbeatPlaybackSession(r) = [r EXCEPT !.status = "active"]
      BY <2>1 DEF HeartbeatPlaybackSession
    <3>2. r.status \notin HeldStatuses
      BY <2>1 DEF AcceptsHeartbeat
    <3> QED BY <3>1, <3>2
  <2>2. CASE ~AcceptsHeartbeat(r)
    BY <2>2 DEF HeartbeatPlaybackSession
  <2> QED BY <2>1, <2>2
<1>2. Steady(r, SuspendStalePlaybackSession(r))
  <2>1. CASE r.status = "active"
    <3>1. SuspendStalePlaybackSession(r) = [r EXCEPT !.status = "suspended", !.flag = FALSE]
      BY <2>1 DEF SuspendStalePlaybackSession
    <3> QED BY <2>1, <3>1
  <2>2. CASE r.status # "active"
    BY <2>2 DEF SuspendStalePlaybackSession
  <2> QED BY <2>1, <2>2
<1>3. ASSUME NEW n \in Nat
      PROVE Steady(r, UpdateRequestedSegment(r, n)) /\ Steady(r, RecordServedSegment(r, n))
  <2>1. Steady(r, UpdateRequestedSegment(r, n))
    BY DEF UpdateRequestedSegment
  <2>2. /\ RecordServedSegment(r, n).pending = r.pending
        /\ RecordServedSegment(r, n).status = r.status
    BY DEF RecordServedSegment
  <2> QED BY <2>1, <2>2
<1>4. ASSUME NEW t \in Targets PROVE Steady(r, RequestSeek(r, t))
  BY DEF RequestSeek
<1>5. ASSUME NEW k \in Rungs PROVE Steady(r, RequestRungSwitch(r, k))
  BY DEF RequestRungSwitch
<1>6. ASSUME NEW t \in Targets, NEW k \in Rungs
      PROVE Steady(r, RequestSeekWithRungSwitch(r, t, k))
  <2>1. RequestSeekWithRungSwitch(r, t, k).pending \in {r.pending, k}
    BY DEF RequestSeekWithRungSwitch
  <2>2. RequestSeekWithRungSwitch(r, t, k).status = r.status
    BY DEF RequestSeekWithRungSwitch
  <2> QED BY <2>1, <2>2
<1> QED BY <1>1, <1>2, <1>3, <1>4, <1>5, <1>6

-----------------------------------------------------------------------------
(* Which steps answer a request.                                           *)

\* Three statements are not steady: the record of the rung just spawned, the claim
\* of a pending rung, and the publication of the current run's first output.
AnswersRung ==
  \/ RecordRung /\ Cur.rung \in Rungs /\ row' = RecordActiveRungIndex(row, Cur.rung)
  \/ RungUpdate
AnswersSeek ==
  Publish /\ highest \in Nat /\ Cur.listed > 0 /\ row' = MarkSessionActive(row, highest)

LEMMA RequestsMove ==
  ASSUME TypeInv, [Next]_vars
  PROVE Steady(row, row') \/ AnswersRung \/ AnswersSeek
<1>0. row \in RowType /\ Steady(row, row)
  BY WorkerStatementsSteady DEF TypeInv, TypeOK
<1>1. CASE LocalStep \/ UNCHANGED vars
  <2>1. row' = row
    BY <1>1 DEF LocalStep, rowVars, vars, BeginJob, SpawnRun, RecordRun, Tick, WritePlaylist, ExitCheck,
      GiveUp, Recover, ConsumeSeek, SeekSelect, Handoff, DeferHandoff, RungSelect, Terminate,
      RestartReady, TeardownDone, FailSelect, Released, Ffmpeg, Produce, ReachEnd, Die,
      ObeyTermination, CooldownElapses, Finished
  <2> QED BY <1>0, <2>1
<1>2. CASE StartSession \/ FinishRestart \/ AbsorbSeek \/ SeekUpdate
  BY <1>0, <1>2, WorkerStatementsSteady DEF StartSession, FinishRestart, AbsorbSeek, SeekUpdate
<1>3. CASE RecordRung
  <2>1. Cur.rung = NULL \/ Cur.rung \in Rungs
    BY <1>3, CurIsRun DEF RecordRung, TypeInv, PcInv, NoRunYet, BetweenRuns, RunType, RungValues
  <2>2. row' = row \/ (Cur.rung \in Rungs /\ row' = RecordActiveRungIndex(row, Cur.rung))
    BY <1>3, <2>1 DEF RecordRung
  <2> QED BY <1>0, <1>3, <2>2 DEF AnswersRung
<1>4. CASE Publish
  <2>1. highest < 0 \/ highest \in Nat
    BY DEF TypeInv, TypeOK
  <2>2. \/ row' = row
        \/ highest \in Nat /\ row' = UpdateProducedSegment(row, highest)
        \/ highest \in Nat /\ Cur.listed > 0 /\ row' = MarkSessionActive(row, highest)
    BY <1>4, <2>1 DEF Publish
  <2> QED BY <1>0, <1>4, <2>2, WorkerStatementsSteady DEF AnswersSeek
<1>5. CASE FailUpdate
  BY <1>0, <1>5, WorkerStatementsSteady DEF FailUpdate, TerminalStatuses
<1>6. CASE Throttle
  <2>1. \/ row' = row
        \/ row' = SetThrottleSuspended(row, TRUE)
        \/ row' = SetThrottleSuspended(row, FALSE)
    BY <1>6 DEF Throttle, StopFor, ResumeLive, ResumeReleased
  <2> QED BY <1>0, <2>1, WorkerStatementsSteady
<1>7. CASE Server
  <2>1. CASE Heartbeat \/ SweepSuspend \/ ExtractSidecar \/ ClientRequest
    BY <1>0, <2>1, ServerStatementsSteady, WorkerStatementsSteady
       DEF Heartbeat, SweepSuspend, ExtractSidecar, ClientRequest
  <2>2. ASSUME NEW e \in Enders, EndSelect(e) \/ FinalizeSession(e)
        PROVE Steady(row, row')
    BY <1>0, <2>2, WorkerStatementsSteady DEF EndSelect, FinalizeSession
  <2>3. ASSUME NEW n \in Gets, RequestSegment(n) \/ ServeSegment(n)
        PROVE Steady(row, row')
    <3>1. n \in Nat
      BY BoundsAssumption
    <3> QED BY <1>0, <2>3, <3>1, ServerStatementsSteady DEF RequestSegment, ServeSegment
  <2> QED BY <1>7, <2>1, <2>2, <2>3 DEF Server
<1> QED BY <1>1, <1>2, <1>3, <1>4, <1>5, <1>6, <1>7 DEF Next, Worker, LocalStep, AnswersRung

-----------------------------------------------------------------------------
(* A rung switch asked for is never lost.                                  *)

\* A pending rung is cleared only by the restart that takes it: a request written
\* between consumePendingRungIndex's SELECT and its UPDATE is still there after it.
THEOREM RungNotSwallowedTheorem == Spec => RungNotSwallowed
<1>1. TypeInv /\ [Next]_vars =>
        [row.pending # NULL /\ row'.pending = NULL =>
           \/ pc = "rungUpdate" /\ next'.rung = row.pending
           \/ pc = "recordRung" /\ Cur.rung = row.pending]_vars
  <2> SUFFICES ASSUME TypeInv, [Next]_vars, row.pending # NULL, row'.pending = NULL
               PROVE \/ pc = "rungUpdate" /\ next'.rung = row.pending
                     \/ pc = "recordRung" /\ Cur.rung = row.pending
    OBVIOUS
  <2>0. row \in RowType /\ next \in RestartType
    BY DEF TypeInv, TypeOK
  <2>1. CASE Steady(row, row')
    BY <2>1 DEF Steady, Pends
  <2>2. CASE AnswersSeek
    BY <2>0, <2>2, WorkerStatementsSteady DEF AnswersSeek, Pends
  <2>3. CASE RungUpdate
    <3>1. Live(row) /\ row.pending = claimed
      BY <2>3 DEF RungUpdate, ClaimPendingRung
    <3>2. next' = [next EXCEPT !.rung = claimed]
      BY <2>3, <3>1 DEF RungUpdate
    <3>3. next'.rung = claimed
      BY <2>0, <3>2 DEF RestartType
    <3> QED BY <2>3, <3>1, <3>3 DEF RungUpdate
  <2>4. CASE RecordRung /\ row' = RecordActiveRungIndex(row, Cur.rung)
    <3>1. pc = "recordRung"
      BY <2>4 DEF RecordRung
    <3>2. row.pending # Cur.rung => RecordActiveRungIndex(row, Cur.rung).pending = row.pending
      BY <2>0 DEF RecordActiveRungIndex, RowType
    <3> QED BY <2>4, <3>1, <3>2
  <2> QED BY <2>1, <2>2, <2>3, <2>4, RequestsMove DEF AnswersRung
<1> QED BY <1>1, TypeInvariance, PTL DEF Spec, RungNotSwallowed

-----------------------------------------------------------------------------
(* A seek holds the row until the run that answers it has output.          *)

\* A step that publishes nothing leaves a held row held.
LEMMA HeldStays ==
  ASSUME TypeInv, [Next]_vars, ~AnswersSeek
  PROVE Holds(row, row')
<1>1. row \in RowType
  BY DEF TypeInv, TypeOK
<1>2. CASE RungUpdate
  BY <1>1, <1>2, WorkerStatementsSteady DEF RungUpdate
<1>3. CASE Cur.rung \in Rungs /\ row' = RecordActiveRungIndex(row, Cur.rung)
  BY <1>1, <1>3, WorkerStatementsSteady
<1> QED BY <1>2, <1>3, RequestsMove DEF AnswersRung, Steady

\* The seek a restart carries: kept, dropped, or just claimed.
LEMMA RestartSeek ==
  ASSUME TypeInv, HoldInv, [Next]_vars
  PROVE /\ next'.seek # NULL => \/ next'.seek = next.seek /\ ~AnswersSeek
                                \/ row'.status \in HeldStatuses
        /\ pc' \in NoRestartPcs => next'.seek = NULL
<1> USE DEF NoRestartPcs
<1>0. next \in RestartType /\ NoRestart.seek = NULL
  BY DEF TypeInv, TypeOK, NoRestart
<1>1. CASE StartSession \/ FinishRestart
  <2>1. next'.seek = NULL
    BY <1>0, <1>1 DEF StartSession, FinishRestart, NoRestart
  <2> QED BY <2>1
<1>2. CASE Recover \/ ConsumeSeek \/ Handoff \/ Throttle
  <2>1. next' = NoRestart \/ \E cause \in Restarts : next' = Continuation(cause)
    BY <1>2 DEF Recover, ConsumeSeek, Handoff, Throttle, StopFor, ResumeLive, ResumeReleased,
       Restarts
  <2>2. next'.seek = NULL
    BY <1>0, <2>1 DEF Continuation
  <2> QED BY <2>2
<1>3. CASE SeekUpdate
  <2>1. pc' \notin NoRestartPcs
    BY <1>3 DEF SeekUpdate, AfterSeek, AfterSeekBlock
  <2>2. ~AnswersSeek
    BY <1>3 DEF SeekUpdate, AnswersSeek, Publish
  <2>3. SeekIsClaimable(row) => row'.status \in HeldStatuses
    BY <1>3 DEF SeekUpdate, ClaimSeekTarget, HeldStatuses, TypeInv, TypeOK, RowType
  <2>4. ~SeekIsClaimable(row) => next' = next
    BY <1>3 DEF SeekUpdate
  <2> QED BY <2>1, <2>2, <2>3, <2>4
<1>4. CASE RungUpdate
  <2>1. pc' \notin NoRestartPcs
    BY <1>4 DEF RungUpdate, AfterRung
  <2>2. ~AnswersSeek
    BY <1>4 DEF RungUpdate, AnswersSeek, Publish
  <2>3. next'.seek = next.seek
    BY <1>0, <1>4 DEF RungUpdate, RestartType
  <2> QED BY <2>1, <2>2, <2>3
<1>5. CASE Publish
  BY <1>5 DEF Publish, tickVars, HoldInv
<1>6. CASE next' = next /\ ~AnswersSeek /\ (pc' \in NoRestartPcs => pc \in NoRestartPcs)
  BY <1>6 DEF HoldInv
<1>7. CASE RecordRung
  <2>1. next' = next /\ pc = "recordRung" /\ (pc' \in NoRestartPcs => CurIndex = 1)
    BY <1>7 DEF RecordRung, tickVars
  <2>2. ~AnswersSeek
    BY <2>1 DEF AnswersSeek, Publish
  <2> QED BY <2>1, <2>2 DEF HoldInv
<1>8. CASE \/ BeginJob \/ SpawnRun \/ RecordRun \/ Tick \/ WritePlaylist \/ ExitCheck \/ GiveUp \/ AbsorbSeek
           \/ SeekSelect \/ DeferHandoff \/ RungSelect \/ Terminate \/ RestartReady
           \/ TeardownDone \/ FailSelect \/ FailUpdate \/ Released
  <2>1. next' = next /\ pc # "publish"
    BY <1>8 DEF tickVars, BeginJob, SpawnRun, RecordRun, Tick, WritePlaylist, ExitCheck, GiveUp, AbsorbSeek,
       SeekSelect, DeferHandoff, RungSelect, Terminate, TerminateWaits, RestartReady,
       TeardownDone, FailSelect, FailUpdate, Released
  <2>2. pc' \in NoRestartPcs => pc \in NoRestartPcs
    BY <1>8 DEF BeginJob, SpawnRun, RecordRun, Tick, WritePlaylist, ExitCheck, GiveUp, AbsorbSeek,
       SeekSelect, DeferHandoff, RungSelect, Terminate, TerminateWaits, RestartReady,
       TeardownDone, FailSelect, FailUpdate, Released, AfterExitBlock, AfterSeekBlock, AfterSeek,
       AfterRung
  <2> QED BY <1>6, <2>1, <2>2 DEF AnswersSeek, Publish
<1>9. CASE Ffmpeg \/ Server \/ CooldownElapses \/ Finished \/ UNCHANGED vars
  <2>1. next' = next /\ pc' = pc
    BY <1>9 DEF Ffmpeg, Produce, ReachEnd, Die, ObeyTermination, CooldownElapses, Finished,
       vars, tickVars, Server, ServerStep, Heartbeat, SweepSuspend, ClientRequest,
       ExtractSidecar, EndSelect, FinalizeSession, RequestSegment, ServeSegment
  <2>2. ~AnswersSeek
    BY <2>1 DEF AnswersSeek, Publish
  <2> QED BY <1>6, <2>1, <2>2
<1> QED BY <1>1, <1>2, <1>3, <1>4, <1>5, <1>7, <1>8, <1>9 DEF Next, Worker

\* Until the current run lists something, nothing is published.
LEMMA NothingPublished ==
  ASSUME TypeInv, HoldInv, AnswersSeek
  PROVE runs # <<>> /\ Cur.listed > 0 /\ next.seek = NULL
<1>1. pc = "publish"
  BY DEF AnswersSeek, Publish
<1>2. runs # <<>> /\ next.seek = NULL
  BY <1>1 DEF TypeInv, PcInv, HoldInv, NoRunYet, BetweenRuns, NoRestartPcs
<1> QED BY <1>2 DEF AnswersSeek

\* The run that answers a seek finds the row held, and keeps it held until it lists.
LEMMA AnsweringRunHolds ==
  ASSUME TypeInv, HoldInv, [Next]_vars
  PROVE (runs # <<>> /\ Cur.seek # NULL /\ Cur.listed = 0 => row.status \in HeldStatuses)'
<1> SUFFICES ASSUME runs' # <<>>, Cur'.seek # NULL, Cur'.listed = 0
             PROVE row'.status \in HeldStatuses
  OBVIOUS
<1>1. CASE SpawnRun
  <2>1. Cur' = runs'[CurIndex + 1]
    BY <1>1, SpawnAppends DEF Cur
  <2>2. next.seek # NULL
    BY <1>1, <2>1, SpawnAppends
  <2>3. row' = row
    BY <1>1 DEF SpawnRun, rowVars
  <2> QED BY <2>2, <2>3 DEF HoldInv
<1>2. CASE Tick
  <2>1. row' = row
    BY <1>2 DEF Tick, rowVars
  <2>2. CurIndex' = CurIndex /\ CurIndex \in DOMAIN runs /\ runs # <<>>
    BY <1>2, TickFolds DEF CurIndex, TypeInv, TypeOK
  <2>3. Cur'.seek = Cur.seek /\ (Cur'.listed = Cur.listed \/ Cur'.listed = Cur.out)
    BY <1>2, <2>2, TickFolds DEF Cur
  <2>4. /\ Cur.listed \in Nat /\ Cur.out \in Nat /\ Cur.listed <= Cur.out
    BY <2>2, RunNumbers DEF Cur, TypeInv, ExtentInv
  <2>5. Cur.listed = 0
    BY <2>3, <2>4
  <2> QED BY <2>1, <2>2, <2>3, <2>5 DEF HoldInv
<1>3. CASE SameLists
  <2>1. runs # <<>> /\ CurIndex \in DOMAIN runs
    BY <1>3, CurIsRun DEF SameLists, CurIndex, TypeInv, TypeOK
  <2>2. Cur'.seek = Cur.seek /\ Cur'.listed = Cur.listed
    BY <1>3, <2>1 DEF SameLists, Cur
  <2>3. row.status \in HeldStatuses
    BY <2>1, <2>2 DEF HoldInv
  <2>4. ~AnswersSeek
    BY <2>2, NothingPublished
  <2> QED BY <2>3, <2>4, HeldStays DEF Holds
<1> QED BY <1>1, <1>2, <1>3, ListsMove

\* No run before the first carries a seek.
LEMMA FirstRunSeeksNothing ==
  ASSUME TypeInv, HoldInv, [Next]_vars
  PROVE (runs = <<>> \/ (CurIndex = 1 /\ pc \in {"recordRun", "recordRung"}) => next.seek = NULL)'
<1> SUFFICES ASSUME runs' = <<>> \/ (CurIndex' = 1 /\ pc' \in {"recordRun", "recordRung"})
             PROVE next'.seek = NULL
  OBVIOUS
<1>1. CASE SpawnRun
  <2>1. runs = <<>>
    BY <1>1, SpawnAppends DEF CurIndex, TypeInv, TypeOK
  <2>2. next' = next
    BY <1>1 DEF SpawnRun, tickVars
  <2> QED BY <2>1, <2>2 DEF HoldInv
<1>2. CASE ~SpawnRun /\ runs' # <<>> /\ pc' \in {"recordRun", "recordRung"}
  <2>1. /\ pc \in {"recordRun", "recordRung"} /\ next' = next
    <3>1. CASE RecordRun
      BY <3>1 DEF RecordRun, tickVars
    <3>2. CASE Ffmpeg \/ Server \/ CooldownElapses \/ Finished \/ UNCHANGED vars
      BY <1>2, <3>2 DEF Ffmpeg, Produce, ReachEnd, Die, ObeyTermination, CooldownElapses, Finished,
         vars, tickVars, Server, ServerStep, Heartbeat, SweepSuspend, ClientRequest,
         ExtractSidecar, EndSelect, FinalizeSession, RequestSegment, ServeSegment
    <3>3. CASE RecordRung
      BY <3>3 DEF RecordRung, tickVars
    <3>4. CASE \/ BeginJob \/ StartSession \/ FinishRestart \/ Tick \/ Publish \/ WritePlaylist
               \/ ExitCheck \/ GiveUp \/ Recover \/ AbsorbSeek \/ ConsumeSeek \/ SeekSelect
               \/ SeekUpdate
      BY <1>2, <3>4 DEF BeginJob, StartSession, FinishRestart, Tick, Publish, WritePlaylist,
         ExitCheck, GiveUp, Recover, AbsorbSeek, ConsumeSeek, SeekSelect, SeekUpdate,
         AfterExitBlock, AfterSeekBlock, AfterSeek
    <3>5. CASE \/ Handoff \/ DeferHandoff \/ RungSelect \/ RungUpdate \/ RestartReady
               \/ TeardownDone \/ FailSelect \/ FailUpdate \/ Released
      BY <1>2, <3>5 DEF Handoff, DeferHandoff, RungSelect, RungUpdate, RestartReady,
         TeardownDone, FailSelect, FailUpdate, Released, AfterRung
    <3>6. CASE Terminate
      <4>1. pc' \in {"awaitRestart", "awaitTeardown", "awaitRelease"}
        BY <3>6 DEF Terminate, TerminateWaits
      <4> QED BY <1>2, <4>1
    <3>7. CASE Throttle
      <4>1. pc' \in {"sleep", "kill", "release"}
        BY <3>7 DEF Throttle, StopFor, ResumeLive, ResumeReleased
      <4> QED BY <1>2, <4>1
    <3> QED BY <1>2, <3>1, <3>2, <3>3, <3>4, <3>5, <3>6, <3>7 DEF Next, Worker
  <2>2. CurIndex' = CurIndex
    BY <2>1, <1>2, ListsMove DEF SameLists, Tick
  <2> QED BY <1>2, <2>1, <2>2 DEF HoldInv
<1>3. CASE ~SpawnRun /\ runs' = <<>>
  <2>1. CurIndex' = CurIndex /\ runs = <<>>
    BY <1>3, ListsMove, TickFolds DEF SameLists, CurIndex, TypeInv, TypeOK
  <2>2. pc \in NoRunYet \cup BetweenRuns
    BY <2>1 DEF TypeInv, PcInv
  <2>3. next.seek = NULL
    BY <2>1 DEF HoldInv
  <2>4. next' = next \/ next' = [NoRestart EXCEPT !.rung = InitialRung]
    BY <1>3, <2>2 DEF NoRunYet, BetweenRuns, Next, Worker, tickVars, vars, BeginJob, StartSession,
       RecordRun, RecordRung, FinishRestart,
       Tick, Publish, WritePlaylist, ExitCheck, GiveUp, Recover, AbsorbSeek, ConsumeSeek,
       SeekSelect, SeekUpdate, Handoff, DeferHandoff, RungSelect, RungUpdate, Terminate,
       TerminateWaits, RestartReady, TeardownDone, FailSelect, FailUpdate, Throttle, Released,
       Ffmpeg, Produce, ReachEnd, Die, ObeyTermination, CooldownElapses, Finished,
       Server, ServerStep, Heartbeat, SweepSuspend, ClientRequest,
       ExtractSidecar, EndSelect, FinalizeSession, RequestSegment, ServeSegment
  <2> QED BY <2>3, <2>4 DEF NoRestart
<1> QED BY <1>1, <1>2, <1>3

\* A held row stays held through a whole restart, whatever else writes it meanwhile.
LEMMA HoldStep ==
  ASSUME TypeInv, HoldInv, [Next]_vars
  PROVE HoldInv'
<1>1. (next.seek # NULL => row.status \in HeldStatuses)'
  BY RestartSeek, HeldStays DEF HoldInv, Holds
<1>2. (pc \in NoRestartPcs => next.seek = NULL)'
  BY RestartSeek DEF NoRestartPcs
<1> QED BY <1>1, <1>2, AnsweringRunHolds, FirstRunSeeksNothing DEF HoldInv

\* The hold invariant holds in every reachable state.
LEMMA HoldInvariance == Spec => []HoldInv
<1>1. Init => HoldInv
  BY NullAssumption DEF Init, HoldInv, NoRestart
<1>2. TypeInv /\ HoldInv /\ [Next]_vars => HoldInv'
  BY HoldStep
<1> QED BY <1>1, <1>2, TypeInvariance, PTL DEF Spec

\* From the spawn of the run that answers a seek until that run has listed a segment,
\* the row has no status the manifest gate takes for ready.
THEOREM SeekHoldsTheorem == Spec => []SeekHoldsManifest
<1>1. HoldInv => SeekHoldsManifest
  BY DEF HoldInv, SeekHoldsManifest, ManifestReady, HeldStatuses, TerminalStatuses
<1> QED BY <1>1, HoldInvariance, PTL

\* Everything together: the invariant the throttle run checks on its instance
\* holds in every reachable state, for every value of the constants.
THEOREM InvariantTheorem == Spec => []IInv
<1>1. TypeInv /\ EndedExactlyOnce /\ SettledInv /\ NumberingInv /\ EdgeInv /\ HoldInv => IInv
  BY DEF TypeInv, IInv
<1> QED BY <1>1, TypeInvariance, EndedOnceTheorem, SettledInvariance, NumberingInvariance,
           EdgeInvariance, HoldInvariance, PTL
=============================================================================
