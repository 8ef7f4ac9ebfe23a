------------------------------ MODULE SessionRow ------------------------------
(***************************************************************************)
(* The playback_sessions row of one transcode session: the only channel    *)
(* between apps/server and apps/worker.  Each operator below is one SQL    *)
(* statement of packages/db (query/playback-sessions.ts for the server,    *)
(* internal/transcode-sessions.ts for the worker) as a function from the   *)
(* row before to the row after; a statement whose WHERE clause does not    *)
(* match returns the row unchanged.                                        *)
(*                                                                         *)
(* Kept: every column the control flow reads.  Left out: timestamps        *)
(* (staleness is a choice of the sweeper's caller), owner scoping (a       *)
(* session of another user never matches), error text, event payloads.     *)
(***************************************************************************)
EXTENDS Integers

CONSTANT NULL          \* SQL NULL

LiveStatuses == {"created", "starting", "active", "suspended", "seeking"}
TerminalStatuses == {"ended", "failed"}
Statuses == LiveStatuses \cup TerminalStatuses

\* The guard NON_TERMINAL_STATUSES every statement repeats in its WHERE.
Live(r) == r.status \in LiveStatuses

\* A row as createPlaybackSession inserts it for a plan that needs a pipeline.
\* The columns: seek (seek_target_ms), flag (suspended_by_throttle), produced,
\* requested, served (highest_served_segment), pending / active (rung indexes),
\* disc (discontinuity_count), staging (staging_dir is not null).
NewRow ==
  [ status |-> "created", seek |-> NULL, flag |-> FALSE, produced |-> NULL,
    requested |-> NULL, served |-> NULL, pending |-> NULL, active |-> NULL,
    disc |-> 0, staging |-> FALSE ]

-----------------------------------------------------------------------------
(* Statements of the worker.                                               *)

MarkSessionStarting(r) ==
  IF r.status = "created"
    THEN [r EXCEPT !.status = "starting", !.staging = TRUE]
    ELSE r

\* Mutant: no guard on the status.
MarkAnySessionActive(r, segment) == [r EXCEPT !.status = "active", !.produced = segment]

MarkSessionActive(r, segment) ==
  IF Live(r) THEN [r EXCEPT !.status = "active", !.produced = segment] ELSE r

UpdateProducedSegment(r, segment) ==
  IF Live(r) THEN [r EXCEPT !.produced = segment] ELSE r

SetThrottleSuspended(r, suspended) ==
  IF r.status \in {"active", "suspended"}
    THEN [r EXCEPT !.status = IF suspended THEN "suspended" ELSE "active",
                   !.flag = suspended]
    ELSE r

\* 'seeking' stays 'seeking'; only a 'suspended' row is handed back as active.
ClearThrottleSuspendedOnRestart(r) ==
  IF r.flag /\ Live(r)
    THEN [r EXCEPT !.flag = FALSE,
                   !.status = IF @ = "suspended" THEN "active" ELSE @]
    ELSE r

\* The row half of consumeSeekTarget: its UPDATE tests IS NOT NULL, not the
\* value its SELECT returned.
SeekIsClaimable(r) == Live(r) /\ r.seek # NULL

ClaimSeekTarget(r) ==
  IF SeekIsClaimable(r)
    THEN [r EXCEPT !.seek = NULL, !.disc = @ + 1, !.status = "seeking"]
    ELSE r

AbsorbSeekTarget(r, target) ==
  IF Live(r) /\ r.seek = target THEN [r EXCEPT !.seek = NULL] ELSE r

EnsureSessionStagingDir(r) ==
  IF Live(r) THEN [r EXCEPT !.staging = TRUE] ELSE r

\* A pending request equal to the rung just spawned is satisfied and cleared.
RecordActiveRungIndex(r, rung) ==
  IF Live(r)
    THEN [r EXCEPT !.active = rung,
                   !.pending = IF @ = rung THEN NULL ELSE @]
    ELSE r

\* Mutant: guarded on IS NOT NULL, as consumeSeekTarget's is.
ClaimAnyPendingRung(r, rung) ==
  IF Live(r) /\ r.pending # NULL THEN [r EXCEPT !.pending = NULL] ELSE r

\* The UPDATE half of consumePendingRungIndex, guarded on the value read.
ClaimPendingRung(r, rung) ==
  IF Live(r) /\ r.pending = rung THEN [r EXCEPT !.pending = NULL] ELSE r

-----------------------------------------------------------------------------
(* Statements of the server.                                               *)

\* Mutant: the UPDATE matches on the id alone.
AcceptsAnyHeartbeat(r) == TRUE

\* A heartbeat is accepted from created / active, or from a suspension the
\* throttle did not cause; it (re)marks the session active.
AcceptsHeartbeat(r) ==
  \/ r.status \in {"created", "active"}
  \/ r.status = "suspended" /\ ~r.flag

HeartbeatPlaybackSession(r) ==
  IF AcceptsHeartbeat(r) THEN [r EXCEPT !.status = "active"] ELSE r

SuspendStalePlaybackSession(r) ==
  IF r.status = "active"
    THEN [r EXCEPT !.status = "suspended", !.flag = FALSE]
    ELSE r

\* The UPDATE shared by finalizeSession and markSessionFailed.
CloseRow(r, terminal) ==
  IF Live(r) THEN [r EXCEPT !.status = terminal] ELSE r

UpdateRequestedSegment(r, segment) ==
  IF Live(r) THEN [r EXCEPT !.requested = segment] ELSE r

RecordServedSegment(r, segment) ==
  IF Live(r)
    THEN [r EXCEPT !.served = IF @ = NULL \/ @ < segment THEN segment ELSE @]
    ELSE r

RequestSeek(r, target) ==
  IF Live(r) THEN [r EXCEPT !.seek = target] ELSE r

\* active IS DISTINCT FROM rung: naming the rung already running writes nothing.
RequestRungSwitch(r, rung) ==
  IF Live(r) /\ r.active # rung THEN [r EXCEPT !.pending = rung] ELSE r

RequestSeekWithRungSwitch(r, target, rung) ==
  IF Live(r)
    THEN [r EXCEPT !.seek = target,
                   !.pending = IF r.active # rung THEN rung ELSE @]
    ELSE r

\* The gate hls-file.controller.ts holds a manifest GET on.
ManifestReady(r) ==
  /\ r.status \in {"active", "suspended"}
  /\ r.seek = NULL
  /\ r.produced # NULL
  /\ r.staging
=============================================================================
