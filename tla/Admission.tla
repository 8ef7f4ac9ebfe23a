------------------------------- MODULE Admission -------------------------------
(***************************************************************************)
(* Transcode slots: the admission gate of POST /playback/sessions, the     *)
(* reclamation of a paused viewer's slot, heartbeats and the sweeper       *)
(* (apps/server/src/playback/{sessions.controller,transcode-admission,     *)
(* session-sweeper.service}.ts, packages/db/src/query/playback-sessions.ts).*)
(*                                                                         *)
(* Every await is a step of its own, so closes, heartbeats and the sweeper *)
(* run between the gate's count and its insert; one transaction is one     *)
(* step.  Time is each row's age since its last heartbeat, or since its    *)
(* start, saturated above every cutoff.  Of the worker only the writes     *)
(* that move a row between statuses matter; a seek's are left out (a       *)
(* seeking row holds its slot like any other).                             *)
(***************************************************************************)
EXTENDS SessionRow, Sequences, FiniteSets

CONSTANTS
  Requests,        \* POSTs, each with the session it may create
  Decisions,       \* outcomes of plan() to consider
  Caps,            \* values maxSimultaneousTranscodes takes over time
  SuspendCutoff, PausedHold, StaleCutoff,   \* the three settings, in ticks
  MaxFaults        \* bound on failing database or queue calls

ASSUME AdmissionAssumption ==
  /\ Decisions \subseteq {"direct-play", "remux", "transcode"}
  /\ Caps \subseteq Nat
  /\ {SuspendCutoff, PausedHold, StaleCutoff, MaxFaults} \subseteq Nat
  /\ SuspendCutoff < StaleCutoff

\* A row's columns here: neither seeks nor segments are part of this model.
SlotRow ==
  [ status : Statuses, seek : {NULL}, flag : BOOLEAN, produced : {NULL}, requested : {NULL},
    served : {NULL}, pending : {NULL}, active : {NULL}, disc : {0}, staging : BOOLEAN ]

ASSUME NullAssumption == NULL \notin SlotRow /\ NULL \notin {"direct-play", "remux", "transcode"}

VARIABLES
  row,       \* per request: its playback_sessions row, NULL before the insert
  age,       \* ticks since last_heartbeat_ms, or started_at_ms when that is null
  pc,        \* per request: the await it is at, or its outcome
  decision,  \* plan().decision
  cap,       \* policy.maxSimultaneousTranscodes as this request read it
  tail,      \* the gate's promise chain: requests not settled, in order
  job,       \* rows with a transcode job
  gone,      \* viewers who left without a DELETE
  unheard,   \* history: viewers whose heartbeat was dropped in the current tick
  sweep,     \* the sweeper: idle, ending, suspending
  stale,     \* the rows it listed and has not come to yet
  faults

requestVars == <<pc, decision, cap, tail, job, gone>>
clockVars == <<age, unheard>>
sweepVars == <<sweep, stale>>
vars == <<row, clockVars, requestVars, sweepVars, faults>>

ReclaimCutoff == IF PausedHold > SuspendCutoff THEN PausedHold ELSE SuspendCutoff
Horizon == (IF ReclaimCutoff > StaleCutoff THEN ReclaimCutoff ELSE StaleCutoff) + 1
Later(n) == IF n < Horizon THEN n + 1 ELSE n
Opened(s) == row[s] # NULL /\ Live(row[s])

\* finalizeSession and markSessionFailed.  Nothing else of a closed session is used
\* again: its age, its job and its viewer are forgotten.
Close(s, terminal) ==
  /\ row' = [row EXCEPT ![s] = CloseRow(@, terminal)]
  /\ age' = [age EXCEPT ![s] = 0] /\ unheard' = unheard \ {s}
  /\ job' = job \ {s} /\ gone' = gone \ {s}

Init ==
  /\ row = [s \in Requests |-> NULL]
  /\ age = [s \in Requests |-> 0] /\ unheard = {}
  /\ pc = [s \in Requests |-> "idle"]
  /\ decision = [s \in Requests |-> NULL] /\ cap = [s \in Requests |-> 0]
  /\ tail = <<>> /\ job = {} /\ gone = {}
  /\ sweep = "idle" /\ stale = {} /\ faults = 0

-----------------------------------------------------------------------------
(* POST /playback/sessions.                                                *)

Goto(s, l) == pc' = [pc EXCEPT ![s] = l]

\* The plan and the cap are resolved before the gate; only a transcode enters it.
CreateSession(s) ==
  /\ pc[s] = "idle"
  /\ \E d \in Decisions, c \in Caps :
       /\ decision' = [decision EXCEPT ![s] = d]
       /\ cap' = [cap EXCEPT ![s] = c]
       /\ tail' = IF d = "transcode" THEN Append(tail, s) ELSE tail
       /\ Goto(s, IF d = "transcode" THEN "admit" ELSE "create")
  /\ UNCHANGED <<row, clockVars, job, gone, sweepVars, faults>>

\* countActiveTranscodeSessions.
Counted(s) == Opened(s) /\ decision[s] = "transcode"
CountActiveTranscodeSessions == Cardinality({s \in Requests : Counted(s)})

\* Mutant: no chain, every attempt runs at once.
AnyoneHasGate(s) == tail # <<>>

\* attempt() starts when every earlier attempt has settled.
HasGate(s) == tail # <<>> /\ s = Head(tail)
Settle(s) == tail' = IF decision[s] = "transcode" THEN Tail(tail) ELSE tail

\* Mutant: the critical section covers the count and not the insert.
CountLeavesGate(s) ==
  /\ pc[s] = "admit" /\ HasGate(s)
  /\ LET full == CountActiveTranscodeSessions >= cap[s]
     IN  /\ Goto(s, IF full THEN "reclaim" ELSE "create")
         /\ tail' = IF full THEN tail ELSE Tail(tail)
  /\ UNCHANGED <<row, clockVars, decision, cap, job, gone, sweepVars, faults>>

Count(s) ==
  /\ pc[s] = "admit" /\ HasGate(s)
  /\ Goto(s, IF CountActiveTranscodeSessions >= cap[s] THEN "reclaim" ELSE "create")
  /\ UNCHANGED <<row, clockVars, decision, cap, tail, job, gone, sweepVars, faults>>

Evictable(s) == Counted(s) /\ row[s].status = "suspended" /\ age[s] > ReclaimCutoff

\* reclaim(): the longest-silent such row that no other transaction has locked; with
\* any of them possibly locked that may be any of them, or none.  True when a row
\* was evicted, and then the count is taken again.
Reclaim(s) ==
  /\ pc[s] = "reclaim" /\ HasGate(s)
  /\ \/ /\ \E t \in Requests : Evictable(t) /\ Close(t, "failed")
        /\ Goto(s, "recount")
        /\ UNCHANGED tail
     \/ /\ Goto(s, "refused")
        /\ Settle(s)
        /\ UNCHANGED <<row, clockVars, job, gone>>
  /\ UNCHANGED <<decision, cap, sweepVars, faults>>

Recount(s) ==
  /\ pc[s] = "recount" /\ HasGate(s)
  /\ IF CountActiveTranscodeSessions >= cap[s]
       THEN Goto(s, "refused") /\ Settle(s)
       ELSE Goto(s, "create") /\ UNCHANGED tail
  /\ UNCHANGED <<row, clockVars, decision, cap, job, gone, sweepVars, faults>>

\* create() inserts the row, or finds the item gone and returns nothing (a 404);
\* either way the attempt settles.
Create(s) ==
  /\ pc[s] = "create"
  /\ \/ /\ row' = [row EXCEPT ![s] = [NewRow EXCEPT
                     !.status = IF decision[s] = "direct-play" THEN "active" ELSE @]]
        /\ Goto(s, IF decision[s] = "direct-play" THEN "open" ELSE "enqueue")
     \/ Goto(s, "refused") /\ UNCHANGED row
  /\ Settle(s)
  /\ UNCHANGED <<clockVars, decision, cap, job, gone, sweepVars, faults>>

Enqueue(s) ==
  /\ pc[s] = "enqueue"
  /\ job' = job \cup {s}
  /\ Goto(s, "open")
  /\ UNCHANGED <<row, clockVars, decision, cap, tail, gone, sweepVars, faults>>

\* Mutant: a rejection does not settle the chain.
WedgedByRejection(s) == tail' = tail

\* `tail` never rejects: the chain goes on whatever the outcome of an attempt.
AfterRejection(s) == IF pc[s] = "enqueue" THEN UNCHANGED tail ELSE Settle(s)

\* An await of the request rejects: the client gets an error and no session id.
RequestFails(s) ==
  /\ pc[s] \in {"admit", "reclaim", "recount", "create", "enqueue"}
  /\ pc[s] = "admit" => HasGate(s)
  /\ faults < MaxFaults /\ faults' = faults + 1
  /\ Goto(s, "error")
  /\ AfterRejection(s)
  /\ UNCHANGED <<row, clockVars, decision, cap, job, gone, sweepVars>>

Gate(s) == Count(s) \/ Reclaim(s) \/ Recount(s) \/ Create(s) \/ Enqueue(s)

-----------------------------------------------------------------------------
(* The viewer.                                                             *)

Watching(s) == pc[s] = "open" /\ Opened(s) /\ s \notin gone

\* PUT /progress: the heartbeat is best effort, a row that does not accept it keeps
\* its last_heartbeat_ms.
Heartbeat(s) ==
  /\ Watching(s)
  /\ row' = [row EXCEPT ![s] = HeartbeatPlaybackSession(@)]
  /\ IF AcceptsHeartbeat(row[s])
       THEN age' = [age EXCEPT ![s] = 0] /\ UNCHANGED unheard
       ELSE unheard' = unheard \cup {s} /\ UNCHANGED age
  /\ UNCHANGED <<requestVars, sweepVars, faults>>

EndSession(s) ==
  /\ Watching(s)
  /\ Close(s, "ended")
  /\ UNCHANGED <<pc, decision, cap, tail, sweepVars, faults>>

Leave(s) ==
  /\ Watching(s)
  /\ gone' = gone \cup {s}
  /\ UNCHANGED <<row, clockVars, pc, decision, cap, tail, job, sweepVars, faults>>

-----------------------------------------------------------------------------
(* The worker's status writes (internal/transcode-sessions.ts).            *)

WorkerWrite(s) ==
  /\ s \in job
  /\ \/ row' = [row EXCEPT ![s] = MarkSessionStarting(@)]
     \/ row[s].status = "starting" /\ row' = [row EXCEPT ![s] = MarkSessionActive(@, NULL)]
     \/ \E suspended \in BOOLEAN :
          /\ suspended # row[s].flag
          /\ row' = [row EXCEPT ![s] = SetThrottleSuspended(@, suspended)]
  /\ row' # row
  /\ UNCHANGED <<clockVars, requestVars, sweepVars, faults>>

WorkerFails(s) ==
  /\ s \in job
  /\ Close(s, "failed")
  /\ UNCHANGED <<pc, decision, cap, tail, sweepVars, faults>>

-----------------------------------------------------------------------------
(* Time, and the sweeper's two passes.                                     *)

Tick ==
  /\ unheard # {} \/ \E s \in Requests : Opened(s) /\ age[s] < Horizon
  /\ age' = [s \in Requests |-> IF Opened(s) THEN Later(age[s]) ELSE age[s]]
  /\ unheard' = {}
  /\ UNCHANGED <<row, requestVars, sweepVars, faults>>

\* Mutant: the states a session had before transcoding.
ListStaleActive ==
  {s \in Requests : Opened(s) /\ row[s].status \in {"created", "active"} /\ age[s] > StaleCutoff}

ListStalePlaybackSessions == {s \in Requests : Opened(s) /\ age[s] > StaleCutoff}

ListHeartbeatStalePlaybackSessions ==
  {s \in Requests : Opened(s) /\ row[s].status = "active" /\ age[s] > SuspendCutoff}

SweepOnce ==
  /\ sweep = "idle"
  /\ ListStalePlaybackSessions \cup ListHeartbeatStalePlaybackSessions # {}
  /\ sweep' = "ending" /\ stale' = ListStalePlaybackSessions
  /\ UNCHANGED <<row, clockVars, requestVars, faults>>

\* The list is not read again: a row is ended though it has heartbeat since.
EndStalePlaybackSession(s) ==
  /\ sweep = "ending" /\ s \in stale
  /\ Close(s, "failed")
  /\ stale' = stale \ {s}
  /\ UNCHANGED <<pc, decision, cap, tail, sweep, faults>>

SecondPass ==
  /\ sweep = "ending" /\ stale = {}
  /\ sweep' = "suspending" /\ stale' = ListHeartbeatStalePlaybackSessions
  /\ UNCHANGED <<row, clockVars, requestVars, faults>>

SuspendStale(s) ==
  /\ sweep = "suspending" /\ s \in stale
  /\ row' = [row EXCEPT ![s] = SuspendStalePlaybackSession(@)]
  /\ stale' = stale \ {s}
  /\ UNCHANGED <<clockVars, requestVars, sweep, faults>>

SweepDone ==
  /\ sweep = "suspending" /\ stale = {}
  /\ sweep' = "idle"
  /\ UNCHANGED <<row, clockVars, requestVars, stale, faults>>

\* A statement throws: the rest of this pass is given up until the next interval.
SweepFails ==
  /\ sweep # "idle"
  /\ faults < MaxFaults /\ faults' = faults + 1
  /\ sweep' = "idle" /\ stale' = {}
  /\ UNCHANGED <<row, clockVars, requestVars>>

Sweeper ==
  \/ SweepOnce \/ SecondPass \/ SweepDone
  \/ \E s \in Requests : EndStalePlaybackSession(s) \/ SuspendStale(s)

Next ==
  \/ \E s \in Requests :
       \/ CreateSession(s) \/ Gate(s) \/ RequestFails(s)
       \/ Heartbeat(s) \/ EndSession(s) \/ Leave(s) \/ WorkerWrite(s) \/ WorkerFails(s)
  \/ Tick \/ Sweeper \/ SweepFails

Spec == Init /\ [][Next]_vars

\* Awaited calls settle, time passes and the sweeper's interval fires.
FairSpec ==
  /\ Spec
  /\ \A s \in Requests : WF_vars(Gate(s))
  /\ WF_vars(Tick) /\ WF_vars(Sweeper)

-----------------------------------------------------------------------------
(* Properties.                                                             *)

TypeOK ==
  /\ row \in [Requests -> SlotRow \cup {NULL}]
  /\ age \in [Requests -> 0 .. Horizon]
  /\ UNION {unheard, job, gone, stale} \subseteq Requests
  /\ pc \in [Requests -> {"idle", "admit", "reclaim", "recount", "create", "enqueue",
                          "open", "refused", "error"}]
  /\ decision \in [Requests -> Decisions \cup {NULL}] /\ cap \in [Requests -> Caps \cup {0}]
  /\ tail \in Seq(Requests) /\ sweep \in {"idle", "ending", "suspending"}
  /\ faults \in 0 .. MaxFaults

\* A transcode session is only ever inserted into a free slot: with it there are at
\* most as many as the cap its request read, whatever POSTs, closes, heartbeats and
\* sweeps ran between the gate's count and its insert ("the count AND the insert run
\* inside one critical section").
NeverOverCap ==
  [][\A s \in Requests :
       row[s] = NULL /\ row'[s] # NULL /\ decision[s] = "transcode"
         => CountActiveTranscodeSessions' <= cap[s]]_vars

-----------------------------------------------------------------------------
(* The inductive invariant behind NeverOverCap.                            *)

\* Whatever writes a row later was given it by an insert; only finitely many were.
RowsInv ==
  /\ \A s \in Requests : s \in job \cup stale \/ pc[s] = "enqueue" => row[s] # NULL
  /\ \A s \in Requests : pc[s] = "idle" => row[s] = NULL
  /\ IsFiniteSet({s \in Requests : row[s] # NULL})

\* Only the attempt at the head of the chain is between its count and its insert.
InAttempt(s) == pc[s] \in {"reclaim", "recount", "create"} /\ decision[s] = "transcode"
ChainInv ==
  /\ \A s \in Requests : pc[s] \in {"admit", "reclaim", "recount"} => decision[s] = "transcode"
  /\ \A s \in Requests : InAttempt(s) => HasGate(s)

\* The free slot it counted is still free when it inserts.
SlotInv ==
  \A s \in Requests :
    pc[s] = "create" /\ decision[s] = "transcode" => CountActiveTranscodeSessions < cap[s]

IInv == TypeOK /\ RowsInv /\ ChainInv /\ SlotInv

-----------------------------------------------------------------------------
(* Liveness, and what a document says that the code does not do.           *)

\* Every POST is answered: no failed, refused or 404 attempt wedges the chain for
\* those behind it ("one failed admission cannot wedge the gate").
EveryRequestAnswered ==
  \A s \in Requests : pc[s] # "idle" ~> pc[s] \in {"open", "refused", "error"}

\* The slot of a viewer who left, or of a request whose enqueue failed after the
\* insert, is given back whatever state the worker has left the row in.
AbandonedSlotFreed ==
  \A s \in Requests : s \in gone \/ pc[s] = "error" ~> ~Opened(s)

\* docs/PLAYBACK.md on reclamation: "An ACTIVE (heartbeating) session is never
\* touched".  (A throttle-suspended row drops the heartbeats its viewer sends.)
HeartbeatingNotEvicted ==
  [][\A s, t \in Requests :
       pc[s] = "reclaim" /\ pc'[s] = "recount" /\ Opened(t) /\ ~Live(row'[t])
         => t \notin unheard]_vars
=============================================================================
