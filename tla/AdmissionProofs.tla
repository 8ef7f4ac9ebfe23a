---------------------------- MODULE AdmissionProofs ----------------------------
(***************************************************************************)
(* Machine-checked proofs about Admission, for every number of requests,   *)
(* caps, cut-offs and failures.                                            *)
(***************************************************************************)
EXTENDS Admission, TLAPS, FiniteSetTheorems

-----------------------------------------------------------------------------
(* The row's statements.                                                   *)

\* A statement keeps an inserted row inserted and never reopens a closed one.
Keeps(before, after) == after \in SlotRow /\ (Live(after) => Live(before))

LEMMA StatementsKeep ==
  ASSUME NEW r \in SlotRow
  PROVE /\ \A terminal \in TerminalStatuses : Keeps(r, CloseRow(r, terminal))
        /\ Keeps(r, HeartbeatPlaybackSession(r))
        /\ Keeps(r, SuspendStalePlaybackSession(r))
        /\ Keeps(r, MarkSessionStarting(r))
        /\ Keeps(r, MarkSessionActive(r, NULL))
        /\ \A suspended \in BOOLEAN : Keeps(r, SetThrottleSuspended(r, suspended))
<1> USE DEF Keeps, SlotRow, Live, LiveStatuses, TerminalStatuses, Statuses
<1>1. ASSUME NEW terminal \in TerminalStatuses PROVE Keeps(r, CloseRow(r, terminal))
  <2>1. CASE Live(r)
    <3>1. CloseRow(r, terminal) = [r EXCEPT !.status = terminal]
      BY <2>1 DEF CloseRow
    <3> QED BY <2>1, <3>1
  <2>2. CASE ~Live(r)
    BY <2>2 DEF CloseRow
  <2> QED BY <2>1, <2>2
<1>2. Keeps(r, HeartbeatPlaybackSession(r))
  <2>1. CASE AcceptsHeartbeat(r)
    <3>1. HeartbeatPlaybackSession(r) = [r EXCEPT !.status = "active"]
      BY <2>1 DEF HeartbeatPlaybackSession
    <3>2. Live(r)
      BY <2>1 DEF AcceptsHeartbeat
    <3> QED BY <3>1, <3>2
  <2>2. CASE ~AcceptsHeartbeat(r)
    BY <2>2 DEF HeartbeatPlaybackSession
  <2> QED BY <2>1, <2>2
<1>3. Keeps(r, SuspendStalePlaybackSession(r))
  <2>1. CASE r.status = "active"
    <3>1. SuspendStalePlaybackSession(r) = [r EXCEPT !.status = "suspended", !.flag = FALSE]
      BY <2>1 DEF SuspendStalePlaybackSession
    <3> QED BY <2>1, <3>1
  <2>2. CASE r.status # "active"
    BY <2>2 DEF SuspendStalePlaybackSession
  <2> QED BY <2>1, <2>2
<1>4. Keeps(r, MarkSessionStarting(r))
  <2>1. CASE r.status = "created"
    <3>1. MarkSessionStarting(r) = [r EXCEPT !.status = "starting", !.staging = TRUE]
      BY <2>1 DEF MarkSessionStarting
    <3> QED BY <2>1, <3>1
  <2>2. CASE r.status # "created"
    BY <2>2 DEF MarkSessionStarting
  <2> QED BY <2>1, <2>2
<1>5. Keeps(r, MarkSessionActive(r, NULL))
  <2>1. CASE Live(r)
    <3>1. MarkSessionActive(r, NULL) = [r EXCEPT !.status = "active", !.produced = NULL]
      BY <2>1 DEF MarkSessionActive
    <3> QED BY <2>1, <3>1
  <2>2. CASE ~Live(r)
    BY <2>2 DEF MarkSessionActive
  <2> QED BY <2>1, <2>2
<1>6. ASSUME NEW suspended \in BOOLEAN PROVE Keeps(r, SetThrottleSuspended(r, suspended))
  <2>1. CASE r.status \notin {"active", "suspended"}
    BY <2>1 DEF SetThrottleSuspended
  <2>2. CASE r.status \in {"active", "suspended"} /\ suspended = TRUE
    <3>1. SetThrottleSuspended(r, suspended) = [r EXCEPT !.status = "suspended", !.flag = TRUE]
      BY <2>2 DEF SetThrottleSuspended
    <3> QED BY <2>2, <3>1
  <2>3. CASE r.status \in {"active", "suspended"} /\ suspended = FALSE
    <3>1. SetThrottleSuspended(r, suspended) = [r EXCEPT !.status = "active", !.flag = FALSE]
      BY <2>3 DEF SetThrottleSuspended
    <3> QED BY <2>3, <3>1
  <2> QED BY <2>1, <2>2, <2>3
<1> QED BY <1>1, <1>2, <1>3, <1>4, <1>5, <1>6

-----------------------------------------------------------------------------
(* The count.                                                              *)

\* The sessions a count counts are among the finitely many inserted ones.
LEMMA CountFinite ==
  ASSUME RowsInv
  PROVE /\ IsFiniteSet({s \in Requests : Counted(s)})
        /\ CountActiveTranscodeSessions \in Nat
<1>1. {s \in Requests : Counted(s)} \subseteq {s \in Requests : row[s] # NULL}
  BY DEF Counted, Opened
<1>2. IsFiniteSet({s \in Requests : row[s] # NULL})
  BY DEF RowsInv
<1>3. IsFiniteSet({s \in Requests : Counted(s)})
  BY <1>1, <1>2, FS_Subset
<1> QED BY <1>3, FS_CardinalityType DEF CountActiveTranscodeSessions

\* A step that opens no transcode session does not raise the count.
LEMMA CountFalls ==
  ASSUME RowsInv, \A s \in Requests : Counted(s)' => Counted(s)
  PROVE CountActiveTranscodeSessions' \in Nat
        /\ CountActiveTranscodeSessions' <= CountActiveTranscodeSessions
<1> DEFINE before == {s \in Requests : Counted(s)}
           after == {s \in Requests : Counted(s)'}
<1>1. IsFiniteSet(before) /\ Cardinality(before) \in Nat
  BY CountFinite DEF CountActiveTranscodeSessions
<1>2. after \subseteq before
  OBVIOUS
<1>3. IsFiniteSet(after) /\ Cardinality(after) <= Cardinality(before) /\ Cardinality(after) \in Nat
  BY <1>1, <1>2, FS_Subset, FS_CardinalityType
<1>4. CountActiveTranscodeSessions = Cardinality(before)
      /\ CountActiveTranscodeSessions' = Cardinality(after)
  BY DEF CountActiveTranscodeSessions
<1> QED BY <1>3, <1>4

\* A step that opens one session raises it by at most one.
LEMMA CountRises ==
  ASSUME RowsInv, NEW t \in Requests, \A s \in Requests \ {t} : Counted(s)' => Counted(s)
  PROVE CountActiveTranscodeSessions' \in Nat
        /\ CountActiveTranscodeSessions' <= CountActiveTranscodeSessions + 1
<1> DEFINE before == {s \in Requests : Counted(s)}
           after == {s \in Requests : Counted(s)'}
<1>1. IsFiniteSet(before) /\ Cardinality(before) \in Nat
  BY CountFinite DEF CountActiveTranscodeSessions
<1>2. IsFiniteSet(before \cup {t}) /\ Cardinality(before \cup {t}) <= Cardinality(before) + 1
      /\ Cardinality(before \cup {t}) \in Nat
  <2>1. IsFiniteSet(before \cup {t})
        /\ Cardinality(before \cup {t}) = IF t \in before THEN Cardinality(before)
                                                          ELSE Cardinality(before) + 1
    BY <1>1, FS_AddElement
  <2> HIDE DEF before
  <2> QED BY <1>1, <2>1
<1>3. after \subseteq before \cup {t}
  OBVIOUS
<1>4. Cardinality(after) <= Cardinality(before \cup {t}) /\ Cardinality(after) \in Nat
  BY <1>2, <1>3, FS_Subset, FS_CardinalityType
<1>5. CountActiveTranscodeSessions = Cardinality(before)
      /\ CountActiveTranscodeSessions' = Cardinality(after)
  BY DEF CountActiveTranscodeSessions
<1> QED BY <1>1, <1>2, <1>4, <1>5

-----------------------------------------------------------------------------
(* Steps that leave the requests alone.                                    *)

RowsKept ==
  /\ row' \in [Requests -> SlotRow \cup {NULL}]
  /\ \A s \in Requests : row'[s] = NULL <=> row[s] = NULL
  /\ \A s \in Requests : Opened(s)' => Opened(s)

\* Whatever a statement does to an inserted row, the rows are kept.
LEMMA EditKeeps ==
  ASSUME TypeOK, NEW s \in Requests, row[s] # NULL, NEW r, Keeps(row[s], r),
         row' = [row EXCEPT ![s] = r]
  PROVE RowsKept
<1>1. row \in [Requests -> SlotRow \cup {NULL}]
  BY DEF TypeOK
<1>2. r \in SlotRow /\ r # NULL /\ (Live(r) => Live(row[s]))
  BY NullAssumption DEF Keeps
<1>3. row'[s] = r /\ \A t \in Requests : t # s => row'[t] = row[t]
  BY <1>1
<1>4. row' \in [Requests -> SlotRow \cup {NULL}]
  BY <1>1, <1>2
<1> QED BY <1>2, <1>3, <1>4 DEF RowsKept, Opened

LEMMA CloseKeeps ==
  ASSUME IInv, NEW s \in Requests, row[s] # NULL, NEW terminal \in TerminalStatuses,
         Close(s, terminal)
  PROVE /\ RowsKept
        /\ age' \in [Requests -> 0 .. Horizon]
        /\ unheard' \subseteq Requests /\ gone' \subseteq Requests
        /\ job' \subseteq job
<1>1. TypeOK /\ row[s] \in SlotRow
  BY DEF IInv, TypeOK
<1>2. row' = [row EXCEPT ![s] = CloseRow(row[s], terminal)]
  BY DEF Close
<1>3. RowsKept
  BY <1>1, <1>2, StatementsKeep, EditKeeps
<1>4. 0 \in 0 .. Horizon
  BY AdmissionAssumption DEF Horizon, ReclaimCutoff
<1> QED BY <1>1, <1>3, <1>4 DEF Close, TypeOK

\* While rows only close and no request moves, nothing the gate relies on changes.
LEMMA BackgroundKeeps ==
  ASSUME IInv, TypeOK', RowsKept, UNCHANGED <<pc, decision, cap, tail>>, job' \subseteq job,
         \A s \in stale' : row[s] # NULL
  PROVE IInv'
<1>1. RowsInv'
  <2>1. {s \in Requests : row'[s] # NULL} = {s \in Requests : row[s] # NULL}
    BY DEF RowsKept
  <2> QED BY <2>1 DEF IInv, RowsInv, RowsKept
<1>2. ChainInv'
  BY DEF IInv, ChainInv, InAttempt, HasGate
<1>3. CountActiveTranscodeSessions' \in Nat
      /\ CountActiveTranscodeSessions' <= CountActiveTranscodeSessions
  <2>1. \A s \in Requests : Counted(s)' => Counted(s)
    BY DEF RowsKept, Counted
  <2> QED BY <2>1, CountFalls DEF IInv
<1>4. CountActiveTranscodeSessions \in Nat /\ cap \in [Requests -> Nat]
  <2>1. Caps \cup {0} \subseteq Nat
    BY AdmissionAssumption
  <2>2. cap \in [Requests -> Caps \cup {0}]
    BY DEF IInv, TypeOK
  <2> QED BY <2>1, <2>2, CountFinite DEF IInv
<1>5. SlotInv'
  BY <1>3, <1>4 DEF IInv, SlotInv
<1> QED BY <1>1, <1>2, <1>5 DEF IInv

\* Nothing to do with a row: the rows are kept.
LEMMA SameRows == ASSUME TypeOK, UNCHANGED row PROVE RowsKept
BY DEF TypeOK, RowsKept, Opened

\* The viewer and the worker.
LEMMA SessionKeeps ==
  ASSUME IInv, NEW s \in Requests,
         Heartbeat(s) \/ EndSession(s) \/ Leave(s) \/ WorkerWrite(s) \/ WorkerFails(s)
  PROVE IInv'
<1>1. /\ TypeOK /\ \A t \in stale : row[t] # NULL
      /\ s \in job => row[s] # NULL /\ row[s] \in SlotRow
      /\ Watching(s) => row[s] # NULL /\ row[s] \in SlotRow
  BY DEF IInv, TypeOK, RowsInv, Watching, Opened
<1>0. 0 \in 0 .. Horizon
  BY AdmissionAssumption DEF Horizon, ReclaimCutoff
<1>2. CASE Heartbeat(s)
  <2>1. row' = [row EXCEPT ![s] = HeartbeatPlaybackSession(row[s])]
    BY <1>2 DEF Heartbeat
  <2>2. RowsKept
    BY <1>1, <1>2, <2>1, StatementsKeep, EditKeeps DEF Heartbeat
  <2>3. TypeOK'
    <3>1. age' \in [Requests -> 0 .. Horizon] /\ unheard' \subseteq Requests
      <4>1. age \in [Requests -> 0 .. Horizon] /\ unheard \subseteq Requests
        BY <1>1 DEF TypeOK
      <4>2. \/ age' = [age EXCEPT ![s] = 0] /\ unheard' = unheard
            \/ unheard' = unheard \cup {s} /\ age' = age
        BY <1>2 DEF Heartbeat
      <4> QED BY <1>0, <4>1, <4>2
    <3>2. UNCHANGED <<pc, decision, cap, tail, job, gone, sweep, stale, faults>>
      BY <1>2 DEF Heartbeat, requestVars, sweepVars
    <3> QED BY <1>1, <2>2, <3>1, <3>2 DEF TypeOK, RowsKept
  <2> QED BY <1>1, <1>2, <2>2, <2>3, BackgroundKeeps DEF Heartbeat, requestVars, sweepVars
<1>3. CASE EndSession(s)
  <2>1. /\ RowsKept /\ age' \in [Requests -> 0 .. Horizon]
        /\ unheard' \subseteq Requests /\ gone' \subseteq Requests /\ job' \subseteq job
    BY <1>1, <1>3, CloseKeeps DEF EndSession, TerminalStatuses
  <2>2. UNCHANGED <<pc, decision, cap, tail, sweep, stale, faults>>
    BY <1>3 DEF EndSession, sweepVars
  <2>3. TypeOK'
    BY <1>1, <2>1, <2>2 DEF TypeOK, RowsKept
  <2> QED BY <1>1, <2>1, <2>2, <2>3, BackgroundKeeps
<1>4. CASE Leave(s)
  <2>1. /\ UNCHANGED <<row, age, unheard, pc, decision, cap, tail, job, sweep, stale, faults>>
        /\ gone' \subseteq Requests
    BY <1>1, <1>4 DEF Leave, clockVars, sweepVars, TypeOK
  <2>2. TypeOK'
    BY <1>1, <2>1 DEF TypeOK
  <2> QED BY <1>1, <2>1, <2>2, SameRows, BackgroundKeeps
<1>5. CASE WorkerWrite(s)
  <2>1. \/ row' = [row EXCEPT ![s] = MarkSessionStarting(row[s])]
        \/ row' = [row EXCEPT ![s] = MarkSessionActive(row[s], NULL)]
        \/ \E suspended \in BOOLEAN :
             row' = [row EXCEPT ![s] = SetThrottleSuspended(row[s], suspended)]
    BY <1>5 DEF WorkerWrite
  <2>2. PICK r : Keeps(row[s], r) /\ row' = [row EXCEPT ![s] = r]
    BY <1>1, <1>5, <2>1, StatementsKeep DEF WorkerWrite
  <2>3. RowsKept
    BY <1>1, <1>5, <2>2, EditKeeps DEF WorkerWrite
  <2>4. UNCHANGED <<age, unheard, pc, decision, cap, tail, job, gone, sweep, stale, faults>>
    BY <1>5 DEF WorkerWrite, clockVars, requestVars, sweepVars
  <2>5. TypeOK'
    BY <1>1, <2>3, <2>4 DEF TypeOK, RowsKept
  <2> QED BY <1>1, <2>3, <2>4, <2>5, BackgroundKeeps
<1>6. CASE WorkerFails(s)
  <2>1. /\ RowsKept /\ age' \in [Requests -> 0 .. Horizon]
        /\ unheard' \subseteq Requests /\ gone' \subseteq Requests /\ job' \subseteq job
    BY <1>1, <1>6, CloseKeeps DEF WorkerFails, TerminalStatuses
  <2>2. UNCHANGED <<pc, decision, cap, tail, sweep, stale, faults>>
    BY <1>6 DEF WorkerFails, sweepVars
  <2>3. TypeOK'
    BY <1>1, <2>1, <2>2 DEF TypeOK, RowsKept
  <2> QED BY <1>1, <2>1, <2>2, <2>3, BackgroundKeeps
<1> QED BY <1>2, <1>3, <1>4, <1>5, <1>6

\* Time and the sweeper.
LEMMA SweepKeeps ==
  ASSUME IInv, Tick \/ Sweeper \/ SweepFails
  PROVE IInv'
<1>1. TypeOK /\ \A t \in stale : t \in Requests /\ row[t] # NULL /\ row[t] \in SlotRow
  BY DEF IInv, TypeOK, RowsInv
<1>0. Horizon \in Nat
  BY AdmissionAssumption DEF Horizon, ReclaimCutoff
<1>2. CASE Tick
  <2>1. /\ UNCHANGED <<row, pc, decision, cap, tail, job, gone, sweep, stale, faults>>
        /\ unheard' = {} /\ age' \in [Requests -> 0 .. Horizon]
    <3>1. \A n \in 0 .. Horizon : Later(n) \in 0 .. Horizon
      BY <1>0 DEF Later
    <3> QED BY <1>1, <1>2, <3>1 DEF Tick, requestVars, sweepVars, TypeOK
  <2>2. TypeOK'
    BY <1>1, <2>1 DEF TypeOK
  <2> QED BY <1>1, <2>1, <2>2, SameRows, BackgroundKeeps
<1>3. CASE SweepOnce \/ SecondPass \/ SweepDone \/ SweepFails
  <2>1. /\ UNCHANGED <<row, age, unheard, pc, decision, cap, tail, job, gone>>
        /\ \A t \in stale' : t \in Requests /\ row[t] # NULL
        /\ sweep' \in {"idle", "ending", "suspending"}
    BY <1>1, <1>3 DEF SweepOnce, SecondPass, SweepDone, SweepFails, clockVars, requestVars,
       ListStalePlaybackSessions, ListHeartbeatStalePlaybackSessions, Opened
  <2>2. faults' \in 0 .. MaxFaults
    BY <1>1, <1>3, AdmissionAssumption DEF SweepOnce, SecondPass, SweepDone, SweepFails, TypeOK
  <2>3. TypeOK'
    BY <1>1, <2>1, <2>2 DEF TypeOK
  <2> QED BY <1>1, <2>1, <2>3, SameRows, BackgroundKeeps
<1>4. ASSUME NEW s \in Requests, EndStalePlaybackSession(s) PROVE IInv'
  <2>1. /\ RowsKept /\ age' \in [Requests -> 0 .. Horizon]
        /\ unheard' \subseteq Requests /\ gone' \subseteq Requests /\ job' \subseteq job
    BY <1>1, <1>4, CloseKeeps DEF EndStalePlaybackSession, TerminalStatuses
  <2>2. UNCHANGED <<pc, decision, cap, tail, sweep, faults>> /\ stale' \subseteq stale
    BY <1>4 DEF EndStalePlaybackSession
  <2>3. TypeOK'
    BY <1>1, <2>1, <2>2 DEF TypeOK, RowsKept
  <2> QED BY <1>1, <2>1, <2>2, <2>3, BackgroundKeeps
<1>5. ASSUME NEW s \in Requests, SuspendStale(s) PROVE IInv'
  <2>1. row' = [row EXCEPT ![s] = SuspendStalePlaybackSession(row[s])]
    BY <1>5 DEF SuspendStale
  <2>2. RowsKept
    BY <1>1, <1>5, <2>1, StatementsKeep, EditKeeps DEF SuspendStale
  <2>3. /\ UNCHANGED <<age, unheard, pc, decision, cap, tail, job, gone, sweep, faults>>
        /\ stale' \subseteq stale
    BY <1>5 DEF SuspendStale, clockVars, requestVars
  <2>4. TypeOK'
    BY <1>1, <2>2, <2>3 DEF TypeOK, RowsKept
  <2> QED BY <1>1, <2>2, <2>3, <2>4, BackgroundKeeps
<1> QED BY <1>2, <1>3, <1>4, <1>5 DEF Sweeper

-----------------------------------------------------------------------------
(* Steps of the requests.                                                  *)

PcStates == {"idle", "admit", "reclaim", "recount", "create", "enqueue", "open", "refused", "error"}

\* A request whose attempt has not begun, or is over, has no claim on the gate; one
\* that takes the gate's next step keeps it, and one that settles hands it on.
LEMMA MoveKeeps ==
  ASSUME IInv, RowsKept, NEW s \in Requests, NEW l \in PcStates, Goto(s, l),
         UNCHANGED <<decision, cap>>,
         pc[s] # "idle", l # "idle",
         l \in {"admit", "reclaim", "recount", "create"} => tail' = tail /\ HasGate(s),
         l \in {"admit", "reclaim", "recount"} => decision[s] = "transcode",
         l \in {"create"} => CountActiveTranscodeSessions < cap[s],
         tail' = tail \/ InAttempt(s) \/ HasGate(s),
         l = "enqueue" => row[s] # NULL,
         job' \subseteq job \cup {s}, s \in job' => row[s] # NULL, stale' = stale
  PROVE RowsInv' /\ ChainInv' /\ SlotInv'
<1>1. pc \in [Requests -> PcStates]
  BY DEF IInv, TypeOK, PcStates
<1>2. pc'[s] = l /\ \A t \in Requests : t # s => pc'[t] = pc[t]
  BY <1>1 DEF Goto
<1>3. RowsInv'
  <2>1. {t \in Requests : row'[t] # NULL} = {t \in Requests : row[t] # NULL}
    BY DEF RowsKept
  <2>2. \A t \in Requests : t \in job' \cup stale' \/ pc'[t] = "enqueue" => row'[t] # NULL
    BY <1>2 DEF IInv, RowsInv, RowsKept
  <2>3. \A t \in Requests : pc'[t] = "idle" => row'[t] = NULL
    BY <1>2 DEF IInv, RowsInv, RowsKept
  <2> QED BY <2>1, <2>2, <2>3 DEF IInv, RowsInv
<1>4. ChainInv'
  <2>1. ASSUME NEW t \in Requests, t # s, InAttempt(t)' PROVE HasGate(t)'
    <3>1. InAttempt(t) /\ HasGate(t)
      BY <1>2, <2>1 DEF IInv, ChainInv, InAttempt
    <3>2. ~HasGate(s)
      BY <2>1, <3>1 DEF HasGate
    <3>3. tail' = tail
      BY <3>2 DEF IInv, ChainInv
    <3> QED BY <3>1, <3>3 DEF HasGate
  <2>2. InAttempt(s)' => HasGate(s)'
    BY <1>2 DEF InAttempt, HasGate
  <2>3. \A t \in Requests : pc'[t] \in {"admit", "reclaim", "recount"} => decision'[t] = "transcode"
    BY <1>2 DEF IInv, ChainInv
  <2> QED BY <2>1, <2>2, <2>3 DEF ChainInv
<1>5. SlotInv'
  <2>1. \A t \in Requests : Counted(t)' => Counted(t)
    BY DEF RowsKept, Counted
  <2>2. /\ CountActiveTranscodeSessions' \in Nat /\ CountActiveTranscodeSessions \in Nat
        /\ CountActiveTranscodeSessions' <= CountActiveTranscodeSessions
    BY <2>1, CountFalls, CountFinite DEF IInv
  <2>3. cap \in [Requests -> Nat]
    <3>1. Caps \cup {0} \subseteq Nat
      BY AdmissionAssumption
    <3> QED BY <3>1 DEF IInv, TypeOK
  <2> QED BY <1>2, <2>2, <2>3 DEF IInv, SlotInv
<1> QED BY <1>3, <1>4, <1>5

\* What is known of a request's own state.
LEMMA RequestTypes ==
  ASSUME IInv, NEW s \in Requests
  PROVE /\ pc[s] \in PcStates /\ cap[s] \in Nat /\ CountActiveTranscodeSessions \in Nat
        /\ (tail # <<>> => Tail(tail) \in Seq(Requests)) /\ tail \in Seq(Requests)
        /\ Append(tail, s) \in Seq(Requests)
<1>1. TypeOK
  BY DEF IInv
<1>2. cap[s] \in Nat
  <2>1. Caps \cup {0} \subseteq Nat
    BY AdmissionAssumption
  <2> QED BY <1>1, <2>1 DEF TypeOK
<1>3. tail \in Seq(Requests)
  BY <1>1 DEF TypeOK
<1> QED BY <1>1, <1>2, <1>3, CountFinite DEF IInv, TypeOK, PcStates

\* The types of what a request's step may change.
LEMMA MoveTypes ==
  ASSUME IInv, RowsKept \/ row' \in [Requests -> SlotRow \cup {NULL}],
         NEW s \in Requests, NEW l \in PcStates, Goto(s, l),
         age' \in [Requests -> 0 .. Horizon], UNION {unheard', job', gone'} \subseteq Requests,
         decision' \in [Requests -> Decisions \cup {NULL}], cap' \in [Requests -> Caps \cup {0}],
         tail' \in Seq(Requests), faults' \in 0 .. MaxFaults, UNCHANGED sweepVars
  PROVE TypeOK'
<1>1. pc' \in [Requests -> PcStates]
  BY DEF IInv, TypeOK, PcStates, Goto
<1>2. row' \in [Requests -> SlotRow \cup {NULL}]
  BY DEF RowsKept
<1>3. stale' \subseteq Requests /\ sweep' \in {"idle", "ending", "suspending"}
  BY DEF IInv, TypeOK, sweepVars
<1> QED BY <1>1, <1>2, <1>3 DEF TypeOK, PcStates

\* The gate's steps other than the insert.
LEMMA AttemptKeeps ==
  ASSUME IInv, NEW s \in Requests, Count(s) \/ Reclaim(s) \/ Recount(s) \/ Enqueue(s) \/ RequestFails(s)
  PROVE IInv'
<1>1. /\ TypeOK /\ RowsInv /\ ChainInv /\ SlotInv
      /\ pc[s] \in PcStates /\ cap[s] \in Nat /\ CountActiveTranscodeSessions \in Nat
      /\ (tail # <<>> => Tail(tail) \in Seq(Requests)) /\ tail \in Seq(Requests)
  BY RequestTypes DEF IInv
<1>2. CASE Count(s)
  <2>1. PICK l \in {"reclaim", "create"} :
          /\ Goto(s, l)
          /\ l = "create" => CountActiveTranscodeSessions < cap[s]
    BY <1>1, <1>2 DEF Count
  <2>2. /\ UNCHANGED <<row, age, unheard, decision, cap, tail, job, gone, sweep, stale, faults>>
        /\ pc[s] = "admit" /\ HasGate(s) /\ decision[s] = "transcode"
    BY <1>1, <1>2 DEF Count, clockVars, sweepVars, ChainInv
  <2>3. RowsKept
    BY <1>1, <2>2, SameRows
  <2>4. RowsInv' /\ ChainInv' /\ SlotInv'
    <3>1. l \in PcStates /\ l # "idle" /\ l # "enqueue" /\ job' \subseteq job \cup {s}
          /\ (s \in job' => row[s] # NULL)
      BY <1>1, <2>1, <2>2 DEF PcStates, RowsInv
    <3> QED BY <2>1, <2>2, <2>3, <3>1, MoveKeeps
  <2>5. TypeOK'
    BY <1>1, <2>1, <2>2, <2>3, MoveTypes DEF TypeOK, PcStates, sweepVars
  <2> QED BY <2>4, <2>5 DEF IInv
<1>3. CASE Reclaim(s)
  <2>1. /\ UNCHANGED <<decision, cap, sweep, stale, faults>>
        /\ pc[s] = "reclaim" /\ HasGate(s) /\ decision[s] = "transcode"
    BY <1>1, <1>3 DEF Reclaim, sweepVars, ChainInv
  <2>2. CASE Goto(s, "recount") /\ tail' = tail
             /\ \E t \in Requests : Evictable(t) /\ Close(t, "failed")
    <3>1. PICK t \in Requests : Evictable(t) /\ Close(t, "failed")
      BY <2>2
    <3>2. row[t] # NULL
      BY <3>1 DEF Evictable, Counted, Opened
    <3>3. /\ RowsKept /\ age' \in [Requests -> 0 .. Horizon]
          /\ unheard' \subseteq Requests /\ gone' \subseteq Requests /\ job' \subseteq job
      BY <3>1, <3>2, CloseKeeps DEF TerminalStatuses
    <3>4. "recount" \in PcStates /\ job' \subseteq job \cup {s} /\ (s \in job' => row[s] # NULL)
      BY <1>1, <3>3 DEF PcStates, RowsInv
    <3>5. RowsInv' /\ ChainInv' /\ SlotInv'
      BY <2>1, <2>2, <3>3, <3>4, MoveKeeps
    <3>6. TypeOK'
      BY <1>1, <2>1, <2>2, <3>3, <3>4, MoveTypes DEF TypeOK, sweepVars
    <3> QED BY <3>5, <3>6 DEF IInv
  <2>3. CASE Goto(s, "refused") /\ Settle(s) /\ UNCHANGED <<row, clockVars, job, gone>>
    <3>1. tail' \in Seq(Requests) /\ RowsKept /\ UNCHANGED <<row, age, unheard, job, gone>>
      BY <1>1, <2>1, <2>3, SameRows DEF Settle, clockVars, HasGate
    <3>2. "refused" \in PcStates /\ job' \subseteq job \cup {s} /\ (s \in job' => row[s] # NULL)
      BY <1>1, <3>1 DEF PcStates, RowsInv
    <3>3. RowsInv' /\ ChainInv' /\ SlotInv'
      BY <2>1, <2>3, <3>1, <3>2, MoveKeeps
    <3>4. TypeOK'
      BY <1>1, <2>1, <2>3, <3>1, <3>2, MoveTypes DEF TypeOK, sweepVars
    <3> QED BY <3>3, <3>4 DEF IInv
  <2> QED BY <1>3, <2>2, <2>3 DEF Reclaim
<1>4. CASE Recount(s)
  <2>1. /\ UNCHANGED <<row, age, unheard, decision, cap, job, gone, sweep, stale, faults>>
        /\ pc[s] = "recount" /\ HasGate(s) /\ decision[s] = "transcode"
    BY <1>1, <1>4 DEF Recount, clockVars, sweepVars, ChainInv
  <2>2. PICK l \in {"refused", "create"} :
          /\ Goto(s, l)
          /\ l = "create" => CountActiveTranscodeSessions < cap[s] /\ tail' = tail
          /\ l = "refused" => Settle(s)
    BY <1>1, <1>4 DEF Recount
  <2>3. RowsKept /\ tail' \in Seq(Requests)
    BY <1>1, <2>1, <2>2, SameRows DEF Settle, HasGate
  <2>4. /\ l \in PcStates /\ l # "idle" /\ l # "enqueue" /\ job' \subseteq job \cup {s}
        /\ (s \in job' => row[s] # NULL)
    BY <1>1, <2>1, <2>2 DEF PcStates, RowsInv
  <2>5. RowsInv' /\ ChainInv' /\ SlotInv'
    BY <2>1, <2>2, <2>3, <2>4, MoveKeeps
  <2>6. TypeOK'
    BY <1>1, <2>1, <2>2, <2>3, <2>4, MoveTypes DEF TypeOK, sweepVars
  <2> QED BY <2>5, <2>6 DEF IInv
<1>5. CASE Enqueue(s)
  <2>1. /\ UNCHANGED <<row, age, unheard, decision, cap, tail, gone, sweep, stale, faults>>
        /\ pc[s] = "enqueue" /\ row[s] # NULL /\ Goto(s, "open") /\ job' = job \cup {s}
    BY <1>1, <1>5 DEF Enqueue, clockVars, sweepVars, RowsInv
  <2>2. RowsKept /\ "open" \in PcStates
    BY <1>1, <2>1, SameRows DEF PcStates
  <2>3. RowsInv' /\ ChainInv' /\ SlotInv'
    BY <2>1, <2>2, MoveKeeps
  <2>4. TypeOK'
    BY <1>1, <2>1, <2>2, MoveTypes DEF TypeOK, sweepVars
  <2> QED BY <2>3, <2>4 DEF IInv
<1>6. CASE RequestFails(s)
  <2>1. /\ UNCHANGED <<row, age, unheard, decision, cap, job, gone, sweep, stale>>
        /\ pc[s] # "idle" /\ Goto(s, "error") /\ faults' \in 0 .. MaxFaults
    BY <1>1, <1>6, AdmissionAssumption DEF RequestFails, clockVars, sweepVars, TypeOK
  <2>2. /\ tail' = tail \/ InAttempt(s) \/ HasGate(s)
        /\ tail' \in Seq(Requests)
    <3>1. tail' = tail \/ (tail' = Tail(tail) /\ decision[s] = "transcode" /\ pc[s] # "enqueue")
      BY <1>6 DEF RequestFails, AfterRejection, Settle
    <3>2. pc[s] \in {"admit", "reclaim", "recount", "create", "enqueue"} /\ (pc[s] = "admit" => HasGate(s))
      BY <1>6 DEF RequestFails
    <3>3. tail' = tail \/ (tail' = Tail(tail) /\ HasGate(s))
      BY <1>1, <3>1, <3>2 DEF InAttempt, ChainInv
    <3> QED BY <1>1, <3>3 DEF HasGate
  <2>3. /\ RowsKept /\ "error" \in PcStates /\ job' \subseteq job \cup {s}
        /\ (s \in job' => row[s] # NULL)
    BY <1>1, <2>1, SameRows DEF PcStates, RowsInv
  <2>4. RowsInv' /\ ChainInv' /\ SlotInv'
    BY <2>1, <2>2, <2>3, MoveKeeps
  <2>5. TypeOK'
    BY <1>1, <2>1, <2>2, <2>3, MoveTypes DEF TypeOK, sweepVars
  <2> QED BY <2>4, <2>5 DEF IInv
<1> QED BY <1>2, <1>3, <1>4, <1>5, <1>6

\* A new attempt goes to the end of the chain.
LEMMA CreateSessionKeeps ==
  ASSUME IInv, NEW s \in Requests, CreateSession(s)
  PROVE IInv'
<1>1. /\ TypeOK /\ RowsInv /\ ChainInv /\ SlotInv
      /\ tail \in Seq(Requests) /\ Append(tail, s) \in Seq(Requests)
  BY RequestTypes DEF IInv
<1>2. PICK d \in Decisions, c \in Caps :
        /\ decision' = [decision EXCEPT ![s] = d]
        /\ cap' = [cap EXCEPT ![s] = c]
        /\ tail' = IF d = "transcode" THEN Append(tail, s) ELSE tail
        /\ Goto(s, IF d = "transcode" THEN "admit" ELSE "create")
  BY DEF CreateSession
<1> DEFINE l == IF d = "transcode" THEN "admit" ELSE "create"
<1>3. /\ UNCHANGED <<row, age, unheard, job, gone, sweep, stale, faults>>
      /\ pc[s] = "idle" /\ row[s] = NULL
  BY <1>1 DEF CreateSession, clockVars, sweepVars, RowsInv
<1>4. /\ pc'[s] = l /\ decision'[s] = d
      /\ \A t \in Requests : t # s => /\ pc'[t] = pc[t] /\ decision'[t] = decision[t]
                                      /\ cap'[t] = cap[t]
  BY <1>1, <1>2 DEF TypeOK, Goto
<1>5. l \in {"admit", "create"} /\ (l = "create" => d # "transcode") /\ (l = "admit" => d = "transcode")
  OBVIOUS
<1>6. RowsKept
  BY <1>1, <1>3, SameRows
<1>7. RowsInv'
  <2>1. \A t \in Requests : t \in job' \cup stale' \/ pc'[t] = "enqueue" => row'[t] # NULL
    BY <1>1, <1>3, <1>4, <1>5 DEF RowsInv
  <2>2. \A t \in Requests : pc'[t] = "idle" => row'[t] = NULL
    BY <1>1, <1>3, <1>4 DEF RowsInv
  <2>3. IsFiniteSet({t \in Requests : row'[t] # NULL})
    BY <1>1, <1>3 DEF RowsInv
  <2> QED BY <2>1, <2>2, <2>3 DEF RowsInv
<1>8. ChainInv'
  <2>1. ASSUME NEW t \in Requests, InAttempt(t)' PROVE HasGate(t)'
    <3>1. t # s /\ InAttempt(t)
      BY <1>4, <1>5, <2>1 DEF InAttempt
    <3>2. tail # <<>> /\ t = Head(tail)
      BY <1>1, <3>1 DEF ChainInv, HasGate
    <3>3. tail' # <<>> /\ Head(tail') = Head(tail)
      BY <1>1, <1>2, <3>2
    <3> QED BY <3>2, <3>3 DEF HasGate
  <2>2. \A t \in Requests : pc'[t] \in {"admit", "reclaim", "recount"} => decision'[t] = "transcode"
    BY <1>1, <1>4, <1>5 DEF ChainInv
  <2> QED BY <2>1, <2>2 DEF ChainInv
<1>9. SlotInv'
  <2>1. \A t \in Requests : Counted(t)' => Counted(t)
    BY <1>3, <1>4 DEF Counted, Opened
  <2>2. /\ CountActiveTranscodeSessions' \in Nat /\ CountActiveTranscodeSessions \in Nat
        /\ CountActiveTranscodeSessions' <= CountActiveTranscodeSessions
    BY <1>1, <2>1, CountFalls, CountFinite
  <2>3. ASSUME NEW t \in Requests, pc'[t] = "create", decision'[t] = "transcode"
        PROVE CountActiveTranscodeSessions' < cap'[t]
    <3>1. t # s
      BY <1>4, <1>5, <2>3
    <3>2. CountActiveTranscodeSessions < cap[t] /\ cap'[t] = cap[t]
      BY <1>1, <1>4, <2>3, <3>1 DEF SlotInv
    <3>3. cap[t] \in Nat
      BY RequestTypes
    <3> QED BY <2>2, <3>2, <3>3
  <2> QED BY <2>3 DEF SlotInv
<1>10. TypeOK'
  <2>1. Goto(s, l) /\ l \in PcStates
    BY <1>2, <1>5 DEF PcStates
  <2>2. tail' \in Seq(Requests)
    BY <1>1, <1>2
  <2>3. decision' \in [Requests -> Decisions \cup {NULL}] /\ cap' \in [Requests -> Caps \cup {0}]
    BY <1>1, <1>2 DEF TypeOK
  <2> HIDE DEF l
  <2> QED BY <1>1, <1>3, <1>6, <2>1, <2>2, <2>3, MoveTypes DEF TypeOK, sweepVars
<1> QED BY <1>7, <1>8, <1>9, <1>10 DEF IInv

\* The insert, or the 404 in its place.
LEMMA CreateKeeps ==
  ASSUME IInv, NEW s \in Requests, Create(s)
  PROVE /\ IInv'
        /\ row'[s] # NULL /\ decision[s] = "transcode" => CountActiveTranscodeSessions' <= cap[s]
        /\ \A t \in Requests : t # s => row'[t] = row[t]
<1>1. /\ TypeOK /\ RowsInv /\ ChainInv /\ SlotInv
      /\ cap[s] \in Nat /\ CountActiveTranscodeSessions \in Nat
      /\ (tail # <<>> => Tail(tail) \in Seq(Requests)) /\ tail \in Seq(Requests)
  BY RequestTypes DEF IInv
<1>2. PICK l \in {"open", "enqueue", "refused"}, r \in SlotRow :
        /\ Goto(s, l)
        /\ l = "refused" => row' = row
        /\ l # "refused" => row' = [row EXCEPT ![s] = r]
  <2>1. CASE Goto(s, "refused") /\ UNCHANGED row
    <3>1. NewRow \in SlotRow
      BY DEF NewRow, SlotRow, Statuses, LiveStatuses
    <3> QED BY <2>1, <3>1
  <2>2. CASE /\ row' = [row EXCEPT ![s] = [NewRow EXCEPT
                          !.status = IF decision[s] = "direct-play" THEN "active" ELSE @]]
             /\ Goto(s, IF decision[s] = "direct-play" THEN "open" ELSE "enqueue")
    <3>1. [NewRow EXCEPT !.status = IF decision[s] = "direct-play" THEN "active" ELSE @] \in SlotRow
      BY DEF NewRow, SlotRow, Statuses, LiveStatuses
    <3> QED BY <2>2, <3>1
  <2> QED BY <2>1, <2>2 DEF Create
<1>3. /\ UNCHANGED <<age, unheard, decision, cap, job, gone, sweep, stale, faults>>
      /\ pc[s] = "create" /\ Settle(s)
  BY DEF Create, clockVars, sweepVars
<1>4. /\ row' \in [Requests -> SlotRow \cup {NULL}]
      /\ \A t \in Requests : t # s => row'[t] = row[t]
      /\ row'[s] = row[s] \/ row'[s] \in SlotRow
      /\ l = "enqueue" => row'[s] # NULL
      /\ row'[s] = NULL => row[s] = NULL
  BY <1>1, <1>2, NullAssumption DEF TypeOK
<1>5. pc'[s] = l /\ \A t \in Requests : t # s => pc'[t] = pc[t]
  BY <1>1, <1>2 DEF TypeOK, Goto
<1>6. RowsInv'
  <2>1. \A t \in Requests : t \in job' \cup stale' \/ pc'[t] = "enqueue" => row'[t] # NULL
    BY <1>1, <1>3, <1>4, <1>5 DEF RowsInv
  <2>2. \A t \in Requests : pc'[t] = "idle" => row'[t] = NULL
    BY <1>1, <1>4, <1>5 DEF RowsInv
  <2>3. IsFiniteSet({t \in Requests : row'[t] # NULL})
    <3>1. IsFiniteSet({t \in Requests : row[t] # NULL} \cup {s})
      BY <1>1, FS_AddElement DEF RowsInv
    <3>2. {t \in Requests : row'[t] # NULL} \subseteq {t \in Requests : row[t] # NULL} \cup {s}
      BY <1>4
    <3> QED BY <3>1, <3>2, FS_Subset
  <2> QED BY <2>1, <2>2, <2>3 DEF RowsInv
<1>7. decision[s] = "transcode" => HasGate(s) /\ tail' = Tail(tail)
  BY <1>1, <1>3 DEF ChainInv, InAttempt, Settle
<1>8. \A t \in Requests : InAttempt(t)' => t # s /\ InAttempt(t) /\ HasGate(t)
  BY <1>1, <1>3, <1>5 DEF InAttempt, ChainInv
<1>9. ChainInv'
  <2>1. ASSUME NEW t \in Requests, InAttempt(t)' PROVE HasGate(t)'
    <3>1. decision[s] # "transcode"
      BY <1>7, <1>8, <2>1 DEF HasGate
    <3>2. tail' = tail
      BY <1>3, <3>1 DEF Settle
    <3> QED BY <1>8, <2>1, <3>2 DEF HasGate
  <2>2. \A t \in Requests : pc'[t] \in {"admit", "reclaim", "recount"} => decision'[t] = "transcode"
    BY <1>1, <1>3, <1>5 DEF ChainInv
  <2> QED BY <2>1, <2>2 DEF ChainInv
<1>10. SlotInv'
  <2>1. ASSUME NEW t \in Requests, pc'[t] = "create", decision'[t] = "transcode"
        PROVE CountActiveTranscodeSessions' < cap'[t]
    <3>1. t # s /\ HasGate(t)
      BY <1>8, <2>1 DEF InAttempt
    <3>2. decision[s] # "transcode"
      BY <1>7, <3>1 DEF HasGate
    <3>3. \A u \in Requests : Counted(u)' => Counted(u)
      BY <1>3, <1>4, <3>2 DEF Counted, Opened
    <3>4. /\ CountActiveTranscodeSessions' \in Nat
          /\ CountActiveTranscodeSessions' <= CountActiveTranscodeSessions
      BY <1>1, <3>3, CountFalls
    <3>5. CountActiveTranscodeSessions < cap[t] /\ cap'[t] = cap[t] /\ cap[t] \in Nat
      BY <1>1, <1>3, <1>5, <2>1, <3>1, RequestTypes DEF SlotInv
    <3> QED BY <1>1, <3>4, <3>5
  <2> QED BY <2>1 DEF SlotInv
<1>11. TypeOK'
  <2>1. l \in PcStates
    BY DEF PcStates
  <2>2. tail' \in Seq(Requests)
    BY <1>1, <1>3, <1>7 DEF Settle, HasGate
  <2>3. /\ age' \in [Requests -> 0 .. Horizon] /\ UNION {unheard', job', gone'} \subseteq Requests
        /\ decision' \in [Requests -> Decisions \cup {NULL}] /\ cap' \in [Requests -> Caps \cup {0}]
        /\ faults' \in 0 .. MaxFaults
    BY <1>1, <1>3 DEF TypeOK
  <2> QED BY <1>2, <1>3, <1>4, <2>1, <2>2, <2>3, MoveTypes DEF sweepVars
<1>12. ASSUME decision[s] = "transcode" PROVE CountActiveTranscodeSessions' <= cap[s]
  <2>1. CountActiveTranscodeSessions < cap[s]
    BY <1>1, <1>3, <1>12 DEF SlotInv
  <2>2. CountActiveTranscodeSessions' \in Nat
        /\ CountActiveTranscodeSessions' <= CountActiveTranscodeSessions + 1
    <3>1. \A t \in Requests \ {s} : Counted(t)' => Counted(t)
      BY <1>3, <1>4 DEF Counted, Opened
    <3> QED BY <1>1, <3>1, CountRises
  <2> QED BY <1>1, <2>1, <2>2
<1> QED BY <1>4, <1>6, <1>9, <1>10, <1>11, <1>12 DEF IInv

-----------------------------------------------------------------------------
(* The theorems.                                                           *)

LEMMA InitHolds == Init => IInv
<1> SUFFICES ASSUME Init PROVE IInv
  OBVIOUS
<1>1. TypeOK
  <2>1. 0 \in 0 .. Horizon /\ 0 \in 0 .. MaxFaults
    BY AdmissionAssumption DEF Horizon, ReclaimCutoff
  <2>2. row \in [Requests -> SlotRow \cup {NULL}] /\ age \in [Requests -> 0 .. Horizon]
    BY <2>1 DEF Init
  <2>3. /\ decision \in [Requests -> Decisions \cup {NULL}] /\ cap \in [Requests -> Caps \cup {0}]
        /\ tail \in Seq(Requests) /\ sweep = "idle" /\ faults \in 0 .. MaxFaults
    BY <2>1 DEF Init
  <2>4. UNION {unheard, job, gone, stale} \subseteq Requests
    BY DEF Init
  <2> QED BY <2>2, <2>3, <2>4 DEF Init, TypeOK
<1>2. RowsInv
  <2>1. {s \in Requests : row[s] # NULL} = {}
    BY DEF Init
  <2> QED BY <2>1, FS_EmptySet DEF Init, RowsInv
<1>3. ChainInv /\ SlotInv
  BY DEF Init, ChainInv, InAttempt, SlotInv
<1> QED BY <1>1, <1>2, <1>3 DEF IInv

LEMMA StepKeeps == IInv /\ [Next]_vars => IInv'
<1> SUFFICES ASSUME IInv, [Next]_vars PROVE IInv'
  OBVIOUS
<1>1. CASE UNCHANGED vars
  <2>1. UNCHANGED <<row, age, unheard, pc, decision, cap, tail, job, gone, sweep, stale, faults>>
    BY <1>1 DEF vars, clockVars, requestVars, sweepVars
  <2>2. TypeOK /\ TypeOK' /\ RowsKept /\ \A s \in stale' : row[s] # NULL
    BY <2>1, SameRows DEF IInv, TypeOK, RowsInv
  <2> QED BY <2>1, <2>2, BackgroundKeeps
<1>2. CASE Tick \/ Sweeper \/ SweepFails
  BY <1>2, SweepKeeps
<1>3. ASSUME NEW s \in Requests,
             \/ CreateSession(s) \/ Gate(s) \/ RequestFails(s)
             \/ Heartbeat(s) \/ EndSession(s) \/ Leave(s) \/ WorkerWrite(s) \/ WorkerFails(s)
      PROVE IInv'
  BY <1>3, CreateSessionKeeps, AttemptKeeps, CreateKeeps, SessionKeeps DEF Gate
<1> QED BY <1>1, <1>2, <1>3 DEF Next

\* The inductive invariant holds in every reachable state: the attempts run one
\* after the other, and the slot one counted stays free until it inserts.
THEOREM AdmissionInvariance == Spec => []IInv
BY InitHolds, StepKeeps, PTL DEF Spec

\* A row appears in no step but its own request's insert.
LEMMA OnlyCreateInserts ==
  ASSUME IInv, [Next]_vars, NEW s \in Requests, row[s] = NULL, row'[s] # NULL
  PROVE Create(s)
<1>1. TypeOK
  BY DEF IInv
<1>2. ASSUME NEW t \in Requests, row[t] # NULL, row' = [row EXCEPT ![t] = row'[t]] PROVE FALSE
  BY <1>1, <1>2 DEF TypeOK
<1>3. ASSUME NEW t \in Requests, row[t] # NULL, NEW terminal, Close(t, terminal) PROVE FALSE
  <2>1. row' = [row EXCEPT ![t] = row'[t]]
    BY <1>1, <1>3 DEF TypeOK, Close
  <2> QED BY <1>2, <1>3, <2>1
<1>4. UNCHANGED row => FALSE
  OBVIOUS
<1>5. ~UNCHANGED vars /\ ~Tick /\ ~SweepOnce /\ ~SecondPass /\ ~SweepDone /\ ~SweepFails
  BY <1>4 DEF vars, Tick, SweepOnce, SecondPass, SweepDone, SweepFails
<1>6. ASSUME NEW t \in Requests PROVE ~EndStalePlaybackSession(t) /\ ~SuspendStale(t)
  <2>1. t \in stale => row[t] # NULL
    BY DEF IInv, RowsInv
  <2>2. ~EndStalePlaybackSession(t)
    BY <1>3, <2>1 DEF EndStalePlaybackSession
  <2>3. ~SuspendStale(t)
    BY <1>1, <1>2, <2>1 DEF SuspendStale, TypeOK
  <2> QED BY <2>2, <2>3
<1>7. ASSUME NEW t \in Requests
      PROVE ~Heartbeat(t) /\ ~EndSession(t) /\ ~Leave(t) /\ ~WorkerWrite(t) /\ ~WorkerFails(t)
  <2>1. (t \in job => row[t] # NULL) /\ (Watching(t) => row[t] # NULL)
    BY DEF IInv, RowsInv, Watching, Opened
  <2>2. ~EndSession(t) /\ ~WorkerFails(t) /\ ~Leave(t)
    BY <1>3, <1>4, <2>1 DEF EndSession, WorkerFails, Leave
  <2>3. ~Heartbeat(t)
    BY <1>1, <1>2, <2>1 DEF Heartbeat, TypeOK
  <2>4. ~WorkerWrite(t)
    BY <1>1, <1>2, <2>1 DEF WorkerWrite, TypeOK
  <2> QED BY <2>2, <2>3, <2>4
<1>8. ASSUME NEW t \in Requests
      PROVE ~CreateSession(t) /\ ~Count(t) /\ ~Reclaim(t) /\ ~Recount(t) /\ ~Enqueue(t) /\ ~RequestFails(t)
  <2>1. ~Reclaim(t)
    BY <1>3, <1>4 DEF Reclaim, Evictable, Counted, Opened
  <2> QED BY <1>4, <2>1 DEF CreateSession, Count, Recount, Enqueue, RequestFails
<1>9. \E t \in Requests : Create(t)
  BY <1>5, <1>6, <1>7, <1>8 DEF Next, Gate, Sweeper
<1> QED BY <1>9, CreateKeeps

\* NeverOverCap of every step: the count and the insert run inside one critical
\* section, and everything that interleaves with it only closes sessions.
THEOREM CapHolds == Spec => NeverOverCap
<1>1. IInv /\ [Next]_vars =>
        [\A s \in Requests :
           row[s] = NULL /\ row'[s] # NULL /\ decision[s] = "transcode"
             => CountActiveTranscodeSessions' <= cap[s]]_vars
  BY OnlyCreateInserts, CreateKeeps
<1> QED BY <1>1, AdmissionInvariance, PTL DEF Spec, NeverOverCap
=============================================================================
