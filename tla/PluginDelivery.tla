----------------------------- MODULE PluginDelivery -----------------------------
(***************************************************************************)
(* Delivery of the event outbox to one subscriber plugin: the poll loop of *)
(* apps/worker/src/plugin-delivery, its durable cursor, its retention gaps *)
(* and the in-memory circuit breaker of packages/plugin-host.              *)
(*                                                                         *)
(* What is abstracted:                                                     *)
(*  - An event is its seq, the order of its INSERT.  Its id is the time of *)
(*    the INSERT and random bits; its ts is the writer's clock, earlier    *)
(*    than the INSERT by less than the retention window.  One clock.       *)
(*  - Every event is of a granted type; it is deliverable ("plain") or     *)
(*    clearance-filtered ("hidden").  An event whose transaction rolls     *)
(*    back is one that never commits, and one of another type is as good.  *)
(*  - Plugins share nothing but the `ticking` guard (one plugin's tick may *)
(*    delay the next poll, never a result), so one plugin is modelled.     *)
(*  - A tick that only waits (backoff, nothing to read) changes nothing;   *)
(*    the jittered backoff is bounded, so a due tick always comes.         *)
(*  - The breaker's reset timeout is a flag that some step sets.           *)
(***************************************************************************)
EXTENDS Integers, FiniteSets

CONSTANTS
  NULL,
  MaxEvents,   \* bound: events ever written
  MaxNow,      \* bound: the clock
  Window,      \* LPP_DELIVERY_RETENTION_WINDOW_MS
  Tails,       \* the random bits of an id
  Limit,       \* LPP_DELIVERY_BATCH_MAX
  Threshold,   \* LPP_BREAKER_FAILURE_THRESHOLD
  Budget       \* bound: events, their oddities, faults and interventions together

ASSUME DeliveryAssumption ==
  /\ MaxEvents \in Nat /\ MaxNow \in Nat /\ Window \in Nat /\ Tails \subseteq Nat
  /\ Limit \in Nat \ {0} /\ Threshold \in Nat \ {0} /\ Budget \in Nat
  /\ NULL \notin Int

VARIABLES
  now,        \* the clock
  kind,       \* what each event is
  ts,         \* its ts_ms
  ms, tail,   \* its id: the time of the INSERT and random bits
  status,     \* the transaction that inserts it
  cursor,     \* plugin_delivery_cursors: event (0: none), consecutive_failures,
              \* gap_reported_through_ms
  enabled,    \* plugins.enabled
  checked,    \* plugins.consecutive_failures
  breaker,    \* this process's PluginCircuitBreaker; NULL until first needed
  tick,       \* deliverOnePluginTick's locals; NULL between ticks
  spent,      \* of the budget
  acked,      \* history: events of a batch the plugin answered 2xx
  told,       \* history: the times gap reports answered 2xx cover
  late,       \* history: events committed when the cursor or the page was past them
  lost,       \* history: gap events passed with a page that was all filtered
  missed,     \* history: events a gap query overlooked whose gap was then reported
  strikes     \* history: failures the breaker counted and the cursor recorded

outbox == <<now, kind, ts, ms, tail, status>>
plugin == <<enabled, checked>>
history == <<acked, told, late, lost, missed>>
vars == <<outbox, cursor, plugin, breaker, tick, spent, history, strikes>>

Events == 1 .. MaxEvents
Kinds == {"plain", "hidden"}
Outcomes == {"ok", "status", "counted", "uncounted"}

Breaker == [state : {"closed", "open", "half-open"}, failures : Nat, cooled : BOOLEAN]
PCs == {"cursor", "gap", "page", "advance", "call", "inflight", "record", "disable", "health"}
Tick == [pc : PCs, base : 0 .. MaxEvents, edge : Int, gap : BOOLEAN, from : Int \cup {NULL},
         last : 0 .. MaxEvents, deliver : SUBSET Events,
         before : {"closed", "open", "half-open"}, outcome : Outcomes]

ASSUME NullAssumption == NULL \notin Breaker /\ NULL \notin Tick

TypeOK ==
  /\ now \in Nat
  /\ kind \in [Events -> Kinds]
  /\ ts \in [Events -> Int] /\ ms \in [Events -> Nat] /\ tail \in [Events -> Nat]
  /\ status \in [Events -> {"none", "open", "committed"}]
  /\ cursor \in [seq : 0 .. MaxEvents, failures : Nat, through : Int \cup {NULL}]
  /\ enabled \in BOOLEAN /\ checked \in Nat
  /\ breaker \in Breaker \cup {NULL}
  /\ tick \in Tick \cup {NULL}
  /\ spent \in Nat /\ strikes \in Nat
  /\ acked \subseteq Events /\ told \subseteq Int
  /\ late \subseteq Events /\ lost \subseteq Events /\ missed \subseteq Events

One(odd) == IF odd THEN 1 ELSE 0
Spend(n) == spent + n <= Budget /\ spent' = spent + n

-----------------------------------------------------------------------------
(* The circuit breaker. *)

Larger(m, n) == IF m > n THEN m ELSE n

\* Mutant: the seed of the plugins row alone.
SeedOfRow == checked
\* The larger of the two durable counts.
Seed == Larger(checked, cursor.failures)

NewBreaker(n) ==
  [state |-> IF n >= Threshold THEN "open" ELSE "closed", failures |-> n, cooled |-> FALSE]

Admits(b) == b.state = "closed" \/ (b.state = "open" /\ b.cooled)
BeforeCall(b) == IF b.state = "open" THEN [b EXCEPT !.state = "half-open", !.cooled = FALSE] ELSE b

OnSuccess == NewBreaker(0)
OnFailure(b) ==
  IF b.state = "half-open" \/ (b.state = "closed" /\ b.failures + 1 >= Threshold)
  THEN [state |-> "open", failures |-> b.failures + 1, cooled |-> FALSE]
  ELSE [b EXCEPT !.failures = @ + 1]

\* callPlugin: what an outcome does to the breaker.
AfterCall(b, outcome) ==
  IF outcome = "ok" THEN OnSuccess
  ELSE IF outcome \in {"status", "counted"} THEN OnFailure(b)
  ELSE b

\* resetTimeoutMs has passed since the breaker opened.
CoolDown ==
  /\ breaker # NULL /\ breaker.state = "open" /\ ~breaker.cooled
  /\ breaker' = [breaker EXCEPT !.cooled = TRUE]
  /\ UNCHANGED <<outbox, cursor, plugin, tick, spent, history, strikes>>

-----------------------------------------------------------------------------
(* One tick, an await a step. *)

At(pc) == tick # NULL /\ tick.pc = pc
Granted(i) == status[i] = "committed"

\* runOnce lists the enabled subscribers and seeds a breaker it has not yet.
RunOnce ==
  /\ tick = NULL /\ enabled
  /\ breaker' = IF breaker = NULL THEN NewBreaker(Seed) ELSE breaker
  /\ tick' = [pc |-> "cursor", base |-> 0, edge |-> 0, gap |-> FALSE, from |-> NULL, last |-> 0,
              deliver |-> {}, before |-> "closed", outcome |-> "ok"]
  /\ UNCHANGED <<outbox, cursor, plugin, spent, history, strikes>>

\* The clock and the cursor are read: the window of this tick is fixed.
GetDeliveryCursor ==
  /\ At("cursor")
  /\ tick' = [tick EXCEPT !.pc = "gap", !.base = cursor.seq, !.edge = now - Window,
                          !.from = cursor.through]
  /\ UNCHANGED <<outbox, cursor, plugin, breaker, spent, history, strikes>>

\* events.id > cursor_event_id, which is not the order of seq among the events of
\* one millisecond.
IdAfter(i, c) == ms[i] > ms[c] \/ (ms[i] = ms[c] /\ tail[i] > tail[c])
BeyondId(i) == tick.base = 0 \/ IdAfter(i, tick.base)

Unconsumed == {i \in Events : Granted(i) /\ BeyondId(i) /\ ts[i] < tick.edge}

\* Mutant: the first by id.
FirstById(i) == i \in Unconsumed /\ \A k \in Unconsumed : ~IdAfter(i, k)
Oldest(i) == i \in Unconsumed /\ \A k \in Unconsumed : ts[i] <= ts[k]

\* A gap's report starts where the last one ended, or at the oldest event found.
FindOldestUnconsumed ==
  /\ At("gap")
  /\ \/ Unconsumed = {} /\ tick' = [tick EXCEPT !.pc = "page"]
     \/ \E i \in Events :
          /\ Oldest(i)
          /\ tick' = [tick EXCEPT !.pc = "page", !.gap = TRUE,
                                  !.from = IF @ = NULL THEN ts[i] ELSE @]
  /\ UNCHANGED <<outbox, cursor, plugin, breaker, spent, history, strikes>>

\* Mutant: the window edge is a floor whether or not a gap was found.
CandidatesInWindow == {i \in Events : tick.base < i /\ Granted(i) /\ ts[i] >= tick.edge}
Candidates == {i \in Events : tick.base < i /\ Granted(i) /\ (tick.gap => ts[i] >= tick.edge)}
UpTo(last) == {i \in Candidates : i <= last}

\* The first `Limit` candidates in seq order; then the clearance filter.
ListCandidates ==
  /\ At("page")
  /\ \E last \in Candidates :
       /\ Cardinality(UpTo(last)) <= Limit
       /\ Cardinality(UpTo(last)) = Limit \/ UpTo(last) = Candidates
       /\ LET deliver == {i \in UpTo(last) : kind[i] = "plain"}
          IN tick' = [tick EXCEPT !.pc = IF deliver = {} THEN "advance" ELSE "call",
                                  !.last = last, !.deliver = deliver]
  /\ UNCHANGED <<outbox, cursor, plugin, breaker, spent, history, strikes>>

NoCandidates ==
  /\ At("page") /\ Candidates = {}
  /\ tick' = NULL
  /\ UNCHANGED <<outbox, cursor, plugin, breaker, spent, history, strikes>>

\* The unread events below the floor of this tick's page, if a gap gave it one.
BelowFloor ==
  {i \in Events : tick.gap /\ tick.base < i /\ status[i] = "committed" /\ ts[i] < tick.edge}

\* Mutant: a page with nothing to deliver is left where it is.
StayBeforeFilteredEvents ==
  /\ At("advance")
  /\ tick' = NULL
  /\ UNCHANGED <<outbox, cursor, plugin, breaker, spent, history, strikes>>

AdvanceCursorPastFilteredEvents ==
  /\ At("advance")
  /\ cursor' = [cursor EXCEPT !.seq = tick.last]
  /\ lost' = lost \cup {i \in BelowFloor : i <= tick.last}
  /\ tick' = NULL
  /\ UNCHANGED <<outbox, plugin, breaker, spent, acked, told, late, missed, strikes>>

\* callPlugin up to the request: the breaker admits it, or the tick ends.
CallPlugin ==
  /\ At("call") /\ Admits(breaker)
  /\ tick' = [tick EXCEPT !.pc = "inflight", !.before = breaker.state]
  /\ breaker' = BeforeCall(breaker)
  /\ UNCHANGED <<outbox, cursor, plugin, spent, history, strikes>>

CircuitOpen ==
  /\ At("call") /\ ~Admits(breaker)
  /\ tick' = NULL
  /\ UNCHANGED <<outbox, cursor, plugin, breaker, spent, history, strikes>>

\* No signing secret, or an endpoint of another origin: a failure without a call.
NotCallable ==
  /\ At("call") /\ Spend(1)
  /\ cursor' = [cursor EXCEPT !.failures = @ + 1]
  /\ tick' = NULL
  /\ UNCHANGED <<outbox, plugin, breaker, history, strikes>>

\* The answer, or the timeout that stands for it.
PluginAnswers(outcome) ==
  /\ At("inflight")
  /\ IF outcome = "ok" THEN UNCHANGED spent ELSE Spend(1)
  /\ breaker' = AfterCall(breaker, outcome)
  /\ acked' = IF outcome = "ok" THEN acked \cup tick.deliver ELSE acked
  /\ strikes' = IF outcome = "ok" THEN 0 ELSE strikes
  /\ tick' = [tick EXCEPT !.pc = "record", !.outcome = outcome]
  /\ UNCHANGED <<outbox, cursor, plugin, told, late, lost, missed>>

Delivered == tick.outcome = "ok"

RecordDeliverySuccess ==
  /\ At("record") /\ Delivered
  /\ cursor' = [seq |-> tick.last, failures |-> 0,
                 through |-> IF tick.gap THEN tick.edge ELSE cursor.through]
  /\ told' = IF tick.gap THEN told \cup (tick.from .. tick.edge - 1) ELSE told
  /\ missed' = missed \cup {i \in BelowFloor : ~BeyondId(i)}
  /\ tick' = NULL
  /\ UNCHANGED <<outbox, plugin, breaker, spent, acked, late, lost, strikes>>

\* This call took the breaker from another state to open.
JustTripped == tick.outcome = "counted" /\ tick.before # "open" /\ breaker.state = "open"

RecordDeliveryFailure ==
  /\ At("record") /\ ~Delivered
  /\ cursor' = [cursor EXCEPT !.failures = @ + 1]
  /\ strikes' = IF tick.outcome = "uncounted" THEN strikes ELSE strikes + 1
  /\ tick' = IF JustTripped THEN [tick EXCEPT !.pc = "disable"] ELSE NULL
  /\ UNCHANGED <<outbox, plugin, breaker, spent, history>>

\* maybeDisableOnBreakerTrip: two transactions.
DisablePlugin ==
  /\ At("disable")
  /\ enabled' = FALSE
  /\ tick' = [tick EXCEPT !.pc = "health"]
  /\ UNCHANGED <<outbox, cursor, checked, breaker, spent, history, strikes>>

SetUnhealthy ==
  /\ At("health")
  /\ checked' = breaker.failures
  /\ tick' = NULL
  /\ UNCHANGED <<outbox, cursor, enabled, breaker, spent, history, strikes>>

-----------------------------------------------------------------------------
(* Faults. *)

\* A statement of the tick fails; runOnce logs it.
TickFails ==
  /\ tick # NULL /\ Spend(1)
  /\ tick' = NULL
  /\ UNCHANGED <<outbox, cursor, plugin, breaker, history, strikes>>

Crash ==
  /\ Spend(1)
  /\ tick' = NULL /\ breaker' = NULL
  /\ UNCHANGED <<outbox, cursor, plugin, history, strikes>>

-----------------------------------------------------------------------------
(* The outbox and the administrator. *)

\* writeEvent: the INSERT takes the next seq and draws an id, inside a transaction.
WriteEvent(i) ==
  /\ status[i] = "none" /\ \A k \in Events : k < i => status[k] # "none"
  /\ \E k \in Kinds, t \in (now - Window) .. now, r \in Tails :
       /\ \A j \in Events : j < i => ms[j] # now \/ tail[j] # r
       /\ kind' = [kind EXCEPT ![i] = k]
       /\ ts' = [ts EXCEPT ![i] = t]
       /\ tail' = [tail EXCEPT ![i] = r]
       /\ Spend(1 + One(k = "hidden") + One(t < now) + One(r = 0))
  /\ ms' = [ms EXCEPT ![i] = now]
  /\ status' = [status EXCEPT ![i] = "open"]
  /\ UNCHANGED <<now, cursor, plugin, breaker, tick, history, strikes>>

\* A tick whose page reaches beyond i has been read.
Paged(i) == tick # NULL /\ i <= tick.last

\* No transaction stays open until its event has left the window.
Commit(i) ==
  /\ status[i] = "open" /\ ts[i] >= now - Window
  /\ status' = [status EXCEPT ![i] = "committed"]
  /\ late' = IF i <= cursor.seq \/ Paged(i) THEN late \cup {i} ELSE late
  /\ UNCHANGED <<now, kind, ts, ms, tail, cursor, plugin, breaker, tick, spent,
                 acked, told, lost, missed, strikes>>

TimePasses ==
  /\ now < MaxNow
  /\ now' = now + 1
  /\ UNCHANGED <<kind, ts, ms, tail, status, cursor, plugin, breaker, tick, spent, history,
                 strikes>>

\* The server's health check writes the count of its own breaker, which other
\* calls feed too: any count.
HealthCheck(n) ==
  /\ Spend(1)
  /\ checked' = n
  /\ UNCHANGED <<outbox, cursor, enabled, breaker, tick, history, strikes>>

\* The administrator; FALSE also by the health check's second transaction.
SetEnabled(on) ==
  /\ IF on THEN UNCHANGED spent ELSE Spend(1)
  /\ enabled' = on
  /\ UNCHANGED <<outbox, cursor, checked, breaker, tick, history, strikes>>

-----------------------------------------------------------------------------
Init ==
  /\ now = 0
  /\ kind = [i \in Events |-> "plain"] /\ ts = [i \in Events |-> 0]
  /\ ms = [i \in Events |-> 0] /\ tail = [i \in Events |-> 0]
  /\ status = [i \in Events |-> "none"]
  /\ cursor = [seq |-> 0, failures |-> 0, through |-> NULL]
  /\ enabled = TRUE /\ checked = 0
  /\ breaker = NULL /\ tick = NULL
  /\ spent = 0 /\ strikes = 0
  /\ acked = {} /\ told = {} /\ late = {} /\ lost = {} /\ missed = {}

TickStep ==
  \/ RunOnce \/ GetDeliveryCursor \/ FindOldestUnconsumed \/ ListCandidates \/ NoCandidates
  \/ AdvanceCursorPastFilteredEvents \/ CallPlugin \/ CircuitOpen
  \/ \E outcome \in Outcomes : PluginAnswers(outcome)
  \/ RecordDeliverySuccess \/ RecordDeliveryFailure \/ DisablePlugin \/ SetUnhealthy

World ==
  \/ \E i \in Events : WriteEvent(i) \/ Commit(i)
  \/ TimePasses
  \/ \E n \in 0 .. Threshold : HealthCheck(n)
  \/ \E on \in BOOLEAN : SetEnabled(on)

Next == TickStep \/ CoolDown \/ NotCallable \/ TickFails \/ Crash \/ World
Spec == Init /\ [][Next]_vars

\* The poll interval keeps firing, a call ends with an answer or its timeout,
\* and time passes for an open breaker.
FairSpec == Spec /\ WF_vars(TickStep) /\ WF_vars(CoolDown)

-----------------------------------------------------------------------------
(* Properties. *)

Accounted(i) == i \in acked \cup late \cup lost \cup missed \/ ts[i] \in told

\* Another event was inserted in the same millisecond before i.
Sibling(i) == \E c \in Events : c < i /\ ms[c] = ms[i]

\* The cursor passes a deliverable event only when the plugin answered 2xx to a batch
\* with it or to a gap report whose range covers its time; except where the code
\* cannot see it: its transaction committed after the cursor or the page had passed
\* its seq (late), a page that was filtered whole took the gap with it (lost), or its
\* id is below the cursor's although its seq is not (missed), which only an event
\* of the cursor's own millisecond can be.
NoSilentSkip ==
  /\ \A i \in Events :
       i <= cursor.seq /\ status[i] = "committed" /\ kind[i] = "plain" => Accounted(i)
  /\ \A i \in missed : Sibling(i)

\* A restart never hands a failing plugin a fresh budget: the breaker counts at
\* least the failures it had counted and the cursor had recorded.
StrikesSurvive == breaker # NULL => breaker.failures >= strikes

\* A breaker stuck half-open: its trial ended in an outcome it does not count,
\* or its tick ended before an outcome, and only a restart frees it.
Wedged == breaker # NULL /\ breaker.state = "half-open" /\ ~At("inflight")

Owed(i) ==
  status[i] = "committed" /\ kind[i] = "plain" /\ ts[i] >= now - Window /\ ~Accounted(i)

\* While the plugin stays enabled and its breaker is not wedged, its backlog drains
\* whenever the outbox stops growing, as a finite one does: every event it may have
\* is delivered or leaves the retention window.
EventuallyDelivered ==
  <>[](enabled /\ ~Wedged) => []<>(\A i \in Events : ~Owed(i))

\* The outbox fills in seq order, at the time the clock shows; what was missed is in it.
OutboxSane ==
  /\ \A i \in Events : status[i] # "none" =>
       /\ ms[i] <= now
       /\ \A k \in Events : k < i => status[k] # "none" /\ ms[k] <= ms[i]
  /\ \A i \in missed : status[i] # "none"

\* An unread event older than the last report's end was in its range or was missed.
ThroughSane ==
  cursor.through # NULL =>
    /\ cursor.through <= now - Window
    /\ \A i \in Events : cursor.seq < i /\ Granted(i) /\ ts[i] < cursor.through =>
         ts[i] \in told \/ i \in missed

\* The tick knows what its page passes over, and its report what the floor cuts off.
TickSane ==
  tick # NULL =>
    /\ tick.pc # "cursor" => tick.base = cursor.seq \/ tick.pc \in {"disable", "health"}
    /\ tick.pc = "gap" => tick.from = cursor.through
    /\ tick.pc # "cursor" => tick.edge <= now - Window
    /\ tick.pc \in {"cursor", "gap", "page"} => tick.last = 0
    /\ tick.pc \in {"advance", "call", "inflight", "record"} =>
         /\ tick.base <= tick.last
         /\ \A i \in Events :
              tick.base < i /\ i <= tick.last /\ status[i] = "committed" /\ kind[i] = "plain"
                => i \in tick.deliver \cup late \cup BelowFloor
    /\ tick.pc \in {"cursor", "gap"} => ~tick.gap
    /\ tick.gap => tick.from # NULL
    /\ tick.pc \notin {"disable", "health"} => \A i \in BelowFloor :
         ~BeyondId(i) \/ tick.from <= ts[i] \/ ts[i] \in told \/ i \in missed
    /\ tick.pc = "advance" => tick.deliver = {}
    /\ tick.pc = "record" /\ Delivered => tick.deliver \subseteq acked
    /\ breaker # NULL

\* The durable count is never behind, and a call in flight is one ahead of it.
CountsSane ==
  /\ cursor.failures >= strikes
  /\ breaker # NULL => breaker.failures >= strikes
  /\ At("record") /\ tick.outcome \in {"status", "counted"} => breaker.failures >= strikes + 1
  /\ At("record") /\ tick.outcome = "ok" => strikes = 0

\* The inductive invariant of PluginDeliveryProofs.
IInv == TypeOK /\ OutboxSane /\ NoSilentSkip /\ ThroughSane /\ TickSane /\ CountsSane
=============================================================================
