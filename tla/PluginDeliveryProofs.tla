------------------------- MODULE PluginDeliveryProofs -------------------------
(***************************************************************************)
(* IInv of PluginDelivery is inductive, for every outbox, batch size,      *)
(* breaker threshold, retention window, drawing of ids and budget.         *)
(***************************************************************************)
EXTENDS PluginDelivery, TLAPS

\* What a breaker returns is a breaker, and what its count does.
LEMMA NewBreakerCounts ==
  ASSUME NEW n \in Nat
  PROVE  NewBreaker(n) \in Breaker /\ NewBreaker(n).failures = n
BY DEF NewBreaker, Breaker

LEMMA BreakerSteps ==
  ASSUME NEW b \in Breaker, NEW outcome \in Outcomes
  PROVE  /\ BeforeCall(b) \in Breaker /\ BeforeCall(b).failures = b.failures
         /\ AfterCall(b, outcome) \in Breaker
         /\ outcome = "ok" => AfterCall(b, outcome).failures = 0
         /\ outcome \in {"status", "counted"} => AfterCall(b, outcome).failures = b.failures + 1
         /\ outcome = "uncounted" => AfterCall(b, outcome) = b
<1>2. BeforeCall(b) \in Breaker /\ BeforeCall(b).failures = b.failures
  BY DEF BeforeCall, Breaker
<1>3. OnSuccess \in Breaker /\ OnSuccess.failures = 0
  BY DEF OnSuccess, NewBreaker, Breaker
<1>4. OnFailure(b) \in Breaker /\ OnFailure(b).failures = b.failures + 1
  BY DEF OnFailure, Breaker
<1> QED
  BY <1>2, <1>3, <1>4 DEF AfterCall, Outcomes

\* The seed covers the cursor's count.
LEMMA SeedCovers ==
  ASSUME TypeOK
  PROVE  Seed \in Nat /\ Seed >= cursor.failures
BY DEF TypeOK, Seed, Larger

\* A step that leaves the outbox, the cursor's position and the reports alone.
LEMMA Steady ==
  ASSUME IInv, UNCHANGED <<outbox, told, late, lost, missed>>, acked \subseteq acked',
         cursor'.seq = cursor.seq, cursor'.through = cursor.through
  PROVE  OutboxSane' /\ NoSilentSkip' /\ ThroughSane'
<1>1. OutboxSane'
  BY DEF IInv, OutboxSane, outbox
<1>2. NoSilentSkip'
  BY DEF IInv, NoSilentSkip, Accounted, Sibling, outbox
<1>3. ThroughSane'
  BY DEF IInv, ThroughSane, Granted, outbox
<1> QED BY <1>1, <1>2, <1>3

\* A step that ends the tick and touches neither the cursor's position nor the
\* outbox keeps the invariant, if it keeps the counts.
LEMMA TickEnds ==
  ASSUME IInv, tick' = NULL, UNCHANGED <<outbox, history>>, TypeOK',
         cursor'.seq = cursor.seq, cursor'.through = cursor.through,
         cursor'.failures >= strikes', breaker' # NULL => breaker'.failures >= strikes'
  PROVE  IInv'
<1>1. OutboxSane' /\ NoSilentSkip' /\ ThroughSane'
  BY Steady DEF history
<1>2. TickSane'
  BY DEF TickSane
<1>3. CountsSane'
  BY DEF CountsSane, At
<1> QED BY <1>1, <1>2, <1>3 DEF IInv

\* What the page and the report of a tick are made of stays as it is.
LEMMA SameTick ==
  ASSUME UNCHANGED outbox,
         tick'.base = tick.base, tick'.gap = tick.gap, tick'.edge = tick.edge
  PROVE  BelowFloor' = BelowFloor /\ \A i : BeyondId(i)' = BeyondId(i)
BY DEF BelowFloor, BeyondId, IdAfter, outbox

\* A step that leaves the worker and the events alone.
LEMMA WorldElsewhere ==
  ASSUME IInv, TypeOK', now <= now',
         UNCHANGED <<kind, ts, ms, tail, status, cursor, breaker, tick, history, strikes>>
  PROVE  IInv'
<1>0. now \in Int /\ now' \in Int /\ Window \in Int /\ TypeOK
  BY DeliveryAssumption DEF IInv, TypeOK
<1>1. NoSilentSkip'
  BY DEF IInv, NoSilentSkip, Accounted, Sibling, history
<1>2. OutboxSane'
  BY <1>0 DEF IInv, OutboxSane, TypeOK, history
<1>3. ThroughSane'
  <2>1. cursor.through # NULL => cursor.through \in Int
    BY <1>0 DEF TypeOK
  <2>2. cursor'.through # NULL => cursor'.through <= now' - Window
    BY <1>0, <2>1 DEF IInv, ThroughSane
  <2> QED BY <2>2 DEF IInv, ThroughSane, Granted, history
<1>4. TickSane'
  <2>1. tick # NULL => tick.edge \in Int
    BY <1>0 DEF TypeOK, Tick
  <2>2. tick # NULL /\ tick.pc # "cursor" => tick.edge <= now' - Window
    BY <1>0, <2>1 DEF IInv, TickSane
  <2>3. BelowFloor' = BelowFloor /\ \A i : BeyondId(i)' = BeyondId(i)
    BY DEF BelowFloor, BeyondId, IdAfter
  <2> HIDE DEF BelowFloor, BeyondId
  <2> QED BY <2>2, <2>3 DEF IInv, TickSane, Delivered, history
<1>5. CountsSane'
  BY DEF IInv, CountsSane, At
<1> QED BY <1>1, <1>2, <1>3, <1>4, <1>5 DEF IInv

\* The fields of a tick.
LEMMA TickFields ==
  ASSUME TypeOK, tick # NULL
  PROVE  /\ tick \in Tick
         /\ tick = [pc |-> tick.pc, base |-> tick.base, edge |-> tick.edge, gap |-> tick.gap,
                    from |-> tick.from, last |-> tick.last, deliver |-> tick.deliver,
                    before |-> tick.before, outcome |-> tick.outcome]
BY DEF TypeOK, Tick

LEMMA InitSane == Init => IInv
<1> SUFFICES ASSUME Init PROVE IInv
  OBVIOUS
<1>1. TypeOK
  BY DeliveryAssumption DEF Init, TypeOK, Kinds
<1> QED
  BY <1>1, DeliveryAssumption DEF Init, IInv, OutboxSane, NoSilentSkip, ThroughSane, TickSane,
     CountsSane, At, Events

\* runOnce: the new breaker counts what the cursor recorded.
LEMMA RunOnceSane == IInv /\ RunOnce => IInv'
<1> SUFFICES ASSUME IInv, RunOnce PROVE IInv'
  OBVIOUS
<1>1. TypeOK /\ Seed \in Nat /\ Seed >= cursor.failures /\ cursor.failures >= strikes
  BY SeedCovers DEF IInv, CountsSane
<1>2. breaker' \in Breaker /\ breaker'.failures >= strikes
  BY <1>1, NewBreakerCounts DEF RunOnce, IInv, CountsSane, TypeOK
<1>a. tick' \in Tick /\ tick'.pc = "cursor" /\ tick'.last = 0 /\ tick'.gap = FALSE
  BY DeliveryAssumption DEF RunOnce, Tick, PCs, Outcomes
<1>3. /\ tick' \in Tick /\ tick'.pc = "cursor" /\ tick'.last = 0 /\ tick'.gap = FALSE
      /\ tick' # NULL
  BY <1>a, NullAssumption
<1>4. TypeOK'
  BY <1>1, <1>2, <1>3 DEF RunOnce, TypeOK, outbox, plugin, history
<1>5. OutboxSane' /\ NoSilentSkip' /\ ThroughSane'
  BY Steady DEF RunOnce, history
<1>6. TickSane'
  BY <1>2, <1>3, NullAssumption DEF TickSane, BelowFloor
<1>7. CountsSane'
  BY <1>1, <1>2, <1>3 DEF RunOnce, CountsSane, At
<1> QED BY <1>4, <1>5, <1>6, <1>7 DEF IInv

\* The clock and the cursor: the window ends before now, and nothing was passed yet.
LEMMA ReadSane == IInv /\ GetDeliveryCursor => IInv'
<1> SUFFICES ASSUME IInv, GetDeliveryCursor PROVE IInv'
  OBVIOUS
<1>1. /\ tick # NULL /\ tick.pc = "cursor" /\ tick.last = 0 /\ breaker # NULL
      /\ TypeOK /\ tick \in Tick /\ tick.gap \in BOOLEAN /\ (tick.gap => tick.from # NULL)
  BY TickFields DEF IInv, TickSane, GetDeliveryCursor, At, Tick
<1>2. /\ tick' = [tick EXCEPT !.pc = "gap", !.base = cursor.seq, !.edge = now - Window,
                              !.from = cursor.through]
      /\ UNCHANGED <<outbox, cursor, plugin, breaker, spent, history, strikes>>
  BY DEF GetDeliveryCursor
<1>3. now - Window \in Int /\ cursor.seq \in 0 .. MaxEvents /\ cursor.through \in Int \cup {NULL}
  BY <1>1, DeliveryAssumption DEF TypeOK
<1>4. /\ tick' \in Tick /\ tick'.pc = "gap" /\ tick'.last = 0 /\ tick'.base = cursor.seq
      /\ tick'.edge = now - Window /\ tick'.from = cursor.through /\ tick'.gap = tick.gap
  BY <1>1, <1>2, <1>3, TickFields DEF Tick, PCs
<1>5. tick' # NULL
  BY <1>4, NullAssumption
<1>6. TypeOK'
  BY <1>1, <1>2, <1>4 DEF TypeOK, outbox, plugin, history
<1>7. OutboxSane' /\ NoSilentSkip' /\ ThroughSane'
  BY <1>2, Steady DEF history
<1>8. ~tick.gap
  BY <1>1 DEF IInv, TickSane
<1>9. TickSane'
  BY <1>1, <1>2, <1>3, <1>4, <1>5, <1>8 DEF TickSane, BelowFloor, outbox
<1>10. CountsSane'
  BY <1>2, <1>4, <1>5 DEF IInv, CountsSane, At
<1> QED BY <1>6, <1>7, <1>9, <1>10 DEF IInv

\* The gap query: what the floor will cut off is overlooked by its id, or not older
\* than the report's start, or was reported or missed before.
LEMMA GapSane == IInv /\ FindOldestUnconsumed => IInv'
<1> SUFFICES ASSUME IInv, FindOldestUnconsumed PROVE IInv'
  OBVIOUS
<1>1. /\ tick # NULL /\ tick.pc = "gap" /\ tick.last = 0 /\ tick.base = cursor.seq
      /\ tick.from = cursor.through /\ ~tick.gap /\ tick.edge <= now - Window
      /\ breaker # NULL /\ TypeOK /\ tick \in Tick
  BY TickFields DEF IInv, TickSane, FindOldestUnconsumed, At
<1>2. UNCHANGED <<outbox, cursor, plugin, breaker, spent, history, strikes>>
  BY DEF FindOldestUnconsumed
<1>3. OutboxSane' /\ NoSilentSkip' /\ ThroughSane'
  BY <1>2, Steady DEF history
<1>4. CASE tick' = [tick EXCEPT !.pc = "page"]
  <2>1. /\ tick' \in Tick /\ tick'.pc = "page" /\ tick'.last = 0 /\ tick'.base = tick.base
        /\ tick'.edge = tick.edge /\ tick'.gap = tick.gap
    BY <1>1, <1>4, TickFields DEF Tick, PCs
  <2>2. tick' # NULL
    BY <2>1, NullAssumption
  <2>3. TypeOK'
    BY <1>1, <1>2, <2>1 DEF TypeOK, outbox, plugin, history
  <2>4. TickSane'
    BY <1>1, <1>2, <2>1, <2>2 DEF TickSane, BelowFloor, outbox
  <2>5. CountsSane'
    BY <1>2, <2>1, <2>2 DEF IInv, CountsSane, At
  <2> QED BY <1>3, <2>3, <2>4, <2>5 DEF IInv
<1>5. ASSUME NEW i \in Events, Oldest(i),
             tick' = [tick EXCEPT !.pc = "page", !.gap = TRUE,
                                  !.from = IF tick.from = NULL THEN ts[i] ELSE tick.from]
      PROVE  IInv'
  <2> DEFINE from == IF tick.from = NULL THEN ts[i] ELSE tick.from
  <2>1. from \in Int /\ ts[i] \in Int /\ (tick.from = NULL => from = ts[i])
        /\ (tick.from # NULL => from = tick.from)
    BY <1>1 DEF TypeOK, Tick
  <2>2. tick' = [tick EXCEPT !.pc = "page", !.gap = TRUE, !.from = from]
    BY <1>5
  <2> HIDE DEF from
  <2>3. /\ tick' \in Tick /\ tick'.pc = "page" /\ tick'.last = 0 /\ tick'.base = tick.base
        /\ tick'.edge = tick.edge /\ tick'.gap = TRUE /\ tick'.from = from
    BY <1>1, <2>1, <2>2, TickFields DEF Tick, PCs
  <2>4. tick' # NULL /\ from # NULL
    BY <2>1, <2>3, NullAssumption, DeliveryAssumption
  <2>5. TypeOK'
    BY <1>1, <1>2, <2>3 DEF TypeOK, outbox, plugin, history
  <2>6. ASSUME NEW k \in Events, k \in BelowFloor'
        PROVE  \/ ~BeyondId(k)' \/ from <= ts[k] \/ ts[k] \in told \/ k \in missed
    <3>1. /\ cursor.seq < k /\ status[k] = "committed" /\ ts[k] < tick.edge
          /\ BeyondId(k)' = BeyondId(k)
      BY <1>1, <1>2, <2>3, <2>6 DEF BelowFloor, BeyondId, IdAfter, outbox
    <3>2. BeyondId(k) => ts[i] <= ts[k]
      BY <1>5, <3>1 DEF Oldest, Unconsumed, Granted
    <3>3. ts[k] \in Int
      BY <1>1 DEF TypeOK
    <3>4. tick.from # NULL /\ ts[k] < tick.from => ts[k] \in told \/ k \in missed
      BY <1>1, <3>1 DEF IInv, ThroughSane, Granted
    <3> QED BY <2>1, <3>1, <3>2, <3>3, <3>4
  <2>7. TickSane'
    <3>1. \A k \in BelowFloor' : ~BeyondId(k)' \/ from <= ts[k] \/ ts[k] \in told \/ k \in missed
      BY <2>6 DEF BelowFloor
    <3> HIDE DEF BelowFloor, BeyondId
    <3> QED BY <1>1, <1>2, <2>3, <2>4, <3>1 DEF TickSane, outbox, history
  <2>8. CountsSane'
    BY <1>2, <2>3, <2>4 DEF IInv, CountsSane, At
  <2> QED BY <1>3, <2>5, <2>7, <2>8 DEF IInv
<1> QED BY <1>4, <1>5 DEF FindOldestUnconsumed

\* A page passes over nothing it does not deliver, report or filter.
LEMMA ListSane == IInv /\ ListCandidates => IInv'
<1> SUFFICES ASSUME IInv, ListCandidates PROVE IInv'
  OBVIOUS
<1>1. /\ tick # NULL /\ tick.pc = "page" /\ tick.base = cursor.seq /\ breaker # NULL
      /\ TypeOK /\ tick \in Tick /\ tick.edge \in Int
  BY TickFields DEF IInv, TickSane, ListCandidates, At, Tick
<1>2. PICK last \in Candidates :
        LET deliver == {i \in UpTo(last) : kind[i] = "plain"}
        IN tick' = [tick EXCEPT !.pc = IF deliver = {} THEN "advance" ELSE "call",
                                !.last = last, !.deliver = deliver]
  BY DEF ListCandidates
<1> DEFINE deliver == {i \in UpTo(last) : kind[i] = "plain"}
           pc == IF deliver = {} THEN "advance" ELSE "call"
<1>3. last \in 0 .. MaxEvents /\ tick.base < last /\ deliver \in SUBSET Events
      /\ pc \in {"advance", "call"} /\ (pc = "advance" => deliver = {})
  BY DeliveryAssumption DEF Candidates, UpTo, Events
<1>4. \A i \in Events : tick.base < i /\ i <= last /\ status[i] = "committed" /\ kind[i] = "plain"
        => i \in deliver \cup BelowFloor
  <2> SUFFICES ASSUME NEW i \in Events, tick.base < i, i <= last,
                      status[i] = "committed", kind[i] = "plain", i \notin BelowFloor
               PROVE  i \in deliver
    OBVIOUS
  <2>1. tick.gap => ts[i] >= tick.edge
    BY <1>1 DEF BelowFloor, TypeOK
  <2>2. i \in Candidates
    BY <2>1 DEF Candidates, Granted
  <2> QED BY <2>2 DEF UpTo
<1>5. tick' = [tick EXCEPT !.pc = pc, !.last = last, !.deliver = deliver]
  BY <1>2
<1> HIDE DEF deliver, pc
<1>6. /\ tick' = [pc |-> pc, base |-> tick.base, edge |-> tick.edge, gap |-> tick.gap,
                  from |-> tick.from, last |-> last, deliver |-> deliver, before |-> tick.before,
                  outcome |-> tick.outcome]
      /\ tick.base \in 0 .. MaxEvents /\ tick.edge \in Int /\ tick.gap \in BOOLEAN
      /\ tick.from \in Int \cup {NULL}
      /\ tick.before \in {"closed", "open", "half-open"} /\ tick.outcome \in Outcomes /\ pc \in PCs
  BY <1>1, <1>3, <1>5, TickFields DEF Tick, PCs
<1>7. /\ tick' \in Tick /\ tick'.pc = pc /\ tick'.base = tick.base /\ tick'.last = last
      /\ tick'.deliver = deliver /\ tick'.gap = tick.gap /\ tick'.edge = tick.edge
      /\ tick'.from = tick.from
  BY <1>3, <1>6 DEF Tick
<1>8. tick' # NULL
  BY <1>7, NullAssumption
<1>9. UNCHANGED <<outbox, cursor, plugin, breaker, spent, history, strikes>>
  BY DEF ListCandidates
<1>10. TypeOK'
  BY <1>1, <1>7, <1>9 DEF TypeOK, outbox, plugin, history
<1>11. OutboxSane' /\ NoSilentSkip' /\ ThroughSane'
  BY <1>9, Steady DEF history
<1>12. BelowFloor' = BelowFloor /\ \A i : BeyondId(i)' = BeyondId(i)
  BY <1>7, <1>9, SameTick
<1>13. TickSane'
  <2>1. tick.base <= last
    BY <1>3, <1>6
  <2> HIDE DEF BelowFloor, BeyondId
  <2> QED BY <1>1, <1>3, <1>4, <1>7, <1>8, <1>9, <1>12, <2>1 DEF IInv, TickSane, outbox, history
<1>14. CountsSane'
  BY <1>3, <1>7, <1>9 DEF IInv, CountsSane, At
<1> QED BY <1>10, <1>11, <1>13, <1>14 DEF IInv

\* The filtered page: what it passes over was late, or went with the gap.
LEMMA AdvanceSane == IInv /\ AdvanceCursorPastFilteredEvents => IInv'
<1> SUFFICES ASSUME IInv, AdvanceCursorPastFilteredEvents PROVE IInv'
  OBVIOUS
<1>1. /\ tick # NULL /\ tick.pc = "advance" /\ tick.base = cursor.seq /\ tick.deliver = {}
      /\ TypeOK /\ tick \in Tick /\ tick' = NULL /\ tick.base <= tick.last
  BY TickFields DEF IInv, TickSane, AdvanceCursorPastFilteredEvents, At
<1>2. /\ cursor' = [cursor EXCEPT !.seq = tick.last]
      /\ lost' = lost \cup {i \in BelowFloor : i <= tick.last}
      /\ UNCHANGED <<outbox, plugin, breaker, spent, acked, told, late, missed, strikes>>
  BY DEF AdvanceCursorPastFilteredEvents
<1>3. cursor'.seq = tick.last /\ cursor'.failures = cursor.failures
      /\ cursor'.through = cursor.through /\ cursor.seq \in 0 .. MaxEvents
      /\ cursor' \in [seq : 0 .. MaxEvents, failures : Nat, through : Int \cup {NULL}]
  BY <1>1, <1>2 DEF TypeOK, Tick
<1>4. TypeOK'
  BY <1>1, <1>2, <1>3 DEF TypeOK, outbox, plugin, BelowFloor
<1>5. NoSilentSkip'
  <2>1. ASSUME NEW i \in Events, i <= tick.last, status[i] = "committed", kind[i] = "plain"
        PROVE  Accounted(i)'
    <3>1. CASE i <= cursor.seq
      BY <2>1, <3>1, <1>2 DEF IInv, NoSilentSkip, Accounted, outbox
    <3>2. CASE tick.base < i
      BY <2>1, <3>2, <1>1, <1>2 DEF IInv, TickSane, Accounted
    <3> QED BY <3>1, <3>2, <1>1 DEF TypeOK, Events
  <2> QED BY <1>2, <1>3, <2>1 DEF IInv, NoSilentSkip, Sibling, outbox
<1>6. OutboxSane'
  BY <1>2 DEF IInv, OutboxSane, outbox
<1>7. ThroughSane'
  <2>1. \A i \in Events : tick.last < i => cursor.seq < i
    BY <1>1 DEF Tick, Events, TypeOK
  <2> QED BY <1>2, <1>3, <2>1 DEF IInv, ThroughSane, Granted, outbox
<1>8. TickSane'
  BY <1>1 DEF TickSane
<1>9. CountsSane'
  BY <1>1, <1>2, <1>3 DEF IInv, CountsSane, At
<1> QED BY <1>4, <1>5, <1>6, <1>7, <1>8, <1>9 DEF IInv

\* The same, for a page that was delivered, with its gap report if it had one: what
\* the floor cut off was reported, or shares the cursor's millisecond.
LEMMA SuccessSane == IInv /\ RecordDeliverySuccess => IInv'
<1> SUFFICES ASSUME IInv, RecordDeliverySuccess PROVE IInv'
  OBVIOUS
<1>1. /\ tick # NULL /\ tick.pc = "record" /\ tick.base = cursor.seq /\ tick.deliver \subseteq acked
      /\ TypeOK /\ tick \in Tick /\ tick' = NULL /\ strikes = 0 /\ tick.base <= tick.last
      /\ (tick.gap => tick.from # NULL) /\ tick.edge <= now - Window
  BY TickFields DEF IInv, TickSane, CountsSane, RecordDeliverySuccess, At, Delivered
<1>2. /\ cursor' = [seq |-> tick.last, failures |-> 0,
                    through |-> IF tick.gap THEN tick.edge ELSE cursor.through]
      /\ told' = IF tick.gap THEN told \cup (tick.from .. tick.edge - 1) ELSE told
      /\ missed' = missed \cup {i \in BelowFloor : ~BeyondId(i)}
      /\ UNCHANGED <<outbox, plugin, breaker, spent, acked, late, lost, strikes>>
  BY DEF RecordDeliverySuccess
<1>0. /\ tick.base \in 0 .. MaxEvents /\ tick.last \in 0 .. MaxEvents /\ tick.edge \in Int
      /\ tick.from \in Int \cup {NULL} /\ tick.gap \in BOOLEAN
      /\ cursor.through \in Int \cup {NULL} /\ \A i \in Events : ts[i] \in Int
  BY <1>1 DEF Tick, TypeOK
<1>3. /\ cursor'.seq = tick.last /\ cursor'.failures = 0
      /\ cursor'.through = (IF tick.gap THEN tick.edge ELSE cursor.through)
      /\ cursor' \in [seq : 0 .. MaxEvents, failures : Nat, through : Int \cup {NULL}]
  BY <1>0, <1>2
<1>4. TypeOK'
  <2>1. told' \subseteq Int
    <3>1. told \subseteq Int /\ (tick.from .. tick.edge - 1) \subseteq Int
      BY <1>1 DEF TypeOK
    <3> QED BY <1>2, <3>1
  <2>2. missed' \subseteq Events
    BY <1>1, <1>2 DEF TypeOK, BelowFloor
  <2> QED BY <1>1, <1>2, <1>3, <2>1, <2>2 DEF TypeOK, outbox, plugin
<1>5. \A i \in BelowFloor : ts[i] \in told' \/ i \in missed'
  <2> SUFFICES ASSUME NEW i \in BelowFloor PROVE ts[i] \in told' \/ i \in missed'
    OBVIOUS
  <2>1. i \in Events /\ tick.gap /\ ts[i] < tick.edge /\ ts[i] \in Int
    BY <1>0 DEF BelowFloor
  <2>2. ~BeyondId(i) \/ tick.from <= ts[i] \/ ts[i] \in told \/ i \in missed
    BY <1>1 DEF IInv, TickSane
  <2>3. CASE tick.from <= ts[i]
    <3>1. ts[i] \in tick.from .. tick.edge - 1
      BY <1>0, <1>1, <2>1, <2>3
    <3> QED BY <1>2, <2>1, <3>1
  <2> QED BY <1>2, <2>1, <2>2, <2>3
<1>6. told \subseteq told' /\ missed \subseteq missed'
  BY <1>2
<1>7. NoSilentSkip'
  <2>1. ASSUME NEW i \in Events, i <= tick.last, status[i] = "committed", kind[i] = "plain"
        PROVE  Accounted(i)'
    <3>1. CASE i <= cursor.seq
      BY <2>1, <3>1, <1>2, <1>6 DEF IInv, NoSilentSkip, Accounted, outbox
    <3>2. CASE tick.base < i
      <4>1. i \in tick.deliver \cup late \cup BelowFloor
        BY <2>1, <3>2, <1>1 DEF IInv, TickSane
      <4> QED BY <1>1, <1>2, <1>5, <4>1 DEF Accounted, outbox
    <3> QED BY <3>1, <3>2, <1>0, <1>1 DEF Events
  <2>2. ASSUME NEW i \in BelowFloor, ~BeyondId(i) PROVE Sibling(i)
    <3>1. /\ i \in Events /\ tick.base < i /\ status[i] = "committed" /\ tick.base # 0
          /\ ~IdAfter(i, tick.base)
      BY <2>2 DEF BelowFloor, BeyondId
    <3>2. tick.base \in Events /\ ms[tick.base] <= ms[i]
      BY <1>0, <3>1 DEF IInv, OutboxSane, Events
    <3>3. ms[tick.base] \in Nat /\ ms[i] \in Nat
      BY <1>1, <3>1, <3>2 DEF TypeOK
    <3>4. ms[tick.base] = ms[i]
      BY <3>1, <3>2, <3>3 DEF IdAfter
    <3> QED BY <3>1, <3>2, <3>4 DEF Sibling
  <2>3. \A i \in missed' : Sibling(i)'
    BY <1>2, <2>2 DEF IInv, NoSilentSkip, Sibling, outbox
  <2> QED BY <1>2, <1>3, <2>1, <2>3 DEF NoSilentSkip, outbox
<1>8. OutboxSane'
  <2>1. \A i \in BelowFloor : status[i] # "none"
    BY DEF BelowFloor
  <2> HIDE DEF BelowFloor
  <2> QED BY <1>2, <2>1 DEF IInv, OutboxSane, outbox
<1>9. ThroughSane'
  <2> SUFFICES ASSUME cursor'.through # NULL
               PROVE  /\ cursor'.through <= now - Window
                      /\ \A i \in Events : tick.last < i /\ Granted(i) /\ ts[i] < cursor'.through
                           => ts[i] \in told' \/ i \in missed'
    BY <1>2, <1>3 DEF ThroughSane, Granted, outbox
  <2>1. \A i \in Events : tick.last < i => cursor.seq < i
    BY <1>0, <1>1 DEF Events
  <2>2. CASE ~tick.gap
    BY <1>3, <1>6, <2>1, <2>2 DEF IInv, ThroughSane
  <2>3. CASE tick.gap
    <3>1. cursor'.through = tick.edge
      BY <1>3, <2>3
    <3>2. \A i \in Events : tick.last < i /\ Granted(i) /\ ts[i] < tick.edge => i \in BelowFloor
      BY <1>1, <2>1, <2>3 DEF BelowFloor, Granted
    <3> QED BY <1>1, <1>5, <3>1, <3>2
  <2> QED BY <1>0, <2>2, <2>3
<1>10. TickSane'
  BY <1>1 DEF TickSane
<1>11. CountsSane'
  BY <1>1, <1>2, <1>3 DEF IInv, CountsSane, At
<1> QED BY <1>4, <1>7, <1>8, <1>9, <1>10, <1>11 DEF IInv

\* A call: the breaker lets it through, and counts on.
LEMMA CallSane == IInv /\ CallPlugin => IInv'
<1> SUFFICES ASSUME IInv, CallPlugin PROVE IInv'
  OBVIOUS
<1>1. tick # NULL /\ tick.pc = "call" /\ TypeOK /\ tick \in Tick /\ breaker # NULL /\ breaker \in Breaker
  BY TickFields DEF IInv, TickSane, CallPlugin, At, TypeOK
<1>2. /\ tick' = [tick EXCEPT !.pc = "inflight", !.before = breaker.state]
      /\ breaker' = BeforeCall(breaker)
      /\ UNCHANGED <<outbox, cursor, plugin, spent, history, strikes>>
  BY DEF CallPlugin
<1>3. breaker' \in Breaker /\ breaker'.failures = breaker.failures
  BY <1>1, <1>2, BreakerSteps DEF Outcomes
<1>4. /\ tick' \in Tick /\ tick'.pc = "inflight" /\ tick'.base = tick.base /\ tick'.last = tick.last
      /\ tick'.deliver = tick.deliver /\ tick'.gap = tick.gap /\ tick'.edge = tick.edge
      /\ tick'.from = tick.from
  <2>1. breaker.state \in {"closed", "open", "half-open"}
    BY <1>1 DEF Breaker
  <2> QED BY <1>1, <1>2, <2>1, TickFields DEF Tick, PCs
<1>5. tick' # NULL /\ breaker' # NULL
  BY <1>3, <1>4, NullAssumption
<1>6. TypeOK'
  BY <1>1, <1>2, <1>3, <1>4 DEF TypeOK, outbox, plugin, history
<1>7. OutboxSane' /\ NoSilentSkip' /\ ThroughSane'
  BY <1>2, Steady DEF history
<1>8. BelowFloor' = BelowFloor /\ \A i : BeyondId(i)' = BeyondId(i)
  BY <1>2, <1>4, SameTick
<1>9. TickSane'
  BY <1>1, <1>2, <1>4, <1>5, <1>8 DEF IInv, TickSane, outbox, history
<1>10. CountsSane'
  BY <1>1, <1>2, <1>3, <1>4, <1>5 DEF IInv, CountsSane, At
<1> QED BY <1>6, <1>7, <1>9, <1>10 DEF IInv

\* An answer: a 2xx acknowledges the batch and clears the count, a counted
\* failure puts the breaker one ahead of the cursor.
LEMMA AnswerSane == \A outcome \in Outcomes : IInv /\ PluginAnswers(outcome) => IInv'
<1> SUFFICES ASSUME NEW outcome \in Outcomes, IInv, PluginAnswers(outcome) PROVE IInv'
  OBVIOUS
<1>1. tick # NULL /\ tick.pc = "inflight" /\ TypeOK /\ tick \in Tick /\ breaker # NULL /\ breaker \in Breaker
  BY TickFields DEF IInv, TickSane, PluginAnswers, At, TypeOK
<1>2. /\ tick' = [tick EXCEPT !.pc = "record", !.outcome = outcome]
      /\ breaker' = AfterCall(breaker, outcome)
      /\ acked' = IF outcome = "ok" THEN acked \cup tick.deliver ELSE acked
      /\ strikes' = IF outcome = "ok" THEN 0 ELSE strikes
      /\ spent' = spent \/ spent' = spent + 1
      /\ UNCHANGED <<outbox, cursor, plugin, told, late, lost, missed>>
  BY DEF PluginAnswers, Spend
<1>3. /\ breaker' \in Breaker
      /\ outcome = "ok" => breaker'.failures = 0
      /\ outcome \in {"status", "counted"} => breaker'.failures = breaker.failures + 1
      /\ outcome = "uncounted" => breaker'.failures = breaker.failures
  BY <1>1, <1>2, BreakerSteps
<1>4. /\ tick' \in Tick /\ tick'.pc = "record" /\ tick'.base = tick.base /\ tick'.last = tick.last
      /\ tick'.deliver = tick.deliver /\ tick'.gap = tick.gap /\ tick'.edge = tick.edge
      /\ tick'.from = tick.from
      /\ tick'.outcome = outcome
  BY <1>1, <1>2, TickFields DEF Tick, PCs
<1>5. tick' # NULL /\ breaker' # NULL
  BY <1>3, <1>4, NullAssumption
<1>6. tick.deliver \in SUBSET Events /\ breaker.failures \in Nat /\ strikes \in Nat
  BY <1>1 DEF Tick, Breaker, TypeOK
<1>7. TypeOK'
  BY <1>1, <1>2, <1>3, <1>4, <1>6 DEF TypeOK, outbox, plugin
<1>8. OutboxSane' /\ NoSilentSkip' /\ ThroughSane'
  BY <1>2, Steady
<1>9. BelowFloor' = BelowFloor /\ \A i : BeyondId(i)' = BeyondId(i)
  BY <1>2, <1>4, SameTick
<1>10. TickSane'
  BY <1>1, <1>2, <1>4, <1>5, <1>9 DEF IInv, TickSane, outbox, Delivered
<1>11. CountsSane'
  <2>1. cursor.failures >= strikes /\ breaker.failures >= strikes /\ cursor.failures \in Nat
    BY <1>1 DEF IInv, CountsSane, TypeOK
  <2>2. CASE outcome = "ok"
    BY <1>2, <1>3, <1>4, <1>5, <2>1, <2>2 DEF CountsSane, At
  <2>3. CASE outcome \in {"status", "counted"}
    BY <1>2, <1>3, <1>4, <1>5, <1>6, <2>1, <2>3 DEF CountsSane, At
  <2>4. CASE outcome = "uncounted"
    BY <1>2, <1>3, <1>4, <1>5, <2>1, <2>4 DEF CountsSane, At
  <2> QED BY <2>2, <2>3, <2>4 DEF Outcomes
<1> QED BY <1>7, <1>8, <1>10, <1>11 DEF IInv

\* A recorded failure: the cursor's count and the strikes move together.
LEMMA FailureSane == IInv /\ RecordDeliveryFailure => IInv'
<1> SUFFICES ASSUME IInv, RecordDeliveryFailure PROVE IInv'
  OBVIOUS
<1>1. /\ tick # NULL /\ tick.pc = "record" /\ TypeOK /\ tick \in Tick /\ tick.outcome # "ok"
      /\ breaker # NULL /\ breaker \in Breaker
  BY TickFields DEF IInv, TickSane, RecordDeliveryFailure, At, TypeOK, Delivered
<1>2. /\ cursor' = [cursor EXCEPT !.failures = cursor.failures + 1]
      /\ strikes' = IF tick.outcome = "uncounted" THEN strikes ELSE strikes + 1
      /\ tick' = [tick EXCEPT !.pc = "disable"] \/ tick' = NULL
      /\ UNCHANGED <<outbox, plugin, breaker, spent, history>>
  BY DEF RecordDeliveryFailure
<1>3. /\ cursor'.seq = cursor.seq /\ cursor'.failures = cursor.failures + 1
      /\ cursor'.through = cursor.through
      /\ cursor' \in [seq : 0 .. MaxEvents, failures : Nat, through : Int \cup {NULL}]
  BY <1>1, <1>2 DEF TypeOK
<1>4. /\ tick' \in Tick \cup {NULL}
      /\ tick' # NULL => /\ tick'.pc = "disable" /\ tick'.edge = tick.edge
                         /\ tick'.gap = tick.gap /\ tick'.from = tick.from
  BY <1>1, <1>2, TickFields DEF Tick, PCs
<1>5. TypeOK'
  BY <1>1, <1>2, <1>3, <1>4 DEF TypeOK, outbox, plugin, history
<1>6. OutboxSane' /\ NoSilentSkip' /\ ThroughSane'
  BY <1>2, <1>3, Steady DEF history
<1>7. TickSane'
  BY <1>1, <1>2, <1>4 DEF IInv, TickSane, outbox
<1>8. CountsSane'
  <2>1. /\ cursor.failures >= strikes /\ cursor.failures \in Nat /\ strikes \in Nat
        /\ breaker.failures \in Nat /\ breaker.failures >= strikes
    BY <1>1 DEF IInv, CountsSane, TypeOK, Breaker
  <2>2. tick.outcome # "uncounted" => breaker.failures >= strikes + 1
    BY <1>1 DEF IInv, CountsSane, At, Tick, Outcomes
  <2>3. cursor'.failures >= strikes' /\ breaker'.failures >= strikes'
    BY <1>2, <1>3, <2>1, <2>2
  <2> QED BY <2>3, <1>4 DEF CountsSane, At
<1> QED BY <1>5, <1>6, <1>7, <1>8 DEF IInv

\* maybeDisableOnBreakerTrip writes the plugins row only.
LEMMA DisableSane == IInv /\ DisablePlugin => IInv'
<1> SUFFICES ASSUME IInv, DisablePlugin PROVE IInv'
  OBVIOUS
<1>1. tick # NULL /\ tick.pc = "disable" /\ TypeOK /\ tick \in Tick /\ breaker # NULL
  BY TickFields DEF IInv, TickSane, DisablePlugin, At
<1>2. /\ tick' = [tick EXCEPT !.pc = "health"] /\ enabled' = FALSE
      /\ UNCHANGED <<outbox, cursor, checked, breaker, spent, history, strikes>>
  BY DEF DisablePlugin
<1>3. /\ tick' \in Tick /\ tick'.pc = "health" /\ tick'.edge = tick.edge
      /\ tick'.gap = tick.gap /\ tick'.from = tick.from
  BY <1>1, <1>2, TickFields DEF Tick, PCs
<1>4. tick' # NULL
  BY <1>3, NullAssumption
<1>5. TypeOK'
  BY <1>1, <1>2, <1>3 DEF TypeOK, outbox, history
<1>6. OutboxSane' /\ NoSilentSkip' /\ ThroughSane'
  BY <1>2, Steady DEF history
<1>7. TickSane'
  BY <1>1, <1>2, <1>3 DEF IInv, TickSane, outbox
<1>8. CountsSane'
  BY <1>2, <1>3 DEF IInv, CountsSane, At
<1> QED BY <1>5, <1>6, <1>7, <1>8 DEF IInv

\* The steps that end a tick without moving the cursor's position.
LEMMA EndSane ==
  IInv /\ (NoCandidates \/ CircuitOpen \/ NotCallable \/ SetUnhealthy \/ TickFails \/ Crash) => IInv'
<1> SUFFICES ASSUME IInv, NoCandidates \/ CircuitOpen \/ NotCallable \/ SetUnhealthy \/ TickFails \/ Crash
             PROVE  IInv'
  OBVIOUS
<1>1. /\ TypeOK /\ cursor.failures >= strikes /\ cursor.failures \in Nat /\ strikes \in Nat
      /\ breaker # NULL => breaker.failures >= strikes
  BY DEF IInv, CountsSane, TypeOK
<1>2. CASE NoCandidates \/ CircuitOpen \/ TickFails
  <2>1. tick' = NULL /\ UNCHANGED <<outbox, cursor, plugin, breaker, history, strikes>> /\ spent' \in Nat
    BY <1>1, <1>2 DEF NoCandidates, CircuitOpen, TickFails, Spend, TypeOK
  <2>2. TypeOK'
    BY <1>1, <2>1 DEF TypeOK, outbox, plugin, history
  <2> QED BY <1>1, <2>1, <2>2, TickEnds
<1>3. CASE NotCallable
  <2>1. /\ tick' = NULL /\ UNCHANGED <<outbox, plugin, breaker, history, strikes>> /\ spent' \in Nat
        /\ cursor' = [cursor EXCEPT !.failures = cursor.failures + 1]
    BY <1>1, <1>3 DEF NotCallable, Spend, TypeOK
  <2>2. /\ cursor' \in [seq : 0 .. MaxEvents, failures : Nat, through : Int \cup {NULL}]
        /\ cursor'.seq = cursor.seq /\ cursor'.failures = cursor.failures + 1
        /\ cursor'.through = cursor.through
    BY <1>1, <2>1 DEF TypeOK
  <2>3. TypeOK'
    BY <1>1, <2>1, <2>2 DEF TypeOK, outbox, plugin, history
  <2>4. cursor'.failures >= strikes'
    BY <1>1, <2>1, <2>2
  <2> QED BY <1>1, <2>1, <2>2, <2>3, <2>4, TickEnds
<1>4. CASE SetUnhealthy
  <2>1. /\ tick' = NULL /\ UNCHANGED <<outbox, cursor, enabled, breaker, spent, history, strikes>>
        /\ checked' = breaker.failures
    BY <1>4 DEF SetUnhealthy
  <2>2. breaker \in Breaker
    BY <1>1, <1>4 DEF SetUnhealthy, At, IInv, TickSane, TypeOK
  <2>3. TypeOK'
    BY <1>1, <2>1, <2>2 DEF TypeOK, outbox, history, Breaker
  <2> QED BY <1>1, <2>1, <2>3, TickEnds
<1>5. CASE Crash
  <2>1. /\ tick' = NULL /\ breaker' = NULL /\ UNCHANGED <<outbox, cursor, plugin, history, strikes>>
        /\ spent' \in Nat
    BY <1>1, <1>5 DEF Crash, Spend, TypeOK
  <2>2. TypeOK'
    BY <1>1, <2>1 DEF TypeOK, outbox, plugin, history
  <2> QED BY <1>1, <2>1, <2>2, TickEnds
<1> QED BY <1>2, <1>3, <1>4, <1>5

\* Time: the breaker may be tried again.
LEMMA CoolDownSane == IInv /\ CoolDown => IInv'
<1> SUFFICES ASSUME IInv, CoolDown PROVE IInv'
  OBVIOUS
<1>1. TypeOK /\ breaker \in Breaker /\ breaker' = [breaker EXCEPT !.cooled = TRUE]
      /\ UNCHANGED <<outbox, cursor, plugin, tick, spent, history, strikes>>
  BY DEF IInv, TypeOK, CoolDown
<1>2. breaker' \in Breaker /\ breaker'.failures = breaker.failures
  BY <1>1 DEF Breaker
<1>3. breaker' # NULL /\ breaker # NULL
  BY <1>1, <1>2, NullAssumption
<1>4. TypeOK'
  BY <1>1, <1>2 DEF TypeOK, outbox, plugin, history
<1>5. OutboxSane' /\ NoSilentSkip' /\ ThroughSane'
  BY <1>1, Steady DEF history
<1>8. BelowFloor' = BelowFloor /\ \A i : BeyondId(i)' = BeyondId(i)
  BY <1>1, SameTick
<1>6. TickSane'
  BY <1>1, <1>3, <1>8 DEF IInv, TickSane, Delivered, outbox, history
<1>7. CountsSane'
  BY <1>1, <1>2, <1>3 DEF IInv, CountsSane, At
<1> QED BY <1>4, <1>5, <1>6, <1>7 DEF IInv

\* An INSERT takes the next seq, at the time the clock shows; nothing is committed yet.
LEMMA WriteSane ==
  ASSUME IInv, NEW i \in Events, WriteEvent(i)
  PROVE  IInv'
<1>1. TypeOK /\ status[i] = "none" /\ \A k \in Events : k < i => status[k] # "none"
  BY DEF IInv, WriteEvent
<1>2. /\ UNCHANGED <<now, cursor, plugin, breaker, tick, history, strikes>>
      /\ ms' = [ms EXCEPT ![i] = now] /\ status' = [status EXCEPT ![i] = "open"]
  BY DEF WriteEvent
<1>a. \A n \in Nat : Spend(n) => spent' \in Nat
  BY <1>1 DEF Spend, TypeOK
<1>b. \A a, b, c : 1 + One(a) + One(b) + One(c) \in Nat
  BY DEF One
<1>3. PICK k \in Kinds, t \in (now - Window) .. now, r \in Tails :
        /\ kind' = [kind EXCEPT ![i] = k] /\ ts' = [ts EXCEPT ![i] = t]
        /\ tail' = [tail EXCEPT ![i] = r] /\ spent' \in Nat
  BY <1>a, <1>b DEF WriteEvent
<1>4. \A j \in Events : j # i => /\ kind'[j] = kind[j] /\ ts'[j] = ts[j] /\ ms'[j] = ms[j]
                                 /\ tail'[j] = tail[j] /\ status'[j] = status[j]
  BY <1>1, <1>2, <1>3 DEF TypeOK
<1>5. ms'[i] = now /\ status'[i] = "open" /\ now \in Nat
  BY <1>1, <1>2 DEF TypeOK
<1>6. TypeOK'
  <2>1. t \in Int /\ r \in Nat
    BY <1>1, DeliveryAssumption DEF TypeOK
  <2> QED BY <1>1, <1>2, <1>3, <1>5, <2>1 DEF TypeOK, plugin, history
<1>7. \A j \in Events : status'[j] = "committed" => status[j] = "committed" /\ j # i
  BY <1>4, <1>5
<1>8. \A j \in Events : i < j => status[j] = "none"
  BY <1>1 DEF IInv, OutboxSane
<1>9. OutboxSane'
  <2>0. \A j \in missed' : status'[j] # "none"
    BY <1>1, <1>2, <1>4 DEF IInv, OutboxSane, TypeOK, history
  <2> SUFFICES ASSUME NEW j \in Events, status'[j] # "none"
               PROVE  /\ ms'[j] <= now
                      /\ \A k2 \in Events : k2 < j => status'[k2] # "none" /\ ms'[k2] <= ms'[j]
    BY <1>2, <2>0 DEF OutboxSane
  <2>1. CASE j = i
    BY <1>1, <1>4, <1>5, <2>1 DEF IInv, OutboxSane, Events
  <2>2. CASE j # i
    BY <1>4, <1>5, <1>8, <2>2 DEF IInv, OutboxSane, Events
  <2> QED BY <2>1, <2>2
<1>10. NoSilentSkip'
  <2>1. \A j \in missed : j \in Events /\ j # i
    BY <1>1 DEF IInv, OutboxSane, TypeOK
  <2>2. \A j \in missed : Sibling(j) => Sibling(j)'
    <3> SUFFICES ASSUME NEW j \in missed, NEW c \in Events, c < j, ms[c] = ms[j]
                 PROVE  ms'[c] = ms'[j] 
      BY DEF Sibling
    <3>1. c # i
      BY <1>1, <2>1 DEF IInv, OutboxSane
    <3> QED BY <1>4, <2>1, <3>1
  <2>3. \A j \in Events : j # i => (Accounted(j) => Accounted(j)')
    BY <1>2, <1>4 DEF Accounted, history
  <2> QED BY <1>2, <1>4, <1>7, <2>2, <2>3 DEF IInv, NoSilentSkip, history
<1>11. ThroughSane'
  BY <1>2, <1>4, <1>7 DEF IInv, ThroughSane, Granted, history
<1>12. BelowFloor' \subseteq BelowFloor
  BY <1>2, <1>4, <1>7 DEF BelowFloor
<1>13. TickSane'
  <2> SUFFICES ASSUME tick # NULL PROVE TickSane'
    BY <1>2 DEF TickSane
  <2>1. \A j \in BelowFloor' : BeyondId(j)' = BeyondId(j) /\ ts'[j] = ts[j]
    <3> SUFFICES ASSUME NEW j \in BelowFloor' PROVE BeyondId(j)' = BeyondId(j) /\ ts'[j] = ts[j]
      OBVIOUS
    <3>1. j \in Events /\ j # i /\ tick.base < j /\ status[j] = "committed"
      BY <1>2, <1>7 DEF BelowFloor
    <3>2. tick.base # 0 => tick.base \in Events /\ tick.base # i
      <4>1. tick # NULL /\ tick.base \in 0 .. MaxEvents
        BY <1>1 DEF TypeOK, Tick
      <4>2. tick.base # 0 => tick.base \in Events
        BY <4>1 DEF Events
      <4>3. tick.base # 0 => status[tick.base] # "none"
        BY <3>1, <4>2 DEF IInv, OutboxSane
      <4> QED BY <1>1, <4>2, <4>3
    <3> QED BY <1>2, <1>4, <3>1, <3>2 DEF BeyondId, IdAfter
  <2>2. \A j \in Events : j \in BelowFloor /\ status'[j] = "committed" => j \in BelowFloor'
    BY <1>2, <1>4, <1>7 DEF BelowFloor
  <2> HIDE DEF BelowFloor, BeyondId
  <2> QED BY <1>2, <1>4, <1>7, <1>12, <2>1, <2>2 DEF IInv, TickSane, Delivered, history
<1>14. CountsSane'
  BY <1>2 DEF IInv, CountsSane, At
<1> QED BY <1>6, <1>9, <1>10, <1>11, <1>13, <1>14 DEF IInv

\* An event that commits behind the cursor or the page is late, and one that commits
\* at all is still in the window.
LEMMA CommitSane ==
  ASSUME IInv, NEW i \in Events, Commit(i)
  PROVE  IInv'
<1>1. TypeOK
  BY DEF IInv
<1>2. /\ UNCHANGED <<now, kind, ts, ms, tail, cursor, plugin, breaker, tick, spent>>
      /\ UNCHANGED <<acked, told, lost, missed, strikes>>
      /\ status' = [status EXCEPT ![i] = "committed"] /\ status[i] = "open"
      /\ ts[i] >= now - Window
      /\ late' = IF i <= cursor.seq \/ Paged(i) THEN late \cup {i} ELSE late
  BY DEF Commit
<1>3. \A k \in Events : /\ status'[k] = "committed" => k = i \/ status[k] = "committed"
                        /\ status[k] = "committed" => status'[k] = "committed"
                        /\ status'[k] # "none" <=> status[k] # "none"
  BY <1>1, <1>2 DEF TypeOK
<1>4. late \subseteq late' /\ late' \subseteq Events
  BY <1>1, <1>2 DEF TypeOK
<1>5. TypeOK'
  BY <1>1, <1>2, <1>4 DEF TypeOK, plugin
<1>6. NoSilentSkip'
  BY <1>2, <1>3, <1>4 DEF IInv, NoSilentSkip, Accounted, Sibling
<1>7. OutboxSane'
  BY <1>2, <1>3 DEF IInv, OutboxSane
<1>8. now - Window \in Int /\ ts[i] \in Int
  BY <1>1, DeliveryAssumption DEF TypeOK
<1>9. ThroughSane'
  <2>1. cursor.through # NULL => ~(ts[i] < cursor.through)
    BY <1>1, <1>2, <1>8 DEF IInv, ThroughSane, TypeOK
  <2> QED BY <1>2, <1>3, <2>1 DEF IInv, ThroughSane, Granted
<1>10. TickSane'
  <2>1. tick # NULL /\ i <= tick.last => i \in late'
    BY <1>2 DEF Paged
  <2>2. tick # NULL /\ tick.gap => ~(ts[i] < tick.edge)
    BY <1>1, <1>2, <1>8 DEF IInv, TickSane, TypeOK, Tick
  <2>3. tick # NULL => BelowFloor' = BelowFloor /\ \A k : BeyondId(k)' = BeyondId(k)
    BY <1>2, <1>3, <2>2 DEF BelowFloor, BeyondId, IdAfter
  <2> HIDE DEF BelowFloor, BeyondId
  <2> QED BY <1>2, <1>3, <1>4, <2>1, <2>3 DEF IInv, TickSane, Delivered
<1>11. CountsSane'
  BY <1>2 DEF IInv, CountsSane, At
<1> QED BY <1>5, <1>6, <1>7, <1>9, <1>10, <1>11 DEF IInv

LEMMA WorldSane == IInv /\ World => IInv'
<1> SUFFICES ASSUME IInv, World PROVE IInv'
  OBVIOUS
<1>1. TypeOK
  BY DEF IInv
<1>2. CASE \E i \in Events : WriteEvent(i) \/ Commit(i)
  BY <1>2, WriteSane, CommitSane
<1>3. CASE TimePasses
  <2>1. TypeOK' /\ now <= now'
    BY <1>1, <1>3 DEF TimePasses, TypeOK, plugin, history
  <2> QED BY <1>3, <2>1, WorldElsewhere DEF TimePasses
<1>4. CASE \E n \in 0 .. Threshold : HealthCheck(n)
  <2>1. TypeOK'
    BY <1>1, <1>4, DeliveryAssumption DEF HealthCheck, Spend, TypeOK, outbox, history
  <2> QED BY <1>1, <1>4, <2>1, WorldElsewhere DEF HealthCheck, outbox, TypeOK
<1>5. CASE \E on \in BOOLEAN : SetEnabled(on)
  <2>1. TypeOK'
    BY <1>1, <1>5 DEF SetEnabled, Spend, TypeOK, outbox, history
  <2> QED BY <1>1, <1>5, <2>1, WorldElsewhere DEF SetEnabled, outbox, TypeOK
<1> QED BY <1>2, <1>3, <1>4, <1>5 DEF World

\* The cursor never passes a deliverable event in silence but where NoSilentSkip
\* says the code is blind (late, lost and missed), and no order of crashes, failed statements and
\* answers lets the breaker fall behind the failures the cursor recorded.
THEOREM DeliveryInvariance == Spec => []IInv
<1>1. IInv /\ [Next]_vars => IInv'
  <2> SUFFICES ASSUME IInv, [Next]_vars PROVE IInv'
    OBVIOUS
  <2>1. CASE TickStep
    BY <2>1, RunOnceSane, ReadSane, GapSane, ListSane, AdvanceSane, CallSane, AnswerSane,
       SuccessSane, FailureSane, DisableSane, EndSane DEF TickStep
  <2>2. CASE CoolDown
    BY <2>2, CoolDownSane
  <2>3. CASE NotCallable \/ TickFails \/ Crash
    BY <2>3, EndSane
  <2>4. CASE World
    BY <2>4, WorldSane
  <2>5. CASE UNCHANGED vars
    <3>1. /\ UNCHANGED <<kind, ts, ms, tail, status, cursor, breaker, tick, history, strikes>>
          /\ now <= now' /\ TypeOK'
      BY <2>5 DEF IInv, TypeOK, vars, outbox, plugin, history
    <3> QED BY <3>1, WorldElsewhere
  <2> QED BY <2>1, <2>2, <2>3, <2>4, <2>5 DEF Next
<1> QED BY InitSane, <1>1, PTL DEF Spec

\* NoSilentSkip of every reachable state.
THEOREM NothingSkipped == Spec => []NoSilentSkip
<1>1. IInv => NoSilentSkip
  BY DEF IInv
<1> QED BY <1>1, DeliveryInvariance, PTL

\* StrikesSurvive of every reachable state: the count outlives every restart.
THEOREM StrikesOutliveRestarts == Spec => []StrikesSurvive
<1>1. IInv => StrikesSurvive
  BY DEF IInv, CountsSane, StrikesSurvive
<1> QED BY <1>1, DeliveryInvariance, PTL
=============================================================================
