------------------------- MODULE TranscodeWorkerProofs -------------------------
(***************************************************************************)
(* Machine-checked proofs about TranscodeWorker, for every set of sessions *)
(* and pids and every number of boots.                                     *)
(***************************************************************************)
EXTENDS TranscodeWorker, TLAPS

\* The types of the rows and of the runners' handles.
Rows == [Sessions -> [status : {"none", "open", "closed"}, pid : Pids \cup {Nobody},
                      gen : 0 .. MaxGen, staging : BOOLEAN]]
Handles == [Sessions -> [pid : Pids \cup {Nobody}, exited : BOOLEAN, terminated : BOOLEAN]]

\* A handle whose termination was requested is otherwise unchanged.
LEMMA TerminateFacts ==
  ASSUME TypeOK, NEW S \in SUBSET Sessions, Terminate(S),
         \A s \in S : handle[s].pid \in Pids
  PROVE /\ handle' \in Handles
        /\ \A s \in Sessions : handle'[s].pid = handle[s].pid /\ handle'[s].exited = handle[s].exited
        /\ dying' \subseteq Pids
<1>1. \A s \in Sessions : handle[s] \in [pid : Pids \cup {Nobody}, exited : BOOLEAN,
                                         terminated : BOOLEAN]
  BY DEF TypeOK
<1>2. dying \subseteq Pids
  BY DEF TypeOK
<1>3. Terminations(S) \subseteq Pids
  BY DEF Terminations
<1>4. dying' \subseteq Pids
  BY <1>2, <1>3 DEF Terminate, SendSignal
<1>5. handle' = [s \in Sessions |-> IF s \in S THEN [handle[s] EXCEPT !.terminated = TRUE]
                                             ELSE handle[s]]
  BY DEF Terminate
<1>6. ASSUME NEW s \in Sessions
      PROVE /\ handle'[s] \in [pid : Pids \cup {Nobody}, exited : BOOLEAN, terminated : BOOLEAN]
            /\ handle'[s].pid = handle[s].pid /\ handle'[s].exited = handle[s].exited
  BY ONLY <1>1, <1>5, <1>6
<1> QED BY ONLY <1>4, <1>5, <1>6 DEF Handles

-----------------------------------------------------------------------------
(* Preservation, by the part of the system that acts.                      *)

\* The server and the operating system.
LEMMA EnvironmentKeeps ==
  ASSUME IInv,
         \/ \E s \in Sessions : CreateSession(s)
         \/ \E s \in Sessions : CloseSession(s)
         \/ \E p \in Pids : ProcessEnds(p)
         \/ \E p \in Pids : ReusePid(p)
  PROVE IInv'
<1> USE WorkerAssumption
<1>1. ASSUME NEW s \in Sessions, CreateSession(s) PROVE IInv'
  <2> USE <1>1 DEF CreateSession
  <2>1. TypeOK'
    BY DEF IInv, TypeOK, reaperVars, historyVars
  <2>2. IdleInv' /\ HandleInv'
    BY DEF IInv, TypeOK, IdleInv, HandleInv, reaperVars
  <2>3. ClaimInv' /\ NamedInv' /\ AwaitInv'
    BY DEF IInv, TypeOK, IdleInv, ClaimInv, NamedInv, AwaitInv, reaperVars, historyVars
  <2>4. OwnInv'
    BY DEF IInv, TypeOK, IdleInv, OwnInv, reaperVars, historyVars
  <2> QED BY <2>1, <2>2, <2>3, <2>4 DEF IInv
<1>2. ASSUME NEW s \in Sessions, CloseSession(s) PROVE IInv'
  <2> USE <1>2 DEF CloseSession, workerVars
  <2>1. TypeOK'
    BY DEF IInv, TypeOK, reaperVars, historyVars
  <2>2. IdleInv' /\ HandleInv'
    BY DEF IInv, TypeOK, IdleInv, HandleInv, reaperVars
  <2>3. ClaimInv' /\ NamedInv' /\ AwaitInv'
    BY DEF IInv, TypeOK, IdleInv, ClaimInv, NamedInv, AwaitInv, reaperVars, historyVars
  <2>4. OwnInv'
    BY DEF IInv, TypeOK, IdleInv, OwnInv, reaperVars, historyVars
  <2> QED BY <2>1, <2>2, <2>3, <2>4 DEF IInv
<1>3. ASSUME NEW p \in Pids, ProcessEnds(p) PROVE IInv'
  <2> DEFINE s == proc[p]
  <2>0. /\ s # Nobody /\ proc' = [proc EXCEPT ![p] = Nobody] /\ dying' = dying \ {p}
        /\ UNCHANGED <<mode, gen, row, job, live, late, reaperVars, historyVars>>
        /\ \/ /\ s \in Sessions /\ handle' = [handle EXCEPT ![s].exited = TRUE]
              /\ waiting' = waiting \ {s}
           \/ UNCHANGED <<handle, waiting>>
    BY <1>3 DEF ProcessEnds
  <2> HIDE DEF s
  <2>1. TypeOK'
    <3>1. handle' \in Handles
      <4>1. handle \in Handles
        BY DEF IInv, TypeOK, Handles
      <4> QED BY ONLY <2>0, <4>1 DEF Handles
    <3>2. proc' \in [Pids -> Sessions \cup {Other, Nobody}] /\ dying' \subseteq Pids
      BY <2>0 DEF IInv, TypeOK
    <3>3. waiting' \subseteq Sessions
      BY <2>0 DEF IInv, TypeOK
    <3> QED BY <2>0, <3>1, <3>2, <3>3 DEF IInv, TypeOK, Handles, reaperVars, historyVars
  <2>2. IdleInv' /\ HandleInv'
    <3>1. \A t \in Sessions : handle'[t].pid = handle[t].pid
      BY <2>0 DEF IInv, TypeOK
    <3> QED BY <2>0, <3>1 DEF IInv, IdleInv, HandleInv, reaperVars
  <2>3. ClaimInv' /\ NamedInv'
    BY <2>0 DEF IInv, TypeOK, ClaimInv, NamedInv, reaperVars, historyVars
  <2>4. AwaitInv'
    BY <2>0 DEF IInv, TypeOK, AwaitInv
  <2>5. OwnInv'
    BY <2>0, <1>3 DEF ProcessEnds, s, IInv, TypeOK, OwnInv, reaperVars, historyVars
  <2> QED BY <2>0, <2>1, <2>2, <2>3, <2>4, <2>5 DEF IInv
<1>4. ASSUME NEW p \in Pids, ReusePid(p) PROVE IInv'
  <2> USE <1>4 DEF ReusePid, workerVars
  <2>1. TypeOK'
    BY DEF IInv, TypeOK, reaperVars, historyVars
  <2>2. IdleInv' /\ HandleInv'
    BY DEF IInv, TypeOK, IdleInv, HandleInv, reaperVars
  <2>3. ClaimInv' /\ NamedInv' /\ AwaitInv'
    BY DEF IInv, TypeOK, IdleInv, ClaimInv, NamedInv, AwaitInv, reaperVars, historyVars
  <2>4. OwnInv'
    <3>1. \A t \in Sessions : ~handle[t].exited => handle[t].pid \in Pids /\ proc'[handle[t].pid] = t
      BY DEF IInv, TypeOK, OwnInv
    <3>2. ASSUME verdict = "verified"
          PROVE cand # Nobody /\ (proc'[row[cand].pid] \in {cand, Nobody} \/ taken')
      <4>1. /\ cand # Nobody
            /\ proc[row[cand].pid] \in {cand, Nobody} \/ taken
        BY <3>2 DEF IInv, OwnInv
      <4>2. CASE row[cand].pid = p \/ taken
        <5>1. taken'
          BY <4>1, <4>2
        <5> QED BY <4>1, <5>1
      <4>3. CASE row[cand].pid # p /\ ~taken
        <5>1. proc[row[cand].pid] \in {cand, Nobody}
          BY <4>1, <4>3
        <5>2. cand \in Sessions /\ row[cand].pid \in Pids \cup {Nobody}
          BY <4>1 DEF IInv, TypeOK
        <5>3. row[cand].pid \in Pids
          BY <3>2, <4>1, <5>2 DEF IInv, IdleInv, ClaimInv
        <5>4. proc'[row[cand].pid] = proc[row[cand].pid]
          BY <4>3, <5>3 DEF IInv, TypeOK
        <5> QED BY <4>1, <5>1, <5>4
      <4> QED BY <4>2, <4>3
    <3> QED BY <3>1, <3>2 DEF OwnInv, reaperVars
  <2> QED BY <2>1, <2>2, <2>3, <2>4 DEF IInv
<1> QED BY <1>1, <1>2, <1>3, <1>4

\* The runner of a session.
LEMMA RunnerKeeps ==
  ASSUME IInv,
         \/ \E s \in Sessions : StartJob(s)
         \/ \E s \in Sessions, p \in Pids : SpawnFfmpegRun(s, p)
         \/ \E s \in Sessions : RegisterTranscodeRun(s)
         \/ \E s \in Sessions : RecordSessionWorkerProcess(s)
         \/ \E s \in Sessions : NoticeExit(s)
         \/ \E s \in Sessions : Stop(s)
         \/ \E s \in Sessions : Stopped(s)
         \/ \E s \in Sessions : RunnerRejects(s)
  PROVE IInv'
<1> USE WorkerAssumption
<1>1. ASSUME NEW s \in Sessions, StartJob(s) PROVE IInv'
  <2> USE <1>1 DEF StartJob, Up
  <2>1. TypeOK'
    BY DEF IInv, TypeOK, reaperVars, historyVars
  <2>2. IdleInv' /\ HandleInv'
    BY DEF IInv, TypeOK, IdleInv, HandleInv, reaperVars
  <2>3. ClaimInv' /\ NamedInv' /\ AwaitInv'
    BY DEF IInv, TypeOK, IdleInv, ClaimInv, NamedInv, AwaitInv, reaperVars, historyVars
  <2>4. OwnInv'
    BY DEF IInv, TypeOK, IdleInv, OwnInv, reaperVars, historyVars
  <2> QED BY <2>1, <2>2, <2>3, <2>4 DEF IInv
<1>2. ASSUME NEW s \in Sessions, NEW p \in Pids, SpawnFfmpegRun(s, p) PROVE IInv'
  <2> USE <1>2 DEF SpawnFfmpegRun, Up
  <2>1. TypeOK'
    BY DEF IInv, TypeOK, reaperVars, historyVars
  <2>2. IdleInv' /\ HandleInv'
    BY DEF IInv, TypeOK, IdleInv, HandleInv, reaperVars
  <2>3. ClaimInv' /\ NamedInv' /\ AwaitInv'
    BY DEF IInv, TypeOK, IdleInv, ClaimInv, NamedInv, AwaitInv, reaperVars, historyVars
  <2>4. OwnInv'
    BY DEF IInv, TypeOK, IdleInv, OwnInv, reaperVars, historyVars
  <2> QED BY <2>1, <2>2, <2>3, <2>4 DEF IInv
<1>3. ASSUME NEW s \in Sessions, RegisterTranscodeRun(s) PROVE IInv'
  <2> USE <1>3 DEF RegisterTranscodeRun, Up
  <2>1. TypeOK'
    BY DEF IInv, TypeOK, reaperVars, historyVars
  <2>2. IdleInv' /\ HandleInv'
    BY DEF IInv, TypeOK, IdleInv, HandleInv, reaperVars
  <2>3. ClaimInv' /\ NamedInv' /\ AwaitInv'
    BY DEF IInv, TypeOK, IdleInv, ClaimInv, NamedInv, AwaitInv, reaperVars, historyVars
  <2>4. OwnInv'
    BY DEF IInv, TypeOK, IdleInv, OwnInv, reaperVars, historyVars
  <2> QED BY <2>1, <2>2, <2>3, <2>4 DEF IInv
<1>4. ASSUME NEW s \in Sessions, RecordSessionWorkerProcess(s) PROVE IInv'
  <2> USE <1>4 DEF RecordSessionWorkerProcess, Up
  <2>1. TypeOK'
    <3>1. row' \in Rows
      <4>1. row \in Rows /\ handle[s].pid \in Pids \cup {Nobody} /\ gen \in 0 .. MaxGen
        BY DEF IInv, TypeOK, Rows
      <4>2. \/ row' = [row EXCEPT ![s].pid = handle[s].pid, ![s].gen = gen]
            \/ row' = row
        OBVIOUS
      <4> QED BY ONLY <4>1, <4>2 DEF Rows
    <3> QED BY <3>1 DEF IInv, TypeOK, Rows, reaperVars, historyVars
  <2>2. IdleInv' /\ HandleInv'
    BY DEF IInv, TypeOK, IdleInv, HandleInv, reaperVars
  <2>3. ClaimInv' /\ NamedInv' /\ AwaitInv'
    BY DEF IInv, TypeOK, IdleInv, ClaimInv, NamedInv, AwaitInv, reaperVars, historyVars
  <2>4. OwnInv'
    BY DEF IInv, TypeOK, IdleInv, OwnInv, reaperVars, historyVars
  <2> QED BY <2>1, <2>2, <2>3, <2>4 DEF IInv
<1>5. ASSUME NEW s \in Sessions, NoticeExit(s) PROVE IInv'
  <2> USE <1>5 DEF NoticeExit, Up
  <2>1. TypeOK'
    BY DEF IInv, TypeOK, reaperVars, historyVars
  <2>2. IdleInv' /\ HandleInv'
    BY DEF IInv, TypeOK, IdleInv, HandleInv, reaperVars
  <2>3. ClaimInv' /\ NamedInv' /\ AwaitInv'
    BY DEF IInv, TypeOK, IdleInv, ClaimInv, NamedInv, AwaitInv, reaperVars, historyVars
  <2>4. OwnInv'
    BY DEF IInv, TypeOK, IdleInv, OwnInv, reaperVars, historyVars
  <2> QED BY <2>1, <2>2, <2>3, <2>4 DEF IInv
<1>6. ASSUME NEW s \in Sessions, Stop(s) PROVE IInv'
  <2> USE <1>6 DEF Stop, Up
  <2>0. /\ handle' \in Handles
        /\ \A t \in Sessions : handle'[t].pid = handle[t].pid /\ handle'[t].exited = handle[t].exited
        /\ dying' \subseteq Pids
    BY TerminateFacts DEF IInv, TypeOK, HandleInv
  <2>1. TypeOK'
    BY <2>0 DEF IInv, TypeOK, Handles, reaperVars, historyVars
  <2>2. IdleInv' /\ HandleInv'
    BY <2>0 DEF IInv, TypeOK, IdleInv, HandleInv, reaperVars
  <2>3. ClaimInv' /\ NamedInv' /\ AwaitInv'
    BY <2>0 DEF IInv, TypeOK, IdleInv, ClaimInv, NamedInv, AwaitInv, reaperVars, historyVars
  <2>4. OwnInv'
    BY <2>0 DEF IInv, TypeOK, IdleInv, OwnInv, reaperVars, historyVars
  <2> QED BY <2>1, <2>2, <2>3, <2>4 DEF IInv
<1>7. ASSUME NEW s \in Sessions, Stopped(s) PROVE IInv'
  <2> USE <1>7 DEF Stopped, Up
  <2>1. TypeOK'
    BY DEF IInv, TypeOK, reaperVars, historyVars
  <2>2. IdleInv' /\ HandleInv'
    BY DEF IInv, TypeOK, IdleInv, HandleInv, reaperVars
  <2>3. ClaimInv' /\ NamedInv' /\ AwaitInv'
    BY DEF IInv, TypeOK, IdleInv, ClaimInv, NamedInv, AwaitInv, reaperVars, historyVars
  <2>4. OwnInv'
    BY DEF IInv, TypeOK, IdleInv, OwnInv, reaperVars, historyVars
  <2> QED BY <2>1, <2>2, <2>3, <2>4 DEF IInv
<1>8. ASSUME NEW s \in Sessions, RunnerRejects(s) PROVE IInv'
  <2> USE <1>8 DEF RunnerRejects, Up
  <2>1. TypeOK'
    BY DEF IInv, TypeOK, reaperVars, historyVars
  <2>2. IdleInv' /\ HandleInv'
    BY DEF IInv, TypeOK, IdleInv, HandleInv, reaperVars
  <2>3. ClaimInv' /\ NamedInv' /\ AwaitInv'
    BY DEF IInv, TypeOK, IdleInv, ClaimInv, NamedInv, AwaitInv, reaperVars, historyVars
  <2>4. OwnInv'
    BY DEF IInv, TypeOK, IdleInv, OwnInv, reaperVars, historyVars
  <2> QED BY <2>1, <2>2, <2>3, <2>4 DEF IInv
<1> QED BY <1>1, <1>2, <1>3, <1>4, <1>5, <1>6, <1>7, <1>8

\* The worker's own life.
LEMMA WorkerKeeps ==
  ASSUME IInv,
         \/ Shutdown
         \/ Gone
         \/ Boot
  PROVE IInv'
<1> USE WorkerAssumption
<1>1. ASSUME Shutdown PROVE IInv'
  <2> USE <1>1 DEF Shutdown, Awaited
  <2>0. /\ handle' \in Handles
        /\ \A t \in Sessions : handle'[t].pid = handle[t].pid /\ handle'[t].exited = handle[t].exited
        /\ dying' \subseteq Pids
    BY TerminateFacts DEF IInv, TypeOK, HandleInv
  <2>1. TypeOK'
    BY <2>0 DEF IInv, TypeOK, Handles, reaperVars, historyVars
  <2>2. IdleInv' /\ HandleInv'
    BY <2>0 DEF IInv, TypeOK, IdleInv, HandleInv, reaperVars
  <2>3. ClaimInv' /\ NamedInv' /\ AwaitInv'
    BY <2>0 DEF IInv, TypeOK, IdleInv, ClaimInv, NamedInv, AwaitInv, reaperVars, historyVars
  <2>4. OwnInv'
    BY <2>0 DEF IInv, TypeOK, IdleInv, OwnInv, reaperVars, historyVars
  <2> QED BY <2>1, <2>2, <2>3, <2>4 DEF IInv
<1>2. ASSUME Gone PROVE IInv'
  <2> USE <1>2 DEF Gone, NoHandle
  <2>1. TypeOK'
    BY DEF IInv, TypeOK, reaperVars, historyVars
  <2>2. IdleInv' /\ HandleInv'
    BY DEF IInv, TypeOK, IdleInv, HandleInv, reaperVars
  <2>3. ClaimInv' /\ NamedInv' /\ AwaitInv'
    BY DEF IInv, TypeOK, IdleInv, ClaimInv, NamedInv, AwaitInv, reaperVars, historyVars
  <2>4. OwnInv'
    BY DEF IInv, TypeOK, IdleInv, OwnInv, reaperVars, historyVars
  <2> QED BY <2>1, <2>2, <2>3, <2>4 DEF IInv
<1>3. ASSUME Boot PROVE IInv'
  <2> USE <1>3 DEF Boot, Candidates, workerVars
  <2>1. TypeOK'
    BY DEF IInv, TypeOK, reaperVars, historyVars
  <2>2. IdleInv' /\ HandleInv'
    BY DEF IInv, TypeOK, IdleInv, HandleInv, reaperVars
  <2>3. ClaimInv' /\ NamedInv' /\ AwaitInv'
    BY DEF IInv, TypeOK, IdleInv, ClaimInv, NamedInv, AwaitInv, reaperVars, historyVars
  <2>4. OwnInv'
    BY DEF IInv, TypeOK, IdleInv, OwnInv, reaperVars, historyVars
  <2> QED BY <2>1, <2>2, <2>3, <2>4 DEF IInv
<1> QED BY <1>1, <1>2, <1>3

\* The reaper.
LEMMA ReaperKeeps ==
  ASSUME IInv,
         \/ \E s \in Sessions : ReapInspect(s)
         \/ ReapKill
         \/ ReapGiveUpWait
         \/ ReapFail
         \/ BootDone
  PROVE IInv'
<1> USE WorkerAssumption
<1>1. ASSUME NEW s \in Sessions, ReapInspect(s) PROVE IInv'
  <2>1. /\ s \in todo /\ cand' = s /\ row[s].pid \in Pids
        /\ UNCHANGED <<mode, gen, row, proc, dying, workerVars, todo, unfailed, historyVars>>
    BY <1>1 DEF ReapInspect, IInv, ClaimInv
  <2>2. PICK readable \in BOOLEAN : verdict' = Outcome(s, readable)
    BY <1>1 DEF ReapInspect
  <2>3. verdict' = "verified" => proc[row[s].pid] = s
    BY <2>2 DEF Outcome
  <2>4. verdict' \in {"already-gone", "unverified", "verified", "pid-reused"}
    BY <2>2 DEF Outcome
  <2>5. TypeOK'
    BY <2>1, <2>4 DEF IInv, TypeOK, workerVars, historyVars
  <2>6. IdleInv' /\ HandleInv'
    BY <1>1, <2>1 DEF ReapInspect, IInv, IdleInv, HandleInv, workerVars
  <2>7. ClaimInv' /\ NamedInv' /\ AwaitInv'
    BY <2>1 DEF IInv, ClaimInv, NamedInv, AwaitInv, workerVars, historyVars
  <2>8. OwnInv'
    BY <2>1, <2>3 DEF IInv, OwnInv, workerVars
  <2> QED BY <2>5, <2>6, <2>7, <2>8 DEF IInv
<1>5. ASSUME ReapKill PROVE IInv'
  <2> USE <1>5 DEF ReapKill, workerVars
  <2>1. TypeOK'
    <3>1. dying' \subseteq Pids
      BY DEF SendSignal, IInv, TypeOK, ClaimInv, IdleInv, OwnInv
    <3> QED BY <3>1 DEF IInv, TypeOK, reaperVars, historyVars
  <2>2. IdleInv' /\ HandleInv'
    BY DEF IInv, TypeOK, IdleInv, HandleInv, reaperVars
  <2>3. ClaimInv' /\ NamedInv' /\ AwaitInv'
    BY DEF IInv, TypeOK, IdleInv, ClaimInv, NamedInv, AwaitInv, reaperVars, historyVars
  <2>4. OwnInv'
    BY DEF IInv, TypeOK, OwnInv
  <2> QED BY <2>1, <2>2, <2>3, <2>4 DEF IInv
<1>2. ASSUME ReapGiveUpWait PROVE IInv'
  <2> USE <1>2 DEF ReapGiveUpWait, workerVars
  <2>1. TypeOK'
    BY DEF IInv, TypeOK, reaperVars, historyVars
  <2>2. IdleInv' /\ HandleInv'
    BY DEF IInv, TypeOK, IdleInv, HandleInv, reaperVars
  <2>3. ClaimInv' /\ NamedInv' /\ AwaitInv'
    BY DEF IInv, TypeOK, IdleInv, ClaimInv, NamedInv, AwaitInv, reaperVars, historyVars
  <2>4. OwnInv'
    BY DEF IInv, TypeOK, IdleInv, OwnInv, reaperVars, historyVars
  <2> QED BY <2>1, <2>2, <2>3, <2>4 DEF IInv
<1>3. ASSUME ReapFail PROVE IInv'
  <2>1. cand \in todo /\ cand \in Sessions
    BY <1>3 DEF ReapFail, IInv, IdleInv, TypeOK
  <2>2. /\ \/ row' = [row EXCEPT ![cand].status = "closed"] /\ UNCHANGED unfailed
           \/ unfailed' = unfailed \cup {cand} /\ UNCHANGED row
        /\ todo' = todo \ {cand} /\ cand' = Nobody /\ verdict' = "none" /\ taken' = FALSE
        /\ UNCHANGED <<mode, gen, proc, dying, workerVars, lost>>
    BY <1>3 DEF ReapFail
  <2>3. TypeOK'
    <3>1. row' \in Rows
      <4>1. row \in Rows
        BY DEF IInv, TypeOK, Rows
      <4> QED BY ONLY <2>1, <2>2, <4>1 DEF Rows
    <3>2. taken' \in BOOLEAN /\ cand' \in Sessions \cup {Nobody}
      BY <2>2
    <3>3. UNION {live, waiting, late, todo, unfailed, lost}' \subseteq Sessions
      BY <2>1, <2>2 DEF IInv, TypeOK, workerVars
    <3> QED BY <2>2, <3>1, <3>2, <3>3 DEF IInv, TypeOK, Rows, workerVars
  <2>4. IdleInv' /\ HandleInv'
    BY <2>1, <2>2 DEF IInv, TypeOK, IdleInv, HandleInv, workerVars
  <2>5. ClaimInv' /\ NamedInv' /\ AwaitInv'
    BY <2>1, <2>2 DEF IInv, TypeOK, ClaimInv, NamedInv, AwaitInv, workerVars
  <2>6. OwnInv'
    BY <2>2 DEF IInv, OwnInv, workerVars
  <2> QED BY <2>3, <2>4, <2>5, <2>6 DEF IInv
<1>4. ASSUME BootDone PROVE IInv'
  <2> USE <1>4 DEF BootDone, workerVars
  <2>1. TypeOK'
    BY DEF IInv, TypeOK, reaperVars, historyVars
  <2>2. IdleInv' /\ HandleInv'
    BY DEF IInv, TypeOK, IdleInv, HandleInv, reaperVars
  <2>3. ClaimInv' /\ NamedInv' /\ AwaitInv'
    BY DEF IInv, TypeOK, IdleInv, ClaimInv, NamedInv, AwaitInv, reaperVars, historyVars
  <2>4. OwnInv'
    BY DEF IInv, TypeOK, IdleInv, OwnInv, reaperVars, historyVars
  <2> QED BY <2>1, <2>2, <2>3, <2>4 DEF IInv
<1> QED BY <1>1, <1>2, <1>3, <1>4, <1>5

-----------------------------------------------------------------------------
(* The theorems.                                                           *)

LEMMA InitHolds == Init => IInv
<1> SUFFICES ASSUME Init PROVE IInv
  OBVIOUS
<1> USE WorkerAssumption DEF Init, NoHandle
<1>1. TypeOK
  <2>1. /\ handle \in Handles
        /\ row \in Rows
    BY DEF Handles, Rows
  <2>2. UNION {live, waiting, late, todo, unfailed, lost} \subseteq Sessions
    OBVIOUS
  <2>3. proc \in [Pids -> Sessions \cup {Other, Nobody}] /\ dying \subseteq Pids
    OBVIOUS
  <2>4. /\ mode = "down" /\ gen \in 0 .. MaxGen
        /\ job \in [Sessions -> {"none", "queued", "over", "spawning", "spawned", "registered",
                                "watching", "restarting", "teardown"}]
        /\ cand = Nobody /\ verdict = "none"
    OBVIOUS
  <2>5. taken \in BOOLEAN
    OBVIOUS
  <2> QED BY ONLY <2>1, <2>2, <2>3, <2>4, <2>5 DEF TypeOK, Handles, Rows
<1>2. IdleInv /\ HandleInv /\ ClaimInv /\ AwaitInv
  BY DEF IdleInv, HandleInv, ClaimInv, AwaitInv
<1>3. NamedInv /\ OwnInv
  BY DEF NamedInv, OwnInv
<1> QED BY <1>1, <1>2, <1>3 DEF IInv

LEMMA StepKeeps == IInv /\ [Next]_vars => IInv'
<1> SUFFICES ASSUME IInv, [Next]_vars PROVE IInv'
  OBVIOUS
<1>1. CASE UNCHANGED vars
  BY <1>1 DEF vars, workerVars, reaperVars, historyVars, IInv, TypeOK,
     IdleInv, HandleInv, OwnInv, ClaimInv, NamedInv, AwaitInv
<1>2. CASE Exit \/ Crash
  BY <1>2, WorkerKeeps DEF Exit, Crash
<1>3. CASE Next /\ ~(Exit \/ Crash)
  BY <1>3, EnvironmentKeeps, RunnerKeeps, WorkerKeeps, ReaperKeeps DEF Next, Reaper
<1> QED BY <1>1, <1>2, <1>3

\* The inductive invariant holds in every reachable state.
THEOREM WorkerInvariance == Spec => []IInv
BY InitHolds, StepKeeps, PTL DEF Spec

\* SignalsReachOwn of every step, however often pids are reused: only a reuse between
\* the reaper's inspection and its signal, or a terminate() of an encoder that has
\* already exited, hits a stranger.
THEOREM OwnSignalled == Spec => SignalsReachOwn
<1> DEFINE
  Excused(p) == \/ \E s \in Sessions : proc[p] = s /\ (cand = s \/ handle[s].pid = p)
                \/ cand # Nobody /\ taken
                \/ \E s \in Sessions : handle[s].pid = p /\ handle[s].exited
<1>1. ASSUME IInv, [Next]_vars, NEW p \in dying' \ dying PROVE Excused(p)
  <2>1. \/ \E s \in Sessions : Stop(s)
        \/ Shutdown
        \/ ReapKill
    BY <1>1 DEF Next, vars, workerVars, reaperVars, historyVars, CreateSession, CloseSession, ProcessEnds,
       ReusePid, StartJob, SpawnFfmpegRun, RegisterTranscodeRun, RecordSessionWorkerProcess,
       NoticeExit, Stopped, RunnerRejects, Exit, Crash, Gone, Boot, Reaper, ReapInspect,
       ReapGiveUpWait, ReapFail, BootDone
  <2>2. ASSUME NEW S \in SUBSET Sessions, Terminate(S) PROVE Excused(p)
    <3>1. PICK s \in S : handle[s].pid = p
      BY <1>1, <2>2 DEF Terminate, SendSignal, Terminations
    <3>2. CASE handle[s].exited
      BY <3>1, <3>2
    <3>3. CASE ~handle[s].exited
      BY <1>1, <3>1, <3>3 DEF IInv, OwnInv
    <3> QED BY <3>2, <3>3
  <2>3. ASSUME NEW s \in Sessions, Stop(s) PROVE Excused(p)
    BY <2>2, <2>3 DEF Stop
  <2>4. CASE Shutdown
    BY <1>1, <2>2, <2>4 DEF Shutdown, IInv, TypeOK
  <2>5. CASE ReapKill
    <3>1. p = row[cand].pid /\ proc[p] # Nobody /\ verdict = "verified"
      BY <1>1, <2>5 DEF ReapKill, SendSignal
    <3>2. cand \in Sessions
      BY <1>1, <3>1 DEF IInv, OwnInv, TypeOK
    <3> QED BY <1>1, <3>1, <3>2 DEF IInv, OwnInv
  <2> QED BY <2>1, <2>3, <2>4, <2>5
<1>2. IInv /\ [Next]_vars =>
        [\A p \in dying' \ dying :
           \/ \E s \in Sessions : proc[p] = s /\ (cand = s \/ handle[s].pid = p)
           \/ cand # Nobody /\ taken
           \/ \E s \in Sessions : handle[s].pid = p /\ handle[s].exited]_vars
  BY <1>1
<1> QED BY <1>2, WorkerInvariance, PTL DEF Spec, SignalsReachOwn

\* BootClaimsEverything of every reachable state: once consumers run, an open row
\* of an earlier worker is one the boot could not claim.
THEOREM NothingUnclaimed == Spec => []BootClaimsEverything
<1>1. IInv => BootClaimsEverything
  BY DEF IInv, BootClaimsEverything, Up, IdleInv, ClaimInv
<1> QED BY <1>1, WorkerInvariance, PTL

\* SlotHeldWhileEncoding of every step: between two workers the row names the only
\* process its session may have, so a wait that saw that pid go saw the last of it.
THEOREM SlotsHeld == Spec => SlotHeldWhileEncoding
<1> DEFINE
  Freed(s) == /\ cand = s /\ cand' # s /\ mode' = "booting" /\ verdict = "killed"
              /\ row[s].status = "open" /\ row'[s].status = "closed"
<1>1. ASSUME IInv, [Next]_vars, NEW s \in Sessions \ lost, Freed(s), NEW p \in Pids
      PROVE proc[p] # s
  <2>1. mode = "booting" /\ WaitOver
    <3>1. cand # Nobody /\ mode = "booting"
      BY <1>1, WorkerAssumption DEF IInv, IdleInv
    <3>2. ReapFail
      BY <1>1, <3>1
         DEF Next, vars, workerVars, reaperVars, historyVars, CreateSession, CloseSession, ProcessEnds,
             ReusePid, StartJob, SpawnFfmpegRun, RegisterTranscodeRun, RecordSessionWorkerProcess,
             NoticeExit, Stop, Stopped, RunnerRejects, Shutdown, Exit, Crash, Gone, Boot, Reaper,
             ReapInspect, ReapKill, ReapGiveUpWait, BootDone
    <3> QED BY <3>1, <3>2 DEF ReapFail
  <2>2. proc[row[s].pid] # s
    BY <1>1, <2>1 DEF WaitOver
  <2> QED BY <1>1, <2>1, <2>2 DEF IInv, NamedInv
<1>2. IInv /\ [Next]_vars =>
        [\A s \in Sessions \ lost :
           cand = s /\ cand' # s /\ mode' = "booting" /\ verdict = "killed"
             /\ row[s].status = "open" /\ row'[s].status = "closed"
             => \A p \in Pids : proc[p] # s]_vars
  BY <1>1
<1> QED BY <1>2, WorkerInvariance, PTL DEF Spec, SlotHeldWhileEncoding

\* OnlyLateRunsSurvive of every step.
THEOREM ExitLeavesLateRunsOnly == Spec => OnlyLateRunsSurvive
<1> DEFINE
  Leaves == mode = "terminating" /\ waiting = {} /\ mode' = "down"
  LateOnly == \A s \in Sessions, p \in Pids :
                handle[s].pid = p /\ ~handle[s].exited /\ proc[p] = s => s \in late
<1>1. IInv => (Leaves => LateOnly)
  BY DEF IInv, AwaitInv
<1>2. IInv /\ [Next]_vars => [Leaves => LateOnly]_vars
  BY <1>1
<1> QED BY <1>2, WorkerInvariance, PTL DEF Spec, OnlyLateRunsSurvive
=============================================================================
