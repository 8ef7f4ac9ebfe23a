---------------------------- MODULE TranscodeWorker ----------------------------
(***************************************************************************)
(* The worker process around its transcode sessions: what happens to       *)
(* ffmpeg processes, which are spawned detached and outlive the worker,    *)
(* across graceful shutdowns, hard kills and boots.  Covers the run        *)
(* registry, shutdown(), the pid recorded on the row, and the boot reaper  *)
(* (apps/worker/src/transcode/{run-registry,reaper,process,runner}.ts,     *)
(* apps/worker/src/index.ts).                                              *)
(*                                                                         *)
(* One session's control flow is TranscodeSession's business; here a       *)
(* session only spawns, restarts and tears down.  Pids are reused: an      *)
(* unrelated process may take any free one, also between the reaper's      *)
(* inspection of a pid and its signal.                                     *)
(***************************************************************************)
EXTENDS Naturals, FiniteSets

CONSTANTS
  Sessions, Pids,
  Nobody,          \* no process, no candidate
  Other,           \* the owner of a process that is not ours
  MaxGen           \* bound on worker boots

ASSUME WorkerAssumption ==
  /\ MaxGen \in Nat
  /\ Nobody \notin Pids \cup Sessions \cup {Other}
  /\ Other \notin Sessions

VARIABLES
  mode,      \* down, booting, running, terminating
  gen,       \* WORKER_STARTED_AT_MS of the current worker, as a generation
  row,       \* per session: [status, pid, gen, staging]
  proc,      \* per pid: the session whose ffmpeg it is, Other, or Nobody
  dying,     \* pids with a fatal signal pending
  job,       \* per session: where its runner is
  handle,    \* per session: currentRun.handle: [pid, exited, terminated]
  live,      \* liveRuns: the sessions whose current handle is registered
  waiting,   \* shutdown's snapshot: handles whose exit is awaited
  late,      \* history: sessions that spawned too late for that snapshot
  todo,      \* the reaper's candidates still to do
  cand,      \* the candidate in hand
  verdict,   \* its outcome
  unfailed,  \* sessions this boot could not claim: the listing or failSession threw
  lost,      \* history: sessions left with an ffmpeg their row does not name
  taken      \* history: since the reaper looked at it, another process took the pid

workerVars == <<job, handle, live, waiting, late>>
reaperVars == <<todo, cand, verdict, unfailed>>
historyVars == <<lost, taken>>
vars == <<mode, gen, row, proc, dying, workerVars, reaperVars, historyVars>>

Up == mode \in {"running", "terminating"}
NoHandle == [pid |-> Nobody, exited |-> TRUE, terminated |-> FALSE]

Init ==
  /\ mode = "down" /\ gen = 0
  /\ row = [s \in Sessions |-> [status |-> "none", pid |-> Nobody, gen |-> 0, staging |-> FALSE]]
  /\ proc = [p \in Pids |-> Nobody] /\ dying = {}
  /\ job = [s \in Sessions |-> "none"] /\ handle = [s \in Sessions |-> NoHandle]
  /\ live = {} /\ waiting = {} /\ late = {}
  /\ todo = {} /\ cand = Nobody /\ verdict = "none" /\ unfailed = {}
  /\ lost = {} /\ taken = FALSE

-----------------------------------------------------------------------------
(* The server and the operating system.                                    *)

CreateSession(s) ==
  /\ row[s].status = "none"
  /\ row' = [row EXCEPT ![s].status = "open"]
  /\ job' = [job EXCEPT ![s] = "queued"]
  /\ UNCHANGED <<mode, gen, proc, dying, handle, live, waiting, late, reaperVars, historyVars>>

\* DELETE, the sweeper, an eviction: the row closes whatever the process does.
CloseSession(s) ==
  /\ row[s].status = "open"
  /\ row' = [row EXCEPT ![s].status = "closed"]
  /\ UNCHANGED <<mode, gen, proc, dying, workerVars, reaperVars, historyVars>>

\* A process ends on its own or of a signal; its parent, if still there, sees it.
ProcessEnds(p) ==
  LET s == proc[p]
  IN /\ s # Nobody
     /\ proc' = [proc EXCEPT ![p] = Nobody]
     /\ dying' = dying \ {p}
     /\ IF s \in Sessions /\ handle[s].pid = p
          THEN /\ handle' = [handle EXCEPT ![s].exited = TRUE]
               /\ waiting' = waiting \ {s}
          ELSE UNCHANGED <<handle, waiting>>
     /\ UNCHANGED <<mode, gen, row, job, live, late, reaperVars, historyVars>>

ReusePid(p) ==
  /\ proc[p] = Nobody
  /\ proc' = [proc EXCEPT ![p] = Other]
  /\ taken' = (taken \/ (cand # Nobody /\ row[cand].pid = p))
  /\ UNCHANGED <<mode, gen, row, dying, workerVars, reaperVars, lost>>

\* A fatal signal to the process groups of these pids; a free pid is no error.
SendSignal(pids) == dying' = dying \cup {p \in pids : proc[p] # Nobody}

-----------------------------------------------------------------------------
(* The runner of each session.                                             *)

\* markSessionStarting may miss a row a heartbeat has already made active, and
\* then records no staging directory.
StartJob(s) ==
  /\ Up
  /\ job[s] = "queued" /\ row[s].status = "open"
  /\ \E recorded \in BOOLEAN : row' = [row EXCEPT ![s].staging = @ \/ recorded]
  /\ job' = [job EXCEPT ![s] = "spawning"]
  /\ UNCHANGED <<mode, gen, proc, dying, handle, live, waiting, late, reaperVars, historyVars>>

SpawnFfmpegRun(s, p) ==
  /\ Up
  /\ job[s] = "spawning" /\ proc[p] = Nobody
  /\ proc' = [proc EXCEPT ![p] = s]
  /\ handle' = [handle EXCEPT ![s] = [pid |-> p, exited |-> FALSE, terminated |-> FALSE]]
  /\ job' = [job EXCEPT ![s] = "spawned"]
  /\ late' = IF mode = "terminating" THEN late \cup {s} ELSE late
  /\ UNCHANGED <<mode, gen, row, dying, live, waiting, reaperVars, historyVars>>

\* After recordTranscodeRun and recordActiveRungIndex have been awaited.
RegisterTranscodeRun(s) ==
  /\ Up
  /\ job[s] = "spawned"
  /\ live' = live \cup {s}
  /\ job' = [job EXCEPT ![s] = "registered"]
  /\ UNCHANGED <<mode, gen, row, proc, dying, handle, waiting, late, reaperVars, historyVars>>

\* Mutant: stamps the time of the write instead of the worker's start.
RecordProcessNow(s) ==
  /\ Up
  /\ job[s] = "registered"
  /\ row' = IF row[s].status = "open"
              THEN [row EXCEPT ![s].pid = handle[s].pid, ![s].gen = gen + 1] ELSE row
  /\ job' = [job EXCEPT ![s] = "watching"]
  /\ UNCHANGED <<mode, gen, proc, dying, handle, live, waiting, late, reaperVars, historyVars>>

\* Best effort, and only on an open row.
RecordSessionWorkerProcess(s) ==
  /\ Up
  /\ job[s] = "registered"
  /\ \/ row' = IF row[s].status = "open"
                 THEN [row EXCEPT ![s].pid = handle[s].pid, ![s].gen = gen] ELSE row
     \/ UNCHANGED row
  /\ job' = [job EXCEPT ![s] = "watching"]
  /\ UNCHANGED <<mode, gen, proc, dying, handle, live, waiting, late, reaperVars, historyVars>>

\* handle.result.then(unregister), whether or not the runner is still there.
NoticeExit(s) ==
  /\ Up
  /\ job[s] \in {"watching", "over"} /\ handle[s].exited /\ s \in live
  /\ live' = live \ {s}
  /\ UNCHANGED <<mode, gen, row, proc, dying, job, handle, waiting, late, reaperVars, historyVars>>

\* The pids terminate() signals for these sessions: the first call signals, also
\* when the process has already exited; later calls only wait.
Terminations(S) == {handle[s].pid : s \in {t \in S : ~handle[t].terminated}}

Terminate(S) ==
  /\ SendSignal(Terminations(S))
  /\ handle' = [s \in Sessions |-> IF s \in S THEN [handle[s] EXCEPT !.terminated = TRUE]
                                             ELSE handle[s]]

\* A seek, handoff or recovery (row open) or the teardown (row closed).
Stop(s) ==
  /\ Up
  /\ job[s] = "watching"
  /\ Terminate({s})
  /\ job' = [job EXCEPT ![s] = IF row[s].status = "open" THEN "restarting" ELSE "teardown"]
  /\ UNCHANGED <<mode, gen, row, proc, live, waiting, late, reaperVars, historyVars>>

Stopped(s) ==
  /\ Up
  /\ job[s] \in {"restarting", "teardown"} /\ handle[s].exited
  /\ live' = live \ {s}
  /\ job' = [job EXCEPT ![s] = IF @ = "restarting" THEN "spawning" ELSE "over"]
  /\ UNCHANGED <<mode, gen, row, proc, dying, handle, waiting, late, reaperVars, historyVars>>

\* A statement of the poll loop fails: the runner rejects without a teardown, its
\* ffmpeg runs on, and the job is not tried again (retryLimit 0).
RunnerRejects(s) ==
  /\ Up
  /\ job[s] = "watching"
  /\ job' = [job EXCEPT ![s] = "over"]
  /\ UNCHANGED <<mode, gen, row, proc, dying, handle, live, waiting, late, reaperVars, historyVars>>

-----------------------------------------------------------------------------
(* The worker's own life.                                                  *)

\* Mutants: no exit awaited; exits awaited that have already been seen.
AwaitsNone(S) == {}
AwaitsAll(S) == S

Awaited(S) == {s \in S : ~handle[s].exited}

\* terminateAllTranscodeRuns: the registry's snapshot, signalled at once.
Shutdown ==
  /\ mode = "running"
  /\ mode' = "terminating"
  /\ Terminate(live)
  /\ waiting' = Awaited(live)
  /\ late' = {s \in Sessions \ live : ~handle[s].exited}
  /\ live' = {}
  /\ UNCHANGED <<gen, row, proc, job, reaperVars, historyVars>>

Gone == /\ mode' = "down"
        /\ job' = [s \in Sessions |-> IF job[s] \in {"none", "queued"} THEN job[s] ELSE "over"]
        /\ handle' = [s \in Sessions |-> NoHandle]
        /\ live' = {} /\ waiting' = {} /\ late' = {}
        /\ todo' = {} /\ cand' = Nobody /\ verdict' = "none" /\ unfailed' = {}
        /\ lost' = lost \cup {s \in Sessions : \E p \in Pids : proc[p] = s /\ row[s].pid # p}
        /\ taken' = FALSE
        /\ UNCHANGED <<gen, row, proc, dying>>

\* Every awaited handle has exited; the queue and the pool close; the process exits.
Exit ==
  /\ mode = "terminating" /\ waiting = {}
  /\ Gone

\* SIGKILL, OOM, power cut of the worker alone.
Crash ==
  /\ mode # "down"
  /\ Gone

\* Mutant: misses the worker just before this one.
CandidatesOfOlderBoots ==
  {s \in Sessions : row[s].status = "open" /\ row[s].pid # Nobody /\ row[s].gen < gen}

\* main(): the candidates are listed before any consumer is registered.
Candidates ==
  {s \in Sessions : row[s].status = "open" /\ row[s].pid # Nobody /\ row[s].gen < gen + 1}

\* A listing that throws is logged and swallowed: this boot reaps nobody.
Boot ==
  /\ mode = "down" /\ gen < MaxGen
  /\ mode' = "booting"
  /\ gen' = gen + 1
  /\ \/ todo' = Candidates /\ UNCHANGED unfailed
     \/ todo' = {} /\ unfailed' = Candidates
  /\ UNCHANGED <<row, proc, dying, workerVars, cand, verdict, historyVars>>

\* Mutant: the pid alone.
OutcomeByPid(s, readable) == IF proc[row[s].pid] = Nobody THEN "already-gone" ELSE "verified"

\* What the inspection says of a pid, given whether its command line could be read; a
\* session's staging directory appears in the command line of its own ffmpeg only.
Outcome(s, readable) ==
  LET p == row[s].pid
  IN IF proc[p] = Nobody THEN "already-gone"
     ELSE IF ~readable \/ ~row[s].staging THEN "unverified"
     ELSE IF proc[p] = s THEN "verified" ELSE "pid-reused"

ReapInspect(s) ==
  /\ mode = "booting" /\ cand = Nobody /\ s \in todo
  /\ cand' = s
  /\ \E readable \in BOOLEAN : verdict' = Outcome(s, readable)
  /\ UNCHANGED <<mode, gen, row, proc, dying, workerVars, todo, unfailed, historyVars>>

\* An await later, the signal goes to whatever has that pid by now.
ReapKill ==
  /\ mode = "booting" /\ verdict = "verified"
  /\ SendSignal({row[cand].pid})
  /\ verdict' = "killed"
  /\ UNCHANGED <<mode, gen, row, proc, workerVars, todo, cand, unfailed, historyVars>>

\* Mutant: no deadline.
NeverGiveUpWait == mode = "none" /\ UNCHANGED vars

\* waitForRunExit gives up at its deadline, and when the process can no longer be
\* inspected.
ReapGiveUpWait ==
  /\ mode = "booting" /\ verdict = "killed"
  /\ verdict' = "not-seen-gone"
  /\ UNCHANGED <<mode, gen, row, proc, dying, workerVars, todo, cand, unfailed, historyVars>>

\* Mutant: no wait.
NoWait == TRUE

\* The wait is over when the pid is free or is no longer this session's.
WaitOver == verdict = "killed" => proc[row[cand].pid] # cand

\* failSession; when it throws, the session is left for the next boot.
ReapFail ==
  /\ mode = "booting" /\ cand # Nobody
  /\ verdict # "verified" /\ WaitOver
  /\ \/ row' = [row EXCEPT ![cand].status = "closed"] /\ UNCHANGED unfailed
     \/ unfailed' = unfailed \cup {cand} /\ UNCHANGED row
  /\ todo' = todo \ {cand}
  /\ cand' = Nobody /\ verdict' = "none" /\ taken' = FALSE
  /\ UNCHANGED <<mode, gen, proc, dying, workerVars, lost>>

BootDone ==
  /\ mode = "booting" /\ todo = {}
  /\ mode' = "running"
  /\ UNCHANGED <<gen, row, proc, dying, workerVars, reaperVars, historyVars>>

Reaper == (\E s \in Sessions : ReapInspect(s)) \/ ReapKill \/ ReapGiveUpWait \/ ReapFail \/ BootDone

Next ==
  \/ \E s \in Sessions :
       \/ CreateSession(s) \/ CloseSession(s) \/ StartJob(s) \/ RegisterTranscodeRun(s)
       \/ RecordSessionWorkerProcess(s) \/ NoticeExit(s) \/ Stop(s) \/ Stopped(s)
       \/ RunnerRejects(s)
       \/ \E p \in Pids : SpawnFfmpegRun(s, p)
  \/ \E p \in Pids : ProcessEnds(p) \/ ReusePid(p)
  \/ Shutdown \/ Exit \/ Crash \/ Boot \/ Reaper

\* A process that terminate() signalled, with SIGTERM and then SIGKILL.
TerminatedEnds(p) == mode = "terminating" /\ p \in dying /\ ProcessEnds(p)

\* The reaper keeps going: its inspections, its wait and its write all end.  So
\* does a shutdown, whose processes die of the SIGKILL at the latest.  Nothing is
\* assumed of the processes the reaper kills.
Spec ==
  /\ Init /\ [][Next]_vars
  /\ WF_vars(Reaper) /\ WF_vars(Exit)
  /\ \A p \in Pids : WF_vars(TerminatedEnds(p))

-----------------------------------------------------------------------------
(* Properties.                                                             *)

TypeOK ==
  /\ mode \in {"down", "booting", "running", "terminating"} /\ gen \in 0 .. MaxGen
  /\ row \in [Sessions -> [status : {"none", "open", "closed"}, pid : Pids \cup {Nobody},
                           gen : 0 .. MaxGen, staging : BOOLEAN]]
  /\ proc \in [Pids -> Sessions \cup {Other, Nobody}] /\ dying \subseteq Pids
  /\ job \in [Sessions -> {"none", "queued", "over", "spawning", "spawned", "registered", "watching",
                           "restarting", "teardown"}]
  /\ handle \in [Sessions -> [pid : Pids \cup {Nobody}, exited : BOOLEAN, terminated : BOOLEAN]]
  /\ UNION {live, waiting, late, todo, unfailed, lost} \subseteq Sessions
  /\ cand \in Sessions \cup {Nobody}
  /\ verdict \in {"none", "already-gone", "unverified", "verified", "killed", "not-seen-gone",
                  "pid-reused"}
  /\ taken \in BOOLEAN

\* A fatal signal reaches the session's own ffmpeg, with two exceptions only: the pid
\* was taken over between the reaper's inspection and its signal, or the runner's
\* terminate() was called on a process that had already exited (it signals all the
\* same).  A pid reused before the boot never costs a stranger its process
\* (reaper.ts: "pid + cmdline, never pid alone").
SignalsReachOwn ==
  [][\A p \in dying' \ dying :
       \/ \E s \in Sessions : proc[p] = s /\ (cand = s \/ handle[s].pid = p)
       \/ cand # Nobody /\ taken
       \/ \E s \in Sessions : handle[s].pid = p /\ handle[s].exited]_vars

\* The reaper frees a session's admission slot only once no ffmpeg of the session
\* is left running, unless it gave up waiting for the one it killed
\* (waitForRunExit) or a worker died before the row named its last run.
SlotHeldWhileEncoding ==
  [][\A s \in Sessions \ lost :
       cand = s /\ cand' # s /\ mode' = "booting" /\ verdict = "killed"
         /\ row[s].status = "open" /\ row'[s].status = "closed"
         => \A p \in Pids : proc[p] # s]_vars

\* By the time consumers run, no open row names an earlier worker's process: a
\* session nobody drives any more holds no slot; except where the listing or the
\* write failed.
BootClaimsEverything ==
  Up => \A s \in Sessions :
          row[s].status = "open" /\ row[s].pid # Nobody /\ row[s].gen < gen => s \in unfailed

\* A graceful exit leaves no ffmpeg behind that was registered when it began;
\* what it leaves was spawned during the shutdown or not yet registered.
OnlyLateRunsSurvive ==
  [][mode = "terminating" /\ waiting = {} /\ mode' = "down" =>
       \A s \in Sessions, p \in Pids :
         handle[s].pid = p /\ ~handle[s].exited /\ proc[p] = s => s \in late]_vars

-----------------------------------------------------------------------------
(* The inductive invariant behind the safety properties.                   *)

\* Past the reaper, and on a row no pipeline was started for, nothing is left of it.
IdleInv ==
  /\ mode # "booting" => todo = {} /\ cand = Nobody
  /\ cand # Nobody => cand \in todo
  /\ \A s \in Sessions : row[s].gen <= gen /\ (row[s].status = "none" => row[s].pid = Nobody)

\* A runner past its spawn, and the registry, hold the handle of a real process.
HandleInv ==
  \A s \in Sessions :
    s \in live \/ job[s] \in {"spawned", "registered", "watching", "restarting", "teardown"}
      => handle[s].pid \in Pids

\* An open row naming an earlier worker's process is still to be reaped, or could
\* not be.
ClaimInv ==
  /\ \A s \in todo : row[s].pid \in Pids
  /\ mode # "down" =>
       \A s \in Sessions :
         row[s].status = "open" /\ row[s].pid # Nobody /\ row[s].gen < gen => s \in todo \cup unfailed

\* Between two workers the row names the only process its session may have.
NamedInv ==
  mode \in {"down", "booting"} =>
    \A s \in Sessions \ lost, p \in Pids : proc[p] = s => row[s].pid = p

\* A process that runs keeps its pid: the one a handle has not seen exit, and the one
\* the reaper has verified unless it ended and its pid was taken since.
OwnInv ==
  /\ \A s \in Sessions : ~handle[s].exited => handle[s].pid \in Pids /\ proc[handle[s].pid] = s
  /\ verdict = "verified" =>
       cand # Nobody /\ (proc[row[cand].pid] \in {cand, Nobody} \/ taken)

\* A shutdown awaits every running handle, except the late ones.
AwaitInv ==
  mode = "terminating" => \A s \in Sessions : ~handle[s].exited => s \in waiting \cup late

IInv ==
  TypeOK /\ IdleInv /\ HandleInv /\ ClaimInv /\ NamedInv /\ OwnInv /\ AwaitInv

-----------------------------------------------------------------------------
(* Liveness.                                                               *)

\* A boot completes even when a killed process never goes away.
BootCompletes == mode = "booting" ~> mode # "booting"

\* A graceful shutdown completes: every run it waits for exits, also one that a seek
\* had already terminated or that died on its own.
ShutdownCompletes == mode = "terminating" ~> mode # "terminating"
=============================================================================
