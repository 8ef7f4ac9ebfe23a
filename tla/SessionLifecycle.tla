--------------------------- MODULE SessionLifecycle ---------------------------
(***************************************************************************)
(* What a playback session promises everyone who watches its row and its   *)
(* event stream: it starts at most once, it may change between playing     *)
(* states any number of times, and it closes exactly once, with exactly    *)
(* one playback.ended event written in the same transaction.               *)
(* TranscodeSession is shown to implement it.                              *)
(***************************************************************************)
EXTENDS Naturals

VARIABLES
  status,   \* playback_sessions.status
  ended     \* playback.ended events written for the session

Playing == {"active", "suspended", "seeking"}
Closed == {"ended", "failed"}

LifecycleInit == status = "created" /\ ended = 0

\* The worker picks the session up.
Pick ==
  /\ status = "created"
  /\ status' = "starting"
  /\ UNCHANGED ended

\* Play, seek, suspend, resume: never back to created or starting.
Play ==
  /\ status \notin Closed
  /\ status' \in Playing
  /\ UNCHANGED ended

Close ==
  /\ status \notin Closed
  /\ status' \in Closed
  /\ ended' = ended + 1

LifecycleNext == Pick \/ Play \/ Close

Lifecycle == LifecycleInit /\ [][LifecycleNext]_<<status, ended>>
=============================================================================
