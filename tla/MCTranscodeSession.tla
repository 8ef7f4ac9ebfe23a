-------------------------- MODULE MCTranscodeSession --------------------------
(* Small instances of TranscodeSession for TLC. *)
EXTENDS TranscodeSession

MCTargets == {0, 1}
MCOneTarget == {1}
MCRungs == {0, 1, 2}
MCNone == {}
MCGets == {2}
MCStart == {0}
MCDeaths == {"malfunction", "fatal"}
=============================================================================
