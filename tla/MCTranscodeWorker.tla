--------------------------- MODULE MCTranscodeWorker ---------------------------
(* Small instances of TranscodeWorker for TLC. *)
EXTENDS TranscodeWorker
=============================================================================
