--------------------------- MODULE MCServedPlaylist ---------------------------
(* Small instances of ServedPlaylist for TLC. *)
EXTENDS ServedPlaylist
=============================================================================
