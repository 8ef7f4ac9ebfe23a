------------------------------ MODULE MCAdmission ------------------------------
(* Small instances of Admission for TLC. *)
EXTENDS Admission
=============================================================================
