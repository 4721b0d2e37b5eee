---------------------------- MODULE MCAdmission ----------------------------
(* Instances of Admission for TLC. *)
EXTENDS Admission, TLC

NoTag   == {FALSE}
OneTag  == BOOLEAN
=============================================================================
