------------------------------- MODULE MCQSpace -------------------------------
(* QSpace for TLC; the configurations give the constants their values. *)
EXTENDS QSpace
=============================================================================
