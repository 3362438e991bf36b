------------------------------ MODULE MCJobQueue ------------------------------
(* JobQueue for TLC; MCJobQueue.cfg gives the constants their values. *)
EXTENDS JobQueue
=============================================================================
