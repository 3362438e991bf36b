---------------------------- MODULE MCFastPath ----------------------------
(* Two callers, two workers allowed of three there could be, four tasks:   *)
(* enough for a node to be popped, recycled and pushed over another rest.  *)
EXTENDS FastPath, TLC

CONSTANTS c1, c2, w1, w2, w3, n1, n2, n3
=============================================================================
