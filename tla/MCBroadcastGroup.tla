--------------------------- MODULE MCBroadcastGroup ---------------------------
(* BroadcastGroup for TLC; the cfg gives the constants their values. *)
EXTENDS BroadcastGroup
=============================================================================
