--------------------------- MODULE MC_CharmClient ---------------------------
(* Small instances of CharmClient for TLC.                                 *)
EXTENDS CharmClient
=============================================================================
