----------------------- MODULE MC_ClientStateStream -----------------------
(* Small instances of ClientStateStream for TLC.                           *)
EXTENDS ClientStateStream
=============================================================================
