--------------------------- MODULE MCRelayService ---------------------------
(* Two relays that share a database, for TLC. *)
EXTENDS RelayService
=============================================================================
