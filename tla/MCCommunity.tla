---------------------------- MODULE MCCommunity ----------------------------
(***************************************************************************)
(* Community for TLC: three requests that work on the same state, of one   *)
(* family at a time, since the families share nothing but the sessions.    *)
(***************************************************************************)
EXTENDS Community

MCCasts == {{k} : k \in Kinds}
=============================================================================
