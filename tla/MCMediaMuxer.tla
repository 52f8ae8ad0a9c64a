---------------------------- MODULE MCMediaMuxer ----------------------------
(***************************************************************************)
(* TLC instance of MediaMuxer: limits small enough that queues are trimmed *)
(* several times and segments dropped while a player holds an old playlist. *)
(***************************************************************************)
EXTENDS MediaMuxer
=============================================================================
