----------------------------- MODULE MCRtmpChunk -----------------------------
(* Messages of exactly one chunk and of two, timestamps of two bits of      *)
(* which the wire carries one.                                             *)
EXTENDS RtmpChunk
=============================================================================
