----------------------------- MODULE MCNalSplit -----------------------------
(* Every sequence of at most fourteen bytes that are 0, 1 or something     *)
(* else: up to three start codes, with NALs of one byte and more.          *)
EXTENDS NalSplit
=============================================================================
