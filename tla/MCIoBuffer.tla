----------------------------- MODULE MCIoBuffer -----------------------------
(* Two byte values and a block of at most nine bytes: enough for the block *)
(* to grow twice, to be used again from the beginning, and to shrink.      *)
EXTENDS IoBuffer
=============================================================================
