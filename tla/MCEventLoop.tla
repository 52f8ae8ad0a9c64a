----------------------------- MODULE MCEventLoop -----------------------------
(* Two connections, three messages of two units each, a kernel buffer of   *)
(* one unit: writes are partial, refused, and finished later.              *)
EXTENDS EventLoop
=============================================================================
