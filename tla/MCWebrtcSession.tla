--------------------------- MODULE MCWebrtcSession ---------------------------
(* Two browsers, one of which opens a data channel.                        *)
EXTENDS WebrtcSession
CONSTANTS c1, c2
=============================================================================
