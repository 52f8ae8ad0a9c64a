--------------------------- MODULE MCStreamRouting ---------------------------
(* Two RTMP connections, a FLV player and an SRT connection that publishes *)
(* and subscribes, over two streams; RTMP slots and streams are            *)
(* interchangeable.                                                        *)
EXTENDS StreamRouting, TLC

Symmetry == Permutations(Rtmp) \cup Permutations(Keys)
=============================================================================
