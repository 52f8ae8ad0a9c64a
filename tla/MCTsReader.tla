----------------------------- MODULE MCTsReader -----------------------------
(* Key pictures with their parameter sets, pictures of one or two slices   *)
(* in two packets, groups of two ADTS frames; the third time stamp is 2^30. *)
EXTENDS TsReader

MCVideoShapes ==
  [c \in Codecs |->
     IF c = "h264" THEN {<<"sps", "pps", "idr">>, <<"slice", "rest">>}
     ELSE {<<"vps", "sps", "pps", "idr">>, <<"other", "slice">>}]
MCAudioShapes == {<<"adts", "rest", "adts">>}
=============================================================================
