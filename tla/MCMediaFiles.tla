----------------------------- MODULE MCMediaFiles -----------------------------
(* One stream, segments of two time units, one of them listed; a key        *)
(* picture may come in slices, frames of one time.                         *)
EXTENDS MediaFiles
MCSteps == {0, 2}
=============================================================================
