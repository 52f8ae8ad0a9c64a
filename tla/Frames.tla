-------------------------------- MODULE Frames --------------------------------
(* The frames the muxers of a publisher are given (class Payload).         *)
EXTENDS Integers, SequencesExt

Tracks == {"video", "audio"}

\* number counts the frames of a track; header is the codec header that was
\* current when the frame was made.
Frame(track, number, dts, key, header) ==
  [track |-> track, number |-> number, dts |-> dts, key |-> key, header |-> header]

\* GetAllLen of a video frame, GetRawLen of an audio frame: a key frame is
\* longer than others.
Size(f) == IF f.key THEN 2 ELSE 1

Total(sizes) ==
  LET sum[n \in 0 .. Len(sizes)] == IF n = 0 THEN 0 ELSE sum[n - 1] + sizes[n]
  IN  sum[Len(sizes)]

SizeOf(frames) == Total([i \in DOMAIN frames |-> Size(frames[i])])
=============================================================================
