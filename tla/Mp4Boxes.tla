------------------------------- MODULE Mp4Boxes -------------------------------
(***************************************************************************)
(* The boxes of a movie (Mp4Muxer::WriteMovieBox and what it calls), as    *)
(* records of what a reader needs to make sense of the samples.  segment   *)
(* is segment_: the movie is the initialisation segment of one DASH track. *)
(* Not modelled: sizes and bytes of boxes, picture and sound formats, all  *)
(* of them constants, and the times of samples (stts, ctts).               *)
(***************************************************************************)
EXTENDS Frames

\* In the headers of the movie and of the track, in the edit list and in the
\* header of the track's media: the same.
NoDuration(segment) == IF segment THEN 0 ELSE 1000

Duration(segment, samples) ==
  IF samples = <<>> THEN NoDuration(segment)
  ELSE Last(samples).dts - Head(samples).dts

MovieHeader(segment, samples) ==
  LET d == [t \in Tracks |-> Duration(segment, samples[t])]
  IN  IF d["video"] > d["audio"] THEN d["video"] ELSE d["audio"]

TrackHeader(segment, track, samples) ==
  [id |-> IF segment \/ track = "video" THEN 1 ELSE 2,
   duration |-> Duration(segment, samples)]

EditList(segment, samples) == IF segment THEN <<>> ELSE <<Duration(segment, samples)>>

MediaHeader(segment, samples) == Duration(segment, samples)

VisualSampleEntry(header) == [avcC |-> header]
AudioSampleEntry(header) == [esds |-> header]

SampleDescription(track, header) ==
  IF track = "video" THEN VisualSampleEntry(header) ELSE AudioSampleEntry(header)

Track(segment, track, samples, header) ==
  [tkhd |-> TrackHeader(segment, track, samples),
   elst |-> EditList(segment, samples),
   mdhd |-> MediaHeader(segment, samples),
   stsd |-> SampleDescription(track, header)]

\* What a movie fragment takes as default.
TrackExtends == [id |-> 1]

\* The movie of a muxer that has been given one codec header and no frame.
MovieOfTrack(segment, track, header) ==
  [mvhd |-> MovieHeader(segment, [t \in Tracks |-> <<>>]),
   trex |-> TrackExtends,
   trak |-> Track(segment, track, <<>>, header)]
=============================================================================
