------------------------------ MODULE DashMuxer ------------------------------
(***************************************************************************)
(* DashMuxer: frames are collected until a key frame comes at least        *)
(* DASH_FRAGMENT_DURATION after the first of them, then one segment is cut *)
(* of each track that has more than one frame, the initialisation segments *)
(* and the MPD are renewed, and the last frame of each track is kept as    *)
(* the first of its next segment.                                          *)
(*                                                                         *)
(* What the code has once per track is a function of the track here, and   *)
(* mdat_, a string of bytes in the code, the sequence of the frames whose  *)
(* bytes it holds.                                                         *)
(***************************************************************************)
EXTENDS Mp4Boxes, FiniteSets

CONSTANTS
  DASH_CACHE,                \* segments the MPD lists of each track
  DASH_FRAGMENT_DURATION,    \* shortest duration of a video segment
  None                       \* no header, no MPD, no initialisation segment

ASSUME DashAssumption ==
  /\ DASH_CACHE \in Nat \ {0}
  /\ DASH_FRAGMENT_DURATION \in Nat \ {0}

VARIABLES
  header_,      \* video_header_, audio_header_
  samples_,     \* video_samples_, audio_samples_
  mdat_,        \* video_mdat_, audio_mdat_
  m4s_,         \* video_m4s_, audio_m4s_: segments by the time of their first frame
  mpd_info_,    \* video_mpd_info_, audio_mpd_info_; their lengths are the sequences
  init_mp4_,    \* video_init_mp4_, audio_init_mp4_
  mpd_

dashVars == <<header_, samples_, mdat_, m4s_, mpd_info_, init_mp4_, mpd_>>

Each(value) == [t \in Tracks |-> value]

DashInit ==
  /\ header_ = Each(None) /\ init_mp4_ = Each(None) /\ mpd_ = None
  /\ samples_ = Each(<<>>) /\ mdat_ = Each(<<>>)
  /\ m4s_ = Each(<<>>) /\ mpd_info_ = Each(<<>>)

\* The muxer of a new publisher takes the place of the old one's.
DashNew ==
  /\ header_' = Each(None) /\ init_mp4_' = Each(None) /\ mpd_' = None
  /\ samples_' = Each(<<>>) /\ mdat_' = Each(<<>>)
  /\ m4s_' = Each(<<>>) /\ mpd_info_' = Each(<<>>)

-----------------------------------------------------------------------------
(* A segment.  s holds the samples of both tracks, the new key frame       *)
(* included, which is not in mdat_ yet.                                    *)

\* The run lists all samples but the last, whose time ends the one before.
TrackFragmentRun(frames) ==
  [i \in 1 .. Len(frames) - 1 |->
     [duration |-> frames[i + 1].dts - frames[i].dts, size |-> Size(frames[i])]]

\* The key frame is not in the data of its track yet; the last audio frame
\* is, and is left out.
SlipMediaData(t) == mdat_[t]         \* left_size is 0 for audio as well
MediaData(t) == IF t = "audio" THEN Front(mdat_[t]) ELSE mdat_[t]

DecodeTime(frames) == Head(frames).dts

SegmentIndex(t) == SizeOf(MediaData(t))

Segment(t, frames) ==
  [number     |-> Len(mpd_info_[t]),
   track      |-> 1,
   decodeTime |-> DecodeTime(frames),
   run        |-> TrackFragmentRun(frames),
   referenced |-> SegmentIndex(t),
   data       |-> MediaData(t)]

\* What is left of the map after its first element is erased while it has
\* more than DASH_CACHE * 2.
SlipKept(m) ==                       \* room is made before there is need
  {k \in DOMAIN m : Cardinality({j \in DOMAIN m : j > k}) < DASH_CACHE * 2 - 1}
Kept(m) == {k \in DOMAIN m : Cardinality({j \in DOMAIN m : j > k}) < DASH_CACHE * 2}

Store(m, time, segment) ==
  [k \in Kept(m) \cup {time} |-> IF k = time THEN segment ELSE m[k]]

Info(frames) ==
  [start |-> Head(frames).dts, duration |-> Last(frames).dts - Head(frames).dts]

-----------------------------------------------------------------------------
(* Flush and what follows it.                                              *)

LongEnough(frames) ==
  Last(frames).dts - Head(frames).dts >= DASH_FRAGMENT_DURATION

Cut(s, t) == Len(s[t]) > 1

Flush(s) ==
  /\ m4s_' = [t \in Tracks |->
       IF Cut(s, t) THEN Store(m4s_[t], Head(s[t]).dts, Segment(t, s[t])) ELSE m4s_[t]]
  /\ mpd_info_' = [t \in Tracks |->
       IF Cut(s, t) THEN Append(mpd_info_[t], Info(s[t])) ELSE mpd_info_[t]]

\* The movie of a Mp4Muxer made for the occasion.
SlipInitMovie(t) == MovieOfTrack(FALSE, t, header_[t])      \* SetSegment is forgotten
InitMovie(t) == MovieOfTrack(TRUE, t, header_[t])

UpdateInitMp4(s) ==
  init_mp4_' = [t \in Tracks |-> IF Cut(s, t) THEN InitMovie(t) ELSE init_mp4_[t]]

\* No MPD before both tracks have DASH_CACHE segments.
UpdateMpd ==
  mpd_' =
    IF \E t \in Tracks : Len(mpd_info_'[t]) < DASH_CACHE
    THEN mpd_
    ELSE [t \in Tracks |-> LET info == mpd_info_'[t]
                           IN  SubSeq(info, Len(info) - DASH_CACHE + 1, Len(info))]

LastOf(frames) == IF frames = <<>> THEN <<>> ELSE <<Last(frames)>>

\* Reset, and the key frame's bytes, which go into the next segment.
Reset(s) ==
  /\ samples_' = [t \in Tracks |-> LastOf(s[t])]
  /\ mdat_' = [video |-> <<Last(s["video"])>>, audio |-> LastOf(mdat_["audio"])]

-----------------------------------------------------------------------------
(* The handlers.                                                           *)

DashOnVideo(f) ==
  LET s == [samples_ EXCEPT !["video"] = Append(@, f)]
  IN  /\ IF f.key /\ LongEnough(s["video"])
         THEN Flush(s) /\ UpdateInitMp4(s) /\ UpdateMpd /\ Reset(s)
         ELSE /\ samples_' = s
              /\ mdat_' = [mdat_ EXCEPT !["video"] = Append(@, f)]
              /\ UNCHANGED <<m4s_, mpd_info_, init_mp4_, mpd_>>
      /\ UNCHANGED header_

DashOnAudio(f) ==
  /\ samples_' = [samples_ EXCEPT !["audio"] = Append(@, f)]
  /\ mdat_' = [mdat_ EXCEPT !["audio"] = Append(@, f)]
  /\ UNCHANGED <<header_, m4s_, mpd_info_, init_mp4_, mpd_>>

\* OnVideoHeader and OnAudioHeader.
DashOnHeader(t, h) ==
  /\ header_' = [header_ EXCEPT ![t] = h]
  /\ UNCHANGED <<samples_, mdat_, m4s_, mpd_info_, init_mp4_, mpd_>>

\* What GetM4s does for a time it has no segment of: "" if it has others,
\* and the end of the map dereferenced if it has none.
SlipUndefined(t, time) == time \notin DOMAIN m4s_[t]       \* no check
Undefined(t, time) == time \notin DOMAIN m4s_[t] /\ DOMAIN m4s_[t] = {}
=============================================================================
