------------------------------ MODULE MediaFiles ------------------------------
(***************************************************************************)
(* The muxers of a publisher that make MP4: its DashMuxer and Mp4Muxer are *)
(* given the same frames (RtmpProtocol::OnVideo, OnAudio, OnVideoHeader),  *)
(* and a DASH player asks for what it has been told of                     *)
(* (HttpDashProtocol).  A publisher and its muxers may be replaced by      *)
(* another of the same name.                                               *)
(*                                                                         *)
(* External: the publisher.  It sends both codec headers before frames.    *)
(* Audio and video share its clock; a frame is later than the one before   *)
(* it of the same track, unless the clock is set back.  The bytes of the   *)
(* boxes, that is BitStream, and presentation times are not modelled.      *)
(***************************************************************************)
EXTENDS DashMuxer, Mp4Muxer

CONSTANTS
  Steps,        \* how far the clock goes before a key frame; before another, one
  MaxFrames,    \* video frames the publisher sends
  MaxFaults     \* clocks set back, headers renewed and publishers replaced

ASSUME StepsAssumption == Steps \subseteq Nat
ASSUME NoneAssumption ==
  /\ None \notin {1, 2}
  /\ \A t \in Tracks, h \in {1, 2} : None # MovieOfTrack(TRUE, t, h)

VARIABLES
  published,    \* a publisher of the stream is registered
  clock,        \* the publisher's
  sent,         \* frames sent of each track
  spoken,       \* the clock at the last audio frame, -1 before it
  player,       \* the segments the player's MPD lists: <<track, time>>
  up,           \* the process runs
  setBack, renewed, replaced    \* which faults there were

environment == <<published, clock, sent, spoken, player, up, setBack, renewed, replaced>>
vars == <<dashVars, mp4Vars, environment>>

Faults == Cardinality({b \in {"s", "r", "p"} : \/ b = "s" /\ setBack
                                               \/ b = "r" /\ renewed
                                               \/ b = "p" /\ replaced})

Init ==
  /\ DashInit /\ Mp4Init
  /\ published = TRUE
  /\ clock = 0
  /\ sent = [t \in Tracks |-> 0]
  /\ spoken = -1
  /\ player = {}
  /\ up = TRUE
  /\ setBack = FALSE /\ renewed = FALSE /\ replaced = FALSE

-----------------------------------------------------------------------------
(* The publisher.                                                          *)

Ready == up /\ published /\ \A t \in Tracks : header_[t] # None

OnVideo(key, step) ==
  /\ Ready /\ sent["video"] < MaxFrames
  /\ clock' = clock + step
  /\ sent' = [sent EXCEPT !["video"] = @ + 1]
  /\ LET f == Frame("video", sent'["video"], clock', key, header_["video"])
     IN  Mp4OnVideo(f) /\ DashOnVideo(f)
  /\ UNCHANGED <<published, spoken, player, up, setBack, renewed, replaced>>

OnAudio ==
  /\ Ready /\ spoken # clock
  /\ spoken' = clock
  /\ sent' = [sent EXCEPT !["audio"] = @ + 1]
  /\ LET f == Frame("audio", sent'["audio"], clock, FALSE, header_["audio"])
     IN  Mp4OnAudio(f) /\ DashOnAudio(f)
  /\ UNCHANGED <<published, clock, player, up, setBack, renewed, replaced>>

OnHeader(t) ==
  /\ up /\ published
  /\ \E h \in {1, 2} :
       /\ Mp4OnHeader(t, h) /\ DashOnHeader(t, h)
       /\ \/ h = 1 /\ header_[t] = None /\ UNCHANGED renewed
          \/ h = 2 /\ header_[t] = 1 /\ Faults < MaxFaults /\ renewed' = TRUE
  /\ UNCHANGED <<published, clock, sent, spoken, player, up, setBack, replaced>>

SetClockBack ==
  /\ Ready /\ clock > 0 /\ Faults < MaxFaults
  /\ clock' = 0 /\ spoken' = -1 /\ setBack' = TRUE
  /\ UNCHANGED <<dashVars, mp4Vars, published, sent, player, up, renewed, replaced>>

\* The publisher goes, and its muxers with it.
Leave ==
  /\ Ready /\ Faults < MaxFaults
  /\ published' = FALSE
  /\ replaced' = TRUE
  /\ DashNew /\ Mp4New
  /\ clock' = 0 /\ spoken' = -1
  /\ UNCHANGED <<sent, player, up, setBack, renewed>>

Return ==
  /\ up /\ ~published
  /\ published' = TRUE
  /\ UNCHANGED <<dashVars, mp4Vars, clock, sent, spoken, player, up,
                 setBack, renewed, replaced>>

-----------------------------------------------------------------------------
(* The player.  A request the server answers with 404 or with what it has  *)
(* changes nothing here.                                                   *)

GetMpd ==
  /\ up /\ published /\ mpd_ # None
  /\ player' = UNION {{<<t, mpd_[t][i].start>> : i \in DOMAIN mpd_[t]} : t \in Tracks}
  /\ UNCHANGED <<dashVars, mp4Vars, published, clock, sent, spoken, up,
                 setBack, renewed, replaced>>

GetM4s ==
  /\ up /\ published
  /\ \E s \in player : Undefined(s[1], s[2])
  /\ up' = FALSE
  /\ UNCHANGED <<dashVars, mp4Vars, published, clock, sent, spoken, player,
                 setBack, renewed, replaced>>

Next ==
  \/ OnVideo(FALSE, 1)
  \/ \E step \in Steps : OnVideo(TRUE, step)
  \/ OnAudio
  \/ \E t \in Tracks : OnHeader(t)
  \/ SetClockBack
  \/ Leave
  \/ Return
  \/ GetMpd
  \/ GetM4s

Spec == Init /\ [][Next]_vars

-----------------------------------------------------------------------------
(* Properties.                                                             *)

\* The MPD promises a timeShiftBufferDepth of DASH_FRAGMENT_DURATION *
\* DASH_CACHE * 2: every segment that ended at most that long ago can be
\* fetched, unless the publisher's clock was set back.
TimeShiftBufferHeld ==
  setBack \/
  \A t \in Tracks : \A i \in DOMAIN mpd_info_[t] :
    LET info == mpd_info_[t][i]
    IN  clock - (info.start + info.duration) <= DASH_FRAGMENT_DURATION * DASH_CACHE * 2
          => info.start \in DOMAIN m4s_[t] /\ m4s_[t][info.start].number = i - 1

Whole(s) ==
  /\ Len(s.run) = Len(s.data)
  /\ \A i \in DOMAIN s.data :
       s.run[i].size = Size(s.data[i]) /\ s.data[i].number = s.data[1].number + i - 1
  /\ s.referenced = SizeOf(s.data)
  /\ s.data[1].dts = s.decodeTime
  /\ s.number > 0 /\ s.data[1].track = "video" => s.data[1].key

Ends(s) == s.decodeTime + Total([i \in DOMAIN s.run |-> s.run[i].duration])

FollowedBy(s, r) ==
  r.decodeTime = Ends(s) /\ r.data[1].number = Last(s.data).number + 1

\* A segment holds the data of just the samples its run lists, in order,
\* with the sizes it gives; all video segments but the first start with a key
\* frame.  The next segment of the track goes on with the next frame, and at
\* the time where this one ends.
FragmentsTile ==
  \A t \in Tracks : LET served == {m4s_[t][k] : k \in DOMAIN m4s_[t]} IN
    \A s \in served : /\ Whole(s)
                      /\ \A r \in served : r.number = s.number + 1 => FollowedBy(s, r)

\* The initialisation segment served for a track is there as soon as its
\* first segment is, names the same track in all its boxes, has no duration,
\* and has the codec header the frames were made with, unless that was
\* renewed.
InitFitsSegments ==
  \A t \in Tracks : \A k \in DOMAIN m4s_[t] :
    LET s == m4s_[t][k]
        movie == init_mp4_[t]
    IN  /\ movie # None
        /\ {movie.trak.tkhd.id, movie.trex.id} = {s.track}
        /\ {movie.mvhd, movie.trak.tkhd.duration, movie.trak.mdhd} = {0}
        /\ renewed \/ \A f \in Range(s.data) :
                        movie.trak.stsd = SampleDescription(t, f.header)

\* GetM4s on a map that is empty is undefined.  A player that asks for what
\* its MPD listed can meet one only if the publisher was replaced.
EndsOnlyWhenReplaced == up \/ replaced

\* Every sample of a file is where its tables say, and none is missing: but
\* in a muxer's first file, whose chunk offsets start at a member nothing
\* has set.
SamplesWhereTablesSay ==
  file.began =>
    /\ \A t \in Tracks : Addressable(file.data, file.movie.tracks[t].stbl)
    /\ file.movie.tracks["video"].trak.tkhd.id # file.movie.tracks["audio"].trak.tkhd.id
=============================================================================
