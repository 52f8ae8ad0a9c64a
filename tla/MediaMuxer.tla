----------------------------- MODULE MediaMuxer -----------------------------
(***************************************************************************)
(* MediaMuxer (src/src/media_muxer.{h,cpp}): the frame caches of one       *)
(* publisher, the HLS segments cut from its frames, the playlist, and what *)
(* a player that joins late is sent first.  HttpHlsProtocol, the only      *)
(* reader of segments and playlist, is modelled by its two requests.       *)
(*                                                                         *)
(* A video payload is the group of pictures it belongs to and whether it   *)
(* opens that group; an audio payload carries nothing the properties tell  *)
(* apart, so audio_queue_ is the key set of the map.  A TS segment is the  *)
(* kind of the frame that opened it and the number of frames packed in it. *)
(*                                                                         *)
(* The limits are constants: 800 frames per queue (VideoCap, AudioCap) and *)
(* 10 segments (MinTs) in the code.  The other half of the code's test,    *)
(* size() > 20 * calc_fps, is never true: the counters calc_fps are reset  *)
(* by EveryNSecond only, which no timer of main.cpp ever calls, so they    *)
(* count every frame ever received.                                        *)
(***************************************************************************)
EXTENDS Integers, FiniteSets, Functions

CONSTANTS
  VideoCap,    \* frames in video_queue_ from which it is trimmed (800)
  AudioCap,    \* frames in audio_queue_ from which it is trimmed (800)
  MinTs,       \* segments that must be exceeded before anything is trimmed (10)
  MaxVideo,    \* bound: video frames received
  MaxAudio     \* bound: audio frames received

ASSUME CapAssumption   == VideoCap \in Nat \ {0} /\ AudioCap \in Nat \ {0}
ASSUME MinTsAssumption == MinTs \in Nat /\ MinTs >= 4
ASSUME BoundAssumption == MaxVideo \in Nat /\ MaxAudio \in Nat

VARIABLES
  video_queue_,                \* frame id -> payload
  audio_queue_,                \* frame ids
  video_frame_id_,
  audio_frame_id_,
  video_key_frame_recv_count_,
  pre_video_key_frame_id_,     \* 0 also means "none yet"
  pre_audio_key_frame_id_,
  ts_queue_,                   \* segment number -> segment
  ts_seq_,                     \* segment being filled
  m3u8_,                       \* the playlist text; no segments: empty string
  player                       \* an HLS client's copy: segments still to fetch

queues == <<video_queue_, audio_queue_>>
frames == <<video_frame_id_, audio_frame_id_, video_key_frame_recv_count_,
            pre_video_key_frame_id_, pre_audio_key_frame_id_>>
hls    == <<ts_queue_, ts_seq_, m3u8_>>
vars   == <<queues, frames, hls, player>>

Kinds    == {"audio", "inter", "key"}
Payload  == [iframe : BOOLEAN, gop : Nat]
TsMedia  == [opens : Kinds, frames : Nat]
Playlist == [media_sequence : Nat, segments : SUBSET Nat]

EmptyPlaylist == [media_sequence |-> 0, segments |-> {}]

First(S) == CHOOSE x \in S : \A y \in S : x <= y      \* begin()->first
Last(S)  == CHOOSE x \in S : \A y \in S : x >= y      \* rbegin()->first

-----------------------------------------------------------------------------
(* Segments and playlist.                                                  *)

\* UpdateM3U8 lists the newest three segments, the one just completed last.
\* (Operators named Slip... are slips of the definition after them, used to
\* test that the properties notice: no specification here uses them.)
SlipListedAhead == LET new_ts_seq == Last(DOMAIN ts_queue_)
                   IN  (new_ts_seq - 1) .. (new_ts_seq + 1)

Listed == LET new_ts_seq == Last(DOMAIN ts_queue_)
          IN  (new_ts_seq - 2) .. new_ts_seq

SlipUpdateEveryThird ==                   \* rewritten every third segment
  IF Cardinality(DOMAIN ts_queue_) < 3 \/ ts_seq_ % 3 # 2
  THEN m3u8_
  ELSE [media_sequence |-> Last(DOMAIN ts_queue_), segments |-> Listed]

UpdateM3U8 ==
  IF Cardinality(DOMAIN ts_queue_) < 3
  THEN m3u8_
  ELSE [media_sequence |-> Last(DOMAIN ts_queue_), segments |-> Listed]

\* PacketTs appends one frame to the segment numbered seq, opening it first
\* when it does not exist.
PacketTs(seq, kind) ==
  [s \in DOMAIN ts_queue_ \cup {seq} |->
     IF s # seq THEN ts_queue_[s]
     ELSE IF s \in DOMAIN ts_queue_
          THEN [ts_queue_[s] EXCEPT !.frames = @ + 1]
          ELSE [opens |-> kind, frames |-> 1]]

\* The test that precedes every trim.
SlipFullQueueOnly(size, cap, ts) == size >= cap
SlipFullAtMinTs(size, cap, ts)   == size >= cap /\ Cardinality(DOMAIN ts) >= MinTs

Full(size, cap, ts) == size >= cap /\ Cardinality(DOMAIN ts) > MinTs

-----------------------------------------------------------------------------
(* Frames from the publisher.                                              *)

Init ==
  /\ video_queue_ = [id \in {} |-> [iframe |-> FALSE, gop |-> 0]]
  /\ audio_queue_ = {}
  /\ video_frame_id_ = 0
  /\ audio_frame_id_ = 0
  /\ video_key_frame_recv_count_ = 0
  /\ pre_video_key_frame_id_ = 0
  /\ pre_audio_key_frame_id_ = 0
  /\ ts_queue_ = [s \in {} |-> [opens |-> "audio", frames |-> 0]]
  /\ ts_seq_ = 0
  /\ m3u8_ = EmptyPlaylist
  /\ player = {}

SlipTrimAudioNewest(queue, ts) ==         \* rbegin() for begin()
  IF Full(Cardinality(queue), AudioCap, ts) THEN queue \ {Last(queue)} ELSE queue

TrimAudio(queue, ts) ==
  IF Full(Cardinality(queue), AudioCap, ts) THEN queue \ {First(queue)} ELSE queue

OnAudio ==
  LET queue == audio_queue_ \cup {audio_frame_id_}
      ts    == PacketTs(ts_seq_, "audio")
  IN  /\ audio_frame_id_ < MaxAudio
      /\ ts_queue_' = ts
      /\ audio_queue_' = TrimAudio(queue, ts)
      /\ audio_frame_id_' = audio_frame_id_ + 1
      /\ UNCHANGED <<video_queue_, video_frame_id_, video_key_frame_recv_count_,
                     pre_video_key_frame_id_, pre_audio_key_frame_id_,
                     ts_seq_, m3u8_, player>>

\* A key frame closes the segment being filled: the playlist is rewritten to
\* end with it and the frame opens the next one.
SlipCutAnywhere(iframe) == pre_video_key_frame_id_ # 0

CutSegment(iframe) == iframe /\ pre_video_key_frame_id_ # 0

\* The queue, then the segments, once the oldest frame has gone; a key frame
\* takes the oldest segment with it.
SlipTrimNewestSegment(queue, ts) ==
  LET front == First(DOMAIN queue)
  IN  IF Full(Cardinality(DOMAIN queue), VideoCap, ts)
      THEN /\ video_queue_' = Restrict(queue, DOMAIN queue \ {front})
           /\ ts_queue_' = IF queue[front].iframe
                           THEN Restrict(ts, DOMAIN ts \ {Last(DOMAIN ts)})
                           ELSE ts
      ELSE video_queue_' = queue /\ ts_queue_' = ts

TrimVideo(queue, ts) ==
  LET front == First(DOMAIN queue)
  IN  IF Full(Cardinality(DOMAIN queue), VideoCap, ts)
      THEN /\ video_queue_' = Restrict(queue, DOMAIN queue \ {front})
           /\ ts_queue_' = IF queue[front].iframe
                           THEN Restrict(ts, DOMAIN ts \ {First(DOMAIN ts)})
                           ELSE ts
      ELSE video_queue_' = queue /\ ts_queue_' = ts

NextSeq(iframe)  == IF CutSegment(iframe) THEN ts_seq_ + 1 ELSE ts_seq_
KeyCount(iframe) == video_key_frame_recv_count_ + (IF iframe THEN 1 ELSE 0)
LastKey(iframe)  == IF iframe THEN video_frame_id_ ELSE pre_video_key_frame_id_

Enqueue(payload) ==
  [id \in DOMAIN video_queue_ \cup {video_frame_id_} |->
     IF id = video_frame_id_ THEN payload ELSE video_queue_[id]]

OnVideo(iframe) ==
  LET payload == [iframe |-> iframe, gop |-> KeyCount(iframe)]
  IN  /\ video_frame_id_ < MaxVideo
      /\ m3u8_' = IF CutSegment(iframe) THEN UpdateM3U8 ELSE m3u8_
      /\ ts_seq_' = NextSeq(iframe)
      /\ video_key_frame_recv_count_' = KeyCount(iframe)
      /\ pre_video_key_frame_id_' = LastKey(iframe)
      /\ pre_audio_key_frame_id_' =
           IF iframe THEN audio_frame_id_ ELSE pre_audio_key_frame_id_
      /\ TrimVideo(Enqueue(payload),
                   PacketTs(NextSeq(iframe), IF iframe THEN "key" ELSE "inter"))
      /\ video_frame_id_' = video_frame_id_ + 1
      /\ UNCHANGED <<audio_queue_, audio_frame_id_, player>>

-----------------------------------------------------------------------------
(* Requests of an HLS player: it downloads the playlist, then its segments *)
(* one at a time and in any order, while frames keep arriving.             *)

HlsGetM3U8 ==                         \* 200, or 404 and kClose
  /\ player' = m3u8_.segments
  /\ UNCHANGED <<queues, frames, hls>>

HlsGetTs(s) ==
  /\ s \in player
  /\ player' = IF s \in DOMAIN ts_queue_
               THEN player \ {s}      \* 200 with the segment
               ELSE {}                \* GetTs finds none: 404 and kClose
  /\ UNCHANGED <<queues, frames, hls>>

Next ==
  \/ OnAudio
  \/ \E iframe \in BOOLEAN : OnVideo(iframe)
  \/ HlsGetM3U8
  \/ \E s \in player : HlsGetTs(s)

Spec == Init /\ [][Next]_vars

-----------------------------------------------------------------------------
(* What a player that joins now is sent first (MediaMuxer::GetFastOut):    *)
(* both queues from the frame that opened the current group of pictures.   *)

FastOutVideo ==
  IF pre_video_key_frame_id_ \in DOMAIN video_queue_
  THEN {id \in DOMAIN video_queue_ : id >= pre_video_key_frame_id_}
  ELSE {}

FastOutAudio ==
  IF pre_audio_key_frame_id_ \in audio_queue_
  THEN {id \in audio_queue_ : id >= pre_audio_key_frame_id_}
  ELSE {}

-----------------------------------------------------------------------------
(* Properties.                                                             *)

\* Every variable stays in the range of its C++ type as the code uses it.
TypeOK ==
  /\ DOMAIN video_queue_ \subseteq Nat
  /\ video_queue_ \in [DOMAIN video_queue_ -> Payload]
  /\ audio_queue_ \subseteq Nat
  /\ video_frame_id_ \in Nat /\ audio_frame_id_ \in Nat
  /\ video_key_frame_recv_count_ \in Nat
  /\ pre_video_key_frame_id_ \in Nat /\ pre_audio_key_frame_id_ \in Nat
  /\ DOMAIN ts_queue_ \subseteq Nat
  /\ ts_queue_ \in [DOMAIN ts_queue_ -> TsMedia]
  /\ ts_seq_ \in Nat
  /\ m3u8_ \in Playlist
  /\ player \subseteq Nat

\* However the queue has been trimmed, the key frame that opened the current
\* group of pictures and every frame since are still cached, so what a late
\* joiner is sent first starts with a frame it can decode and has no gap up to
\* the live frame.  The trim itself does not look at key frames: this rests on
\* the number of segments the trim waits for (GetFastOut, OnVideo).
FastOutDecodable ==
  video_key_frame_recv_count_ > 0 =>
    /\ FastOutVideo = pre_video_key_frame_id_ .. (video_frame_id_ - 1)
    /\ pre_video_key_frame_id_ < video_frame_id_
    /\ video_queue_[pre_video_key_frame_id_].iframe
    /\ \A id \in FastOutVideo :
         video_queue_[id].gop = video_key_frame_recv_count_

\* The audio sent first is every frame since that key frame, unless so much has
\* come since that the trim of OnAudio has had to drop some of it.
FastOutAudioComplete ==
  audio_frame_id_ - pre_audio_key_frame_id_ < AudioCap =>
    FastOutAudio = pre_audio_key_frame_id_ .. (audio_frame_id_ - 1)

\* Segments are numbered without a gap up to the one being filled, so the
\* ts_queue_[new_ts_seq - 2] and [new_ts_seq - 1] of UpdateM3U8 find a segment
\* and never insert an empty one.
TsContiguous ==
  DOMAIN ts_queue_ # {} =>
    DOMAIN ts_queue_ = First(DOMAIN ts_queue_) .. ts_seq_

\* Every segment the current playlist advertises can still be served, and the
\* one being filled is never advertised (UpdateM3U8 against the trim of OnVideo).
PlaylistServable ==
  m3u8_.segments \subseteq DOMAIN ts_queue_ \ {ts_seq_}

\* A segment of the playlist a client holds, however old that copy is, is
\* served as long as fewer than MinTs newer ones have been opened
\* (HttpHlsProtocol's GetTs against the trim of OnVideo).
ServedWhileFresh ==
  \A s \in player : ts_seq_ - s < MinTs => s \in DOMAIN ts_queue_

\* Every segment but the first opens with a key frame and so can be decoded
\* alone (OnVideo cuts before it packs, and only at a key frame).
SegmentsStartWithKeyFrame ==
  \A s \in DOMAIN ts_queue_ : s > 0 => ts_queue_[s].opens = "key"

\* A segment that a playlist has advertised, or that a client is about to
\* fetch, never changes again: it can only disappear (PacketTs appends to
\* ts_seq_ only, and ts_seq_ has moved past every advertised segment).
AdvertisedSegmentsFrozen ==
  [][\A s \in (m3u8_.segments \cup player) \cap DOMAIN ts_queue_ :
       s \in DOMAIN ts_queue_' => ts_queue_'[s] = ts_queue_[s]]_vars

\* Playlists only move forward, one segment at a time, so a player that
\* reloads before two more key frames misses none (UpdateM3U8 before ++ts_seq_).
PlaylistAdvancesByOne ==
  [][m3u8_' # m3u8_ /\ m3u8_.segments # {} =>
       m3u8_'.segments = {s + 1 : s \in m3u8_.segments}]_vars

\* The playlist example above UpdateM3U8 gives the number of its first segment
\* as EXT-X-MEDIA-SEQUENCE.
MediaSequenceIsFirstSegment ==
  m3u8_.segments # {} => m3u8_.media_sequence = First(m3u8_.segments)

\* The comment over the trims of OnAudio and OnVideo: once full, full for ever.
VideoFull == Full(Cardinality(DOMAIN video_queue_) + 1, VideoCap, ts_queue_)

OnceFullAlwaysFull == [][VideoFull => VideoFull']_vars
=============================================================================
