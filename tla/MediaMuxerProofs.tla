-------------------------- MODULE MediaMuxerProofs --------------------------
(***************************************************************************)
(* Proofs about MediaMuxer for every value of its limits.                  *)
(*                                                                         *)
(* The trim of OnVideo drops whatever frame is oldest without looking at   *)
(* key frames, and drops a segment whenever that frame is a key frame.     *)
(* That the current group of pictures survives is a fact about counting:   *)
(* there is one dropped segment per dropped key frame, at most one segment *)
(* per key frame received, and more than MinTs segments before anything is *)
(* dropped; so more than MinTs key frames are still queued.  Retained says *)
(* this with the number of dropped segments, lo, as the link.              *)
(***************************************************************************)
EXTENDS MediaMuxer, FiniteSetTheorems, TLAPS

\* The segments kept run from lo to the one being filled, and something was
\* dropped only while MinTs segments remained.
SegmentsKept(ts, seq, lo) ==
  /\ seq \in Nat /\ lo \in 0 .. seq
  /\ DOMAIN ts = lo .. seq
  /\ lo > 0 => seq - lo + 1 >= MinTs

\* The frames kept are the newest ones; of count key frames the first lo, and
\* only those, have been dropped; the last one is number pre.
FramesKept(queue, n, count, pre, seq, lo) ==
  /\ n \in Nat /\ count \in Nat /\ pre \in Nat
  /\ \E first \in 0 .. n : DOMAIN queue = first .. (n - 1)
  /\ queue \in [DOMAIN queue -> Payload]
  /\ \A id \in DOMAIN queue :
       /\ queue[id].gop <= count
       /\ queue[id].iframe => queue[id].gop > lo
       /\ queue[id].iframe /\ queue[id].gop = count => id = pre
       /\ count > 0 /\ id >= pre => queue[id].gop = count
  /\ \A i, j \in DOMAIN queue : i < j =>
       /\ queue[i].gop <= queue[j].gop
       /\ queue[j].iframe => queue[i].gop < queue[j].gop
  /\ \A g \in (lo + 1) .. count :
       \E id \in DOMAIN queue : queue[id].iframe /\ queue[id].gop = g
  /\ count = 0 => pre = 0 /\ seq = 0
  /\ count > 0 => seq < count /\ pre < n

\* Nothing received yet, or both shapes hold for one and the same lo.
Retained ==
  \/ /\ DOMAIN ts_queue_ = {} /\ ts_seq_ = 0
     /\ DOMAIN video_queue_ = {} /\ video_frame_id_ = 0
     /\ video_key_frame_recv_count_ = 0 /\ pre_video_key_frame_id_ = 0
  \/ \E lo \in Nat :
       /\ SegmentsKept(ts_queue_, ts_seq_, lo)
       /\ FramesKept(video_queue_, video_frame_id_, video_key_frame_recv_count_,
                     pre_video_key_frame_id_, ts_seq_, lo)

\* The playlist lists the three segments before the one being filled.
PlaylistRecent ==
  m3u8_.segments # {} =>
    ts_seq_ >= 3 /\ m3u8_.segments = (ts_seq_ - 3) .. (ts_seq_ - 1)

\* No client holds a segment that is still being filled.
PlayerBehind == \A s \in player : s < ts_seq_

IInv == TypeOK /\ Retained /\ PlaylistRecent /\ PlayerBehind

-----------------------------------------------------------------------------
(* begin() and rbegin() of a map whose keys are consecutive.               *)

LEMMA FirstOfInterval ==
  ASSUME NEW a \in Int, NEW b \in Int, a <= b
  PROVE  First(a .. b) = a
  BY DEF First

LEMMA LastOfInterval ==
  ASSUME NEW a \in Int, NEW b \in Int, a <= b
  PROVE  Last(a .. b) = b
  BY DEF Last

LEMMA FirstInSet ==
  ASSUME NEW S \in SUBSET Nat, NEW a \in Int, NEW b \in Int, S = a .. b, a <= b
  PROVE  First(S) = a /\ First(S) \in S
  BY FirstOfInterval

-----------------------------------------------------------------------------
(* One trim keeps both shapes, dropping at most one segment.               *)

LEMMA TrimKeepsShapes ==
  ASSUME NEW queue, NEW ts, NEW n, NEW count, NEW pre, NEW seq,
         NEW lo \in Nat,
         SegmentsKept(ts, seq, lo),
         FramesKept(queue, n, count, pre, seq, lo),
         DOMAIN queue # {},
         ts \in [DOMAIN ts -> TsMedia],
         TrimVideo(queue, ts)
  PROVE  /\ \E low \in Nat : /\ SegmentsKept(ts_queue_', seq, low)
                             /\ FramesKept(video_queue_', n, count, pre, seq, low)
         /\ ts_queue_' \in [DOMAIN ts_queue_' -> TsMedia]
<1> USE DEF Restrict
<1> DEFINE front == First(DOMAIN queue)
<1>1. PICK first \in 0 .. n : DOMAIN queue = first .. (n - 1)
  BY DEF FramesKept
<1>2. n \in Nat /\ first \in Nat /\ first <= n - 1 /\ front = first
  <2>1. n \in Nat
    BY DEF FramesKept
  <2>2. first \in Nat /\ first <= n - 1
    BY <1>1, <2>1
  <2> QED
    BY <1>1, <2>1, <2>2, FirstOfInterval
<1>3. CASE ~Full(Cardinality(DOMAIN queue), VideoCap, ts)
  BY <1>3 DEF TrimVideo
<1>4. CASE Full(Cardinality(DOMAIN queue), VideoCap, ts)
  <2> DEFINE rest == [id \in DOMAIN queue \ {front} |-> queue[id]]
  <2>1. video_queue_' = rest
    BY <1>4 DEF TrimVideo
  <2>2. DOMAIN rest = (first + 1) .. (n - 1) /\ first + 1 \in 0 .. n
    BY <1>1, <1>2
  <2>3. seq \in Nat /\ lo <= seq /\ DOMAIN ts = lo .. seq
    BY DEF SegmentsKept
  <2>4. Cardinality(DOMAIN ts) = seq - lo + 1
    BY <2>3, FS_Interval
  <2>5. seq - lo + 1 > MinTs
    BY <1>4, <2>4 DEF Full
  <2>6. lo + 1 \in 0 .. seq /\ First(DOMAIN ts) = lo
    BY <2>3, <2>5, MinTsAssumption, FirstOfInterval
  <2>7. CASE queue[front].iframe
    <3>1. ts_queue_' = [s \in DOMAIN ts \ {lo} |-> ts[s]]
      BY <1>4, <2>6, <2>7 DEF TrimVideo
    <3>2. DOMAIN ts_queue_' = (lo + 1) .. seq
      BY <3>1, <2>3
    <3>3. SegmentsKept(ts_queue_', seq, lo + 1)
      BY <3>2, <2>3, <2>5, <2>6, MinTsAssumption DEF SegmentsKept
    <3>4. queue[front].gop = lo + 1
      <4>1. count \in Nat /\ lo + 1 <= count
        <5>1. count \in Nat /\ (count = 0 => seq = 0) /\ (count > 0 => seq < count)
          BY DEF FramesKept
        <5> QED
          BY <5>1, <2>3, <2>6
      <4>2. PICK id \in DOMAIN queue : queue[id].iframe /\ queue[id].gop = lo + 1
        BY <4>1 DEF FramesKept
      <4>3. front \in DOMAIN queue /\ queue[front].gop > lo /\ queue[front].gop \in Nat
        BY <1>1, <1>2, <2>7 DEF FramesKept, Payload
      <4>4. CASE id = front
        BY <4>2, <4>4
      <4>5. CASE front < id
        BY <4>2, <4>3, <4>5 DEF FramesKept
      <4> QED
        BY <4>4, <4>5, <1>1, <1>2
    <3>5. FramesKept(rest, n, count, pre, seq, lo + 1)
      <4>1. n \in Nat /\ count \in Nat /\ pre \in Nat
            /\ (count = 0 => pre = 0 /\ seq = 0)
            /\ (count > 0 => seq < count /\ pre < n)
        BY DEF FramesKept
      <4>2. \E f \in 0 .. n : DOMAIN rest = f .. (n - 1)
        BY <2>2
      <4>3. rest \in [DOMAIN rest -> Payload]
        BY DEF FramesKept
      <4>4. ASSUME NEW id \in DOMAIN rest
            PROVE  /\ rest[id].gop <= count
                   /\ rest[id].iframe => rest[id].gop > lo + 1
                   /\ rest[id].iframe /\ rest[id].gop = count => id = pre
                   /\ count > 0 /\ id >= pre => rest[id].gop = count
        <5>1. id \in DOMAIN queue /\ front \in DOMAIN queue /\ front < id
              /\ rest[id] = queue[id]
          BY <1>1, <1>2
        <5>2. queue[id].iframe => queue[front].gop < queue[id].gop
          BY <5>1 DEF FramesKept
        <5>3. queue[id].gop \in Nat
          BY <5>1 DEF FramesKept, Payload
        <5> QED
          BY <5>1, <5>2, <5>3, <3>4 DEF FramesKept
      <4>5. \A i, j \in DOMAIN rest : i < j =>
              /\ rest[i].gop <= rest[j].gop
              /\ rest[j].iframe => rest[i].gop < rest[j].gop
        BY DEF FramesKept
      <4>6. ASSUME NEW g \in (lo + 2) .. count
            PROVE  \E id \in DOMAIN rest : rest[id].iframe /\ rest[id].gop = g
        <5>1. g \in (lo + 1) .. count
          BY <4>1
        <5>2. PICK id \in DOMAIN queue : queue[id].iframe /\ queue[id].gop = g
          BY <5>1 DEF FramesKept
        <5>3. id # front
          BY <5>2, <3>4
        <5> QED
          BY <5>2, <5>3
      <4>7. (lo + 1) + 1 = lo + 2
        OBVIOUS
      <4> HIDE DEF rest
      <4> QED
        BY <4>1, <4>2, <4>3, <4>4, <4>5, <4>6, <4>7 DEF FramesKept
    <3>6. ts_queue_' \in [DOMAIN ts_queue_' -> TsMedia]
      BY <3>1
    <3>7. lo + 1 \in Nat
      OBVIOUS
    <3> QED
      BY <3>3, <3>5, <3>6, <3>7, <2>1
  <2>8. CASE ~queue[front].iframe
    <3>1. ts_queue_' = ts
      BY <1>4, <2>8 DEF TrimVideo
    <3>2. FramesKept(rest, n, count, pre, seq, lo)
      <4>1. n \in Nat /\ count \in Nat /\ pre \in Nat
            /\ (count = 0 => pre = 0 /\ seq = 0)
            /\ (count > 0 => seq < count /\ pre < n)
        BY DEF FramesKept
      <4>2. \E f \in 0 .. n : DOMAIN rest = f .. (n - 1)
        BY <2>2
      <4>3. rest \in [DOMAIN rest -> Payload]
        BY DEF FramesKept
      <4>4. \A id \in DOMAIN rest :
              /\ rest[id].gop <= count
              /\ rest[id].iframe => rest[id].gop > lo
              /\ rest[id].iframe /\ rest[id].gop = count => id = pre
              /\ count > 0 /\ id >= pre => rest[id].gop = count
        BY DEF FramesKept
      <4>5. \A i, j \in DOMAIN rest : i < j =>
              /\ rest[i].gop <= rest[j].gop
              /\ rest[j].iframe => rest[i].gop < rest[j].gop
        BY DEF FramesKept
      <4>6. ASSUME NEW g \in (lo + 1) .. count
            PROVE  \E id \in DOMAIN rest : rest[id].iframe /\ rest[id].gop = g
        <5>1. PICK id \in DOMAIN queue : queue[id].iframe /\ queue[id].gop = g
          BY DEF FramesKept
        <5>2. id # front
          BY <5>1, <2>8
        <5> QED
          BY <5>1, <5>2
      <4> HIDE DEF rest
      <4> QED
        BY <4>1, <4>2, <4>3, <4>4, <4>5, <4>6 DEF FramesKept
    <3> QED
      BY <3>1, <3>2, <2>1
  <2> QED
    BY <2>7, <2>8
<1> QED
  BY <1>3, <1>4

-----------------------------------------------------------------------------
(* The two frame handlers.                                                 *)

\* PacketTs opens at most the segment after the newest one.
LEMMA PacketTsKeepsShape ==
  ASSUME NEW lo \in Nat, NEW seq \in {ts_seq_, ts_seq_ + 1}, NEW kind \in Kinds,
         TypeOK, SegmentsKept(ts_queue_, ts_seq_, lo)
  PROVE  /\ SegmentsKept(PacketTs(seq, kind), seq, lo)
         /\ PacketTs(seq, kind) \in [DOMAIN PacketTs(seq, kind) -> TsMedia]
<1>1. DOMAIN PacketTs(seq, kind) = lo .. seq
  BY DEF PacketTs, SegmentsKept
<1>2. PacketTs(seq, kind) \in [DOMAIN PacketTs(seq, kind) -> TsMedia]
  BY DEF PacketTs, TypeOK, TsMedia
<1>3. ts_seq_ \in Nat /\ lo \in 0 .. ts_seq_ /\ (lo > 0 => ts_seq_ - lo + 1 >= MinTs)
  BY DEF SegmentsKept
<1>4. seq \in Nat /\ lo \in 0 .. seq
  BY <1>3
<1>5. lo > 0 => seq - lo + 1 >= MinTs
  BY <1>3, MinTsAssumption
<1> HIDE DEF PacketTs
<1> QED
  BY <1>1, <1>2, <1>4, <1>5 DEF SegmentsKept

LEMMA OnAudioKeepsIInv ==
  ASSUME IInv, OnAudio
  PROVE  IInv'
<1> USE DEF OnAudio
<1>1. TypeOK /\ Retained /\ PlaylistRecent /\ ts_seq_ \in Nat
  BY DEF IInv, TypeOK
<1> DEFINE ts    == PacketTs(ts_seq_, "audio")
           queue == audio_queue_ \cup {audio_frame_id_}
<1>2. /\ ts \in [DOMAIN ts -> TsMedia]
      /\ \E lo \in Nat : /\ SegmentsKept(ts, ts_seq_, lo)
                         /\ FramesKept(video_queue_, video_frame_id_,
                                       video_key_frame_recv_count_,
                                       pre_video_key_frame_id_, ts_seq_, lo)
  <2>1. CASE DOMAIN ts_queue_ = {} /\ ts_seq_ = 0 /\ DOMAIN video_queue_ = {}
             /\ video_frame_id_ = 0 /\ video_key_frame_recv_count_ = 0
             /\ pre_video_key_frame_id_ = 0
    <3>1. DOMAIN ts = 0 .. ts_seq_
      BY <2>1 DEF PacketTs
    <3>2. ts \in [DOMAIN ts -> TsMedia]
      BY <2>1 DEF PacketTs, TsMedia, Kinds
    <3>3. SegmentsKept(ts, ts_seq_, 0)
      BY <3>1, <2>1 DEF SegmentsKept
    <3>4. FramesKept(video_queue_, video_frame_id_, video_key_frame_recv_count_,
                     pre_video_key_frame_id_, ts_seq_, 0)
      BY <2>1, <1>1 DEF FramesKept, TypeOK
    <3> QED
      BY <3>2, <3>3, <3>4
  <2>2. CASE \E lo \in Nat :
               /\ SegmentsKept(ts_queue_, ts_seq_, lo)
               /\ FramesKept(video_queue_, video_frame_id_,
                             video_key_frame_recv_count_,
                             pre_video_key_frame_id_, ts_seq_, lo)
    BY <1>1, <2>2, PacketTsKeepsShape DEF Kinds
  <2> QED
    BY <1>1, <2>1, <2>2 DEF Retained
<1>3. Retained'
  BY <1>2 DEF Retained
<1>4. audio_queue_' \subseteq Nat
  BY <1>1 DEF TypeOK, TrimAudio
<1>5. DOMAIN ts \subseteq Nat
  BY <1>1 DEF TypeOK, PacketTs
<1>6. TypeOK'
  <2>1. DOMAIN ts_queue_' \subseteq Nat
        /\ ts_queue_' \in [DOMAIN ts_queue_' -> TsMedia]
    BY <1>2, <1>5
  <2>2. audio_frame_id_' \in Nat
    BY <1>1 DEF TypeOK
  <2> HIDE DEF ts, queue
  <2> QED
    BY <1>1, <1>4, <2>1, <2>2 DEF TypeOK
<1>7. PlaylistRecent'
  BY <1>1 DEF PlaylistRecent
<1>8. PlayerBehind'
  BY DEF IInv, PlayerBehind
<1> QED
  BY <1>3, <1>6, <1>7, <1>8 DEF IInv

\* What OnVideo has queued and packed just before it trims.
LEMMA OnVideoBeforeTrim ==
  ASSUME TypeOK, Retained, NEW iframe \in BOOLEAN, NEW kind \in Kinds
  PROVE  \E lo \in Nat :
           /\ SegmentsKept(PacketTs(NextSeq(iframe), kind), NextSeq(iframe), lo)
           /\ FramesKept(Enqueue([iframe |-> iframe, gop |-> KeyCount(iframe)]),
                         video_frame_id_ + 1, KeyCount(iframe), LastKey(iframe),
                         NextSeq(iframe), lo)
           /\ PacketTs(NextSeq(iframe), kind)
                \in [DOMAIN PacketTs(NextSeq(iframe), kind) -> TsMedia]
<1> DEFINE seq   == NextSeq(iframe)
           count == KeyCount(iframe)
           pre   == LastKey(iframe)
           queue == Enqueue([iframe |-> iframe, gop |-> count])
           n     == video_frame_id_
           K     == video_key_frame_recv_count_
<1>a. n \in Nat /\ K \in Nat /\ ts_seq_ \in Nat /\ pre_video_key_frame_id_ \in Nat
      /\ iframe \in BOOLEAN
  BY DEF TypeOK
<1>b. seq \in {ts_seq_, ts_seq_ + 1} /\ count \in Nat /\ pre \in Nat
      /\ (iframe => count = K + 1 /\ pre = n)
      /\ (~iframe => count = K /\ pre = pre_video_key_frame_id_ /\ seq = ts_seq_)
      /\ (pre_video_key_frame_id_ = 0 => seq = ts_seq_)
  BY <1>a DEF NextSeq, KeyCount, LastKey, CutSegment
<1>c. /\ DOMAIN queue = DOMAIN video_queue_ \cup {n}
      /\ queue[n] = [iframe |-> iframe, gop |-> count]
      /\ \A id \in DOMAIN video_queue_ : id # n => queue[id] = video_queue_[id]
      /\ queue \in [DOMAIN queue -> Payload]
  BY <1>a, <1>b DEF Enqueue, TypeOK, Payload
<1> HIDE DEF seq, count, pre, queue
<1>1. CASE DOMAIN ts_queue_ = {} /\ ts_seq_ = 0 /\ DOMAIN video_queue_ = {}
           /\ n = 0 /\ K = 0 /\ pre_video_key_frame_id_ = 0
  <2>1. seq = 0 /\ pre = 0 /\ (iframe => count = 1) /\ (~iframe => count = 0)
    BY <1>1, <1>b
  <2>2. DOMAIN PacketTs(seq, kind) = 0 .. 0
    BY <1>1, <2>1 DEF PacketTs
  <2>3. PacketTs(seq, kind) \in [DOMAIN PacketTs(seq, kind) -> TsMedia]
    BY <1>1, <2>1 DEF PacketTs, TsMedia
  <2>4. SegmentsKept(PacketTs(seq, kind), seq, 0)
    BY <2>1, <2>2 DEF SegmentsKept
  <2>5. DOMAIN queue = 0 .. ((n + 1) - 1) /\ DOMAIN queue = {0}
    BY <1>1, <1>c
  <2>6. queue[0].iframe = iframe /\ queue[0].gop = count
    BY <1>1, <1>c
  <2>7. \A g \in (0 + 1) .. count :
          \E id \in DOMAIN queue : queue[id].iframe /\ queue[id].gop = g
    BY <1>a, <2>1, <2>5, <2>6
  <2>8. FramesKept(queue, n + 1, count, pre, seq, 0)
    BY <1>1, <1>a, <1>b, <1>c, <2>1, <2>5, <2>6, <2>7 DEF FramesKept
  <2> QED
    BY <2>3, <2>4, <2>8 DEF seq, count, pre, queue
<1>2. CASE \E lo \in Nat :
             /\ SegmentsKept(ts_queue_, ts_seq_, lo)
             /\ FramesKept(video_queue_, n, K, pre_video_key_frame_id_, ts_seq_, lo)
  <2>1. PICK lo \in Nat :
             /\ SegmentsKept(ts_queue_, ts_seq_, lo)
             /\ FramesKept(video_queue_, n, K, pre_video_key_frame_id_, ts_seq_, lo)
    BY <1>2
  <2>2. lo <= ts_seq_ /\ seq \in Nat
    BY <2>1, <1>a, <1>b DEF SegmentsKept
  <2>3. SegmentsKept(PacketTs(seq, kind), seq, lo)
        /\ PacketTs(seq, kind) \in [DOMAIN PacketTs(seq, kind) -> TsMedia]
    BY <2>1, <1>b, PacketTsKeepsShape
  <2>4. PICK first \in 0 .. n : DOMAIN video_queue_ = first .. (n - 1)
    BY <2>1 DEF FramesKept
  <2>5. DOMAIN queue = first .. ((n + 1) - 1) /\ n \in DOMAIN queue
    BY <1>a, <1>c, <2>4
  <2>6. \A id \in DOMAIN queue :
          id # n => id \in DOMAIN video_queue_ /\ id < n /\ queue[id] = video_queue_[id]
    BY <1>a, <1>c, <2>4
  <2>7. (K = 0 => pre_video_key_frame_id_ = 0 /\ ts_seq_ = 0)
        /\ (K > 0 => ts_seq_ < K /\ pre_video_key_frame_id_ < n)
    BY <2>1 DEF FramesKept
  <2>8. (count = 0 => pre = 0 /\ seq = 0) /\ (count > 0 => seq < count /\ pre < n + 1)
    <3>1. CASE ~iframe
      BY <3>1, <1>a, <1>b, <2>7
    <3>2. CASE iframe
      <4>1. CASE K = 0
        BY <3>2, <4>1, <1>a, <1>b, <2>7
      <4>2. CASE K > 0
        BY <3>2, <4>2, <1>a, <1>b, <2>7
      <4> QED
        BY <4>1, <4>2, <1>a
    <3> QED
      BY <3>1, <3>2
  <2>9. ASSUME NEW id \in DOMAIN queue
        PROVE  /\ queue[id].gop <= count
               /\ queue[id].iframe => queue[id].gop > lo
               /\ queue[id].iframe /\ queue[id].gop = count => id = pre
               /\ count > 0 /\ id >= pre => queue[id].gop = count
    <3>1. CASE id = n
      BY <3>1, <1>a, <1>b, <1>c, <2>2, <2>7
    <3>2. CASE id # n
      <4>1. id \in DOMAIN video_queue_ /\ id \in Nat /\ id < n
            /\ queue[id] = video_queue_[id] /\ video_queue_[id].gop \in Nat
        BY <3>2, <2>4, <2>6, <1>a DEF TypeOK, Payload
      <4>2. /\ video_queue_[id].gop <= K
            /\ video_queue_[id].iframe => video_queue_[id].gop > lo
            /\ video_queue_[id].iframe /\ video_queue_[id].gop = K
                 => id = pre_video_key_frame_id_
            /\ K > 0 /\ id >= pre_video_key_frame_id_ => video_queue_[id].gop = K
        BY <2>1, <4>1 DEF FramesKept
      <4>3. CASE iframe
        BY <4>1, <4>2, <4>3, <1>a, <1>b
      <4>4. CASE ~iframe
        BY <4>1, <4>2, <4>4, <1>a, <1>b
      <4> QED
        BY <4>3, <4>4
    <3> QED
      BY <3>1, <3>2
  <2>10. ASSUME NEW i \in DOMAIN queue, NEW j \in DOMAIN queue, i < j
         PROVE  /\ queue[i].gop <= queue[j].gop
                /\ queue[j].iframe => queue[i].gop < queue[j].gop
    <3>1. i # n /\ i \in Int /\ j \in Int
      BY <2>5, <2>10, <1>a
    <3>2. i \in DOMAIN video_queue_ /\ queue[i] = video_queue_[i]
          /\ video_queue_[i].gop \in Nat /\ video_queue_[i].gop <= K
      BY <2>1, <2>6, <3>1 DEF FramesKept, TypeOK, Payload
    <3>3. CASE j = n
      <4>1. queue[j].gop = count /\ queue[j].iframe = iframe
        BY <3>3, <1>c
      <4> QED
        BY <4>1, <3>2, <1>a, <1>b
    <3>4. CASE j # n
      BY <3>2, <3>4, <2>1, <2>6, <2>10 DEF FramesKept
    <3> QED
      BY <3>3, <3>4
  <2>11. ASSUME NEW g \in (lo + 1) .. count
         PROVE  \E id \in DOMAIN queue : queue[id].iframe /\ queue[id].gop = g
    <3>1. CASE g <= K
      <4>1. PICK id \in DOMAIN video_queue_ :
              video_queue_[id].iframe /\ video_queue_[id].gop = g
        BY <2>1, <1>a, <3>1 DEF FramesKept
      <4>2. id # n /\ id \in DOMAIN queue
        BY <2>4, <1>a, <1>c
      <4> QED
        BY <4>1, <4>2, <1>c
    <3>2. CASE g > K
      <4>1. iframe /\ count = K + 1 /\ g = count
        BY <3>2, <1>a, <1>b
      <4>2. queue[n].iframe /\ queue[n].gop = g
        BY <4>1, <1>c
      <4> QED
        BY <4>2, <2>5
    <3> QED
      BY <3>1, <3>2, <1>a, <1>b
  <2>12. n + 1 \in Nat /\ (\E f \in 0 .. (n + 1) : DOMAIN queue = f .. ((n + 1) - 1))
    BY <1>a, <2>5
  <2>13. FramesKept(queue, n + 1, count, pre, seq, lo)
    BY <1>b, <1>c, <2>2, <2>8, <2>9, <2>10, <2>11, <2>12 DEF FramesKept
  <2> QED
    BY <2>3, <2>13 DEF seq, count, pre, queue
<1> QED
  BY <1>1, <1>2 DEF Retained

LEMMA OnVideoKeepsIInv ==
  ASSUME IInv, NEW iframe \in BOOLEAN, OnVideo(iframe)
  PROVE  IInv'
<1>1. TypeOK /\ Retained /\ PlaylistRecent
  BY DEF IInv
<1> DEFINE seq   == NextSeq(iframe)
           count == KeyCount(iframe)
           pre   == LastKey(iframe)
           queue == Enqueue([iframe |-> iframe, gop |-> count])
           ts    == PacketTs(seq, IF iframe THEN "key" ELSE "inter")
<1>2. /\ ts_seq_' = seq /\ video_key_frame_recv_count_' = count
      /\ pre_video_key_frame_id_' = pre
      /\ video_frame_id_' = video_frame_id_ + 1
      /\ TrimVideo(queue, ts)
      /\ m3u8_' = IF CutSegment(iframe) THEN UpdateM3U8 ELSE m3u8_
      /\ pre_audio_key_frame_id_' =
           IF iframe THEN audio_frame_id_ ELSE pre_audio_key_frame_id_
      /\ UNCHANGED <<audio_queue_, audio_frame_id_, player>>
  BY DEF OnVideo
<1>3. PICK lo \in Nat :
           /\ SegmentsKept(ts, seq, lo)
           /\ FramesKept(queue, video_frame_id_ + 1, count, pre, seq, lo)
           /\ ts \in [DOMAIN ts -> TsMedia]
  BY <1>1, OnVideoBeforeTrim DEF Kinds
<1>4. DOMAIN queue # {}
  BY DEF Enqueue
<1>5. /\ \E low \in Nat :
           /\ SegmentsKept(ts_queue_', seq, low)
           /\ FramesKept(video_queue_', video_frame_id_ + 1, count, pre, seq, low)
      /\ ts_queue_' \in [DOMAIN ts_queue_' -> TsMedia]
  <2> HIDE DEF ts, queue, seq, count, pre
  <2> QED
    BY <1>2, <1>3, <1>4, TrimKeepsShapes
<1>6. Retained'
  <2> HIDE DEF seq, count, pre
  <2> QED
    BY <1>2, <1>5 DEF Retained
<1>7. m3u8_' \in Playlist /\ PlaylistRecent'
  <2>1. CASE CutSegment(iframe) /\ Cardinality(DOMAIN ts_queue_) >= 3
    <3>1. PICK low \in Nat : SegmentsKept(ts_queue_, ts_seq_, low)
      <4>1. DOMAIN ts_queue_ # {}
        BY <2>1, FS_EmptySet
      <4> QED
        BY <1>1, <4>1 DEF Retained
    <3>2. ts_seq_ \in Nat /\ low <= ts_seq_ /\ DOMAIN ts_queue_ = low .. ts_seq_
      BY <3>1 DEF SegmentsKept
    <3>3. Cardinality(DOMAIN ts_queue_) = ts_seq_ - low + 1
      BY <3>2, FS_Interval
    <3>4. ts_seq_ >= 2 /\ Last(DOMAIN ts_queue_) = ts_seq_
      BY <2>1, <3>2, <3>3, LastOfInterval
    <3>5. m3u8_' = [media_sequence |-> ts_seq_,
                    segments |-> (ts_seq_ - 2) .. ts_seq_]
      <4>1. UpdateM3U8 = [media_sequence |-> ts_seq_,
                          segments |-> (ts_seq_ - 2) .. ts_seq_]
        <5>1. ~(Cardinality(DOMAIN ts_queue_) < 3)
          BY <2>1, <3>2, <3>3
        <5>2. Listed = (ts_seq_ - 2) .. ts_seq_
          BY <3>4 DEF Listed
        <5> QED
          BY <5>1, <5>2, <3>4 DEF UpdateM3U8
      <4> QED
        BY <1>2, <2>1, <4>1
    <3>6. ts_seq_' = ts_seq_ + 1
      BY <1>2, <2>1 DEF NextSeq
    <3>7. (ts_seq_ - 2) .. ts_seq_ = (ts_seq_' - 3) .. (ts_seq_' - 1)
      BY <3>2, <3>6
    <3>8. (ts_seq_ - 2) .. ts_seq_ \subseteq Nat
      BY <3>2, <3>4
    <3> QED
      BY <3>2, <3>4, <3>5, <3>6, <3>7, <3>8 DEF PlaylistRecent, Playlist
  <2>2. CASE CutSegment(iframe) /\ ~(Cardinality(DOMAIN ts_queue_) >= 3)
    <3>1. \/ DOMAIN ts_queue_ = {} /\ ts_seq_ = 0
          \/ \E low \in Nat : SegmentsKept(ts_queue_, ts_seq_, low)
      BY <1>1 DEF Retained
    <3>2. m3u8_' = m3u8_
      <4>1. Cardinality(DOMAIN ts_queue_) \in Int
        <5>1. CASE DOMAIN ts_queue_ = {}
          BY <5>1, FS_EmptySet
        <5>2. CASE \E low \in Nat : SegmentsKept(ts_queue_, ts_seq_, low)
          BY <5>2, FS_Interval DEF SegmentsKept
        <5> QED
          BY <3>1, <5>1, <5>2
      <4> QED
        BY <1>2, <2>2, <4>1 DEF UpdateM3U8
    <3>3. ts_seq_ < 3
      <4>1. CASE \E low \in Nat : SegmentsKept(ts_queue_, ts_seq_, low)
        <5>1. PICK low \in Nat : SegmentsKept(ts_queue_, ts_seq_, low)
          BY <4>1
        <5>2. ts_seq_ \in Nat /\ low \in 0 .. ts_seq_
              /\ DOMAIN ts_queue_ = low .. ts_seq_
              /\ (low > 0 => ts_seq_ - low + 1 >= MinTs)
          BY <5>1 DEF SegmentsKept
        <5>3. Cardinality(DOMAIN ts_queue_) = ts_seq_ - low + 1
          BY <5>2, FS_Interval
        <5> QED
          BY <2>2, <5>2, <5>3, MinTsAssumption
      <4> QED
        BY <3>1, <4>1
    <3>4. m3u8_.segments = {}
      BY <1>1, <3>3 DEF PlaylistRecent, TypeOK
    <3> QED
      BY <1>1, <3>2, <3>4 DEF PlaylistRecent, TypeOK
  <2>3. CASE ~CutSegment(iframe)
    BY <1>1, <1>2, <2>3 DEF PlaylistRecent, TypeOK, NextSeq
  <2> QED
    BY <2>1, <2>2, <2>3
<1>8. TypeOK'
  <2>1. seq \in Nat /\ count \in Nat /\ pre \in Nat
        /\ audio_frame_id_ \in Nat /\ pre_audio_key_frame_id_ \in Nat
        /\ video_frame_id_ + 1 \in Nat /\ audio_queue_ \subseteq Nat
        /\ player \subseteq Nat
    BY <1>1 DEF TypeOK, NextSeq, KeyCount, LastKey
  <2> HIDE DEF seq, count, pre, queue, ts
  <2>2. PICK low \in Nat :
           /\ SegmentsKept(ts_queue_', seq, low)
           /\ FramesKept(video_queue_', video_frame_id_ + 1, count, pre, seq, low)
    BY <1>5
  <2>3. DOMAIN ts_queue_' \subseteq Nat
    BY <2>2 DEF SegmentsKept
  <2>4. DOMAIN video_queue_' \subseteq Nat
        /\ video_queue_' \in [DOMAIN video_queue_' -> Payload]
    BY <2>2 DEF FramesKept
  <2> QED
    BY <1>2, <1>5, <1>7, <2>1, <2>3, <2>4 DEF TypeOK
<1>9. PlayerBehind'
  <2>1. player' = player /\ ts_seq_ \in Nat /\ ts_seq_' \in {ts_seq_, ts_seq_ + 1}
        /\ player \subseteq Nat
    BY <1>1, <1>2 DEF TypeOK, NextSeq
  <2> QED
    BY <2>1 DEF IInv, PlayerBehind
<1> QED
  BY <1>6, <1>7, <1>8, <1>9 DEF IInv

-----------------------------------------------------------------------------
(* The theorems.                                                           *)

\* IInv is inductive: no sequence of frames and requests leaves it.
THEOREM MuxerInvariant == Spec => []IInv
<1>1. Init => IInv
  <2> SUFFICES ASSUME Init PROVE IInv
    OBVIOUS
  <2>1. TypeOK
    BY DEF Init, TypeOK, Payload, TsMedia, Kinds, Playlist, EmptyPlaylist
  <2>2. Retained
    BY DEF Init, Retained
  <2>3. PlaylistRecent
    BY DEF Init, PlaylistRecent, EmptyPlaylist
  <2>4. PlayerBehind
    BY DEF Init, PlayerBehind
  <2> QED
    BY <2>1, <2>2, <2>3, <2>4 DEF IInv
<1>2. IInv /\ [Next]_vars => IInv'
  <2> SUFFICES ASSUME IInv, [Next]_vars PROVE IInv'
    OBVIOUS
  <2>1. CASE OnAudio
    BY <2>1, OnAudioKeepsIInv
  <2>2. ASSUME NEW iframe \in BOOLEAN, OnVideo(iframe)
        PROVE  IInv'
    BY <2>2, OnVideoKeepsIInv
  <2>3. CASE HlsGetM3U8
    <3>1. TypeOK' /\ Retained' /\ PlaylistRecent'
      BY <2>3 DEF HlsGetM3U8, IInv, TypeOK, Retained, PlaylistRecent, Playlist,
                  queues, frames, hls
    <3>2. PlayerBehind'
      BY <2>3 DEF HlsGetM3U8, IInv, TypeOK, PlayerBehind, PlaylistRecent,
                  queues, frames, hls
    <3> QED
      BY <3>1, <3>2 DEF IInv
  <2>4. ASSUME NEW s \in player, HlsGetTs(s)
        PROVE  IInv'
    BY <2>4 DEF HlsGetTs, IInv, TypeOK, Retained, PlaylistRecent, PlayerBehind,
                queues, frames, hls
  <2>5. CASE UNCHANGED vars
    BY <2>5 DEF vars, queues, frames, hls, IInv, TypeOK, Retained, PlaylistRecent,
                PlayerBehind
  <2> QED
    BY <2>1, <2>2, <2>3, <2>4, <2>5 DEF Next
<1> QED
  BY <1>1, <1>2, PTL DEF Spec

\* Every variable stays in its type, whatever is received and requested.
THEOREM MuxerTypeCorrect == Spec => []TypeOK
<1>1. IInv => TypeOK
  BY DEF IInv
<1> QED
  BY <1>1, MuxerInvariant, PTL

\* What a late joiner is sent first starts at the last key frame and has no
\* gap, for every cache size and every segment threshold from four up.
THEOREM LateJoinerCanDecode == Spec => []FastOutDecodable
<1>1. IInv => FastOutDecodable
  <2> SUFFICES ASSUME IInv, video_key_frame_recv_count_ > 0
               PROVE  /\ FastOutVideo = pre_video_key_frame_id_ .. (video_frame_id_ - 1)
                      /\ pre_video_key_frame_id_ < video_frame_id_
                      /\ video_queue_[pre_video_key_frame_id_].iframe
                      /\ \A id \in FastOutVideo :
                           video_queue_[id].gop = video_key_frame_recv_count_
    BY DEF FastOutDecodable
  <2> DEFINE n == video_frame_id_
             K == video_key_frame_recv_count_
             pre == pre_video_key_frame_id_
  <2>1. PICK lo \in Nat : /\ SegmentsKept(ts_queue_, ts_seq_, lo)
                          /\ FramesKept(video_queue_, n, K, pre, ts_seq_, lo)
    BY DEF IInv, Retained
  <2>2. lo <= ts_seq_ /\ ts_seq_ \in Nat /\ ts_seq_ < K /\ pre < n
        /\ n \in Nat /\ K \in Nat /\ pre \in Nat
    BY <2>1 DEF SegmentsKept, FramesKept
  <2>3. K \in (lo + 1) .. K
    BY <2>2
  <2>4. PICK id \in DOMAIN video_queue_ : video_queue_[id].iframe /\ video_queue_[id].gop = K
    BY <2>1, <2>3 DEF FramesKept
  <2>5. id = pre
    BY <2>1, <2>4 DEF FramesKept
  <2>6. PICK first \in 0 .. n : DOMAIN video_queue_ = first .. (n - 1)
    BY <2>1 DEF FramesKept
  <2>7. FastOutVideo = {i \in first .. (n - 1) : i >= pre} /\ first <= pre
    BY <2>2, <2>4, <2>5, <2>6 DEF FastOutVideo
  <2>8. FastOutVideo = pre .. (n - 1)
    BY <2>2, <2>6, <2>7
  <2>9. \A i \in FastOutVideo : video_queue_[i].gop = K
    BY <2>1, <2>2, <2>6, <2>7 DEF FramesKept
  <2> QED
    BY <2>2, <2>4, <2>5, <2>8, <2>9
<1> QED
  BY <1>1, MuxerInvariant, PTL

\* Every segment of the current playlist can be served.
THEOREM PlaylistAlwaysServable == Spec => []PlaylistServable
<1>1. IInv => PlaylistServable
  <2> SUFFICES ASSUME IInv, m3u8_.segments # {}
               PROVE  m3u8_.segments \subseteq DOMAIN ts_queue_ \ {ts_seq_}
    BY DEF PlaylistServable
  <2>1. ts_seq_ >= 3 /\ m3u8_.segments = (ts_seq_ - 3) .. (ts_seq_ - 1)
        /\ ts_seq_ \in Nat
    BY DEF IInv, PlaylistRecent, TypeOK
  <2>2. PICK lo \in Nat : SegmentsKept(ts_queue_, ts_seq_, lo)
    BY <2>1 DEF IInv, Retained
  <2>3. lo <= ts_seq_ - 3 /\ DOMAIN ts_queue_ = lo .. ts_seq_
    BY <2>1, <2>2, MinTsAssumption DEF SegmentsKept
  <2> QED
    BY <2>1, <2>3
<1> QED
  BY <1>1, MuxerInvariant, PTL

\* Segments are numbered without a gap.
THEOREM SegmentsContiguous == Spec => []TsContiguous
<1>1. IInv => TsContiguous
  <2> SUFFICES ASSUME IInv, DOMAIN ts_queue_ # {}
               PROVE  DOMAIN ts_queue_ = First(DOMAIN ts_queue_) .. ts_seq_
    BY DEF TsContiguous
  <2>1. PICK lo \in Nat : SegmentsKept(ts_queue_, ts_seq_, lo)
    BY DEF IInv, Retained
  <2>2. DOMAIN ts_queue_ = lo .. ts_seq_ /\ lo <= ts_seq_ /\ ts_seq_ \in Nat
    BY <2>1 DEF SegmentsKept
  <2> QED
    BY <2>2, FirstOfInterval
<1> QED
  BY <1>1, MuxerInvariant, PTL

\* A client's copy of a playlist, however old, stays servable until MinTs newer
\* segments have been opened.
THEOREM StalePlaylistServed == Spec => []ServedWhileFresh
<1>1. IInv => ServedWhileFresh
  <2> SUFFICES ASSUME IInv, NEW s \in player, ts_seq_ - s < MinTs
               PROVE  s \in DOMAIN ts_queue_
    BY DEF ServedWhileFresh
  <2>1. s \in Nat /\ s < ts_seq_ /\ ts_seq_ \in Nat
    BY DEF IInv, TypeOK, PlayerBehind
  <2>2. PICK lo \in Nat : SegmentsKept(ts_queue_, ts_seq_, lo)
    BY <2>1 DEF IInv, Retained
  <2>3. lo = 0 \/ ts_seq_ - lo + 1 >= MinTs
    BY <2>2 DEF SegmentsKept
  <2>4. lo <= s
    BY <2>1, <2>3, MinTsAssumption
  <2> QED
    BY <2>1, <2>2, <2>4 DEF SegmentsKept
<1> QED
  BY <1>1, MuxerInvariant, PTL

\* A segment once advertised, or about to be fetched, can only disappear.
THEOREM AdvertisedNeverRewritten == Spec => AdvertisedSegmentsFrozen
<1> DEFINE Frozen == \A s \in (m3u8_.segments \cup player) \cap DOMAIN ts_queue_ :
                       s \in DOMAIN ts_queue_' => ts_queue_'[s] = ts_queue_[s]
<1>1. IInv /\ [Next]_vars => [Frozen]_vars
  <2> SUFFICES ASSUME IInv, Next,
                      NEW s \in (m3u8_.segments \cup player) \cap DOMAIN ts_queue_,
                      s \in DOMAIN ts_queue_'
               PROVE  ts_queue_'[s] = ts_queue_[s]
    OBVIOUS
  <2>1. s < ts_seq_ /\ ts_seq_ \in Nat /\ s \in Nat
    BY DEF IInv, TypeOK, PlaylistRecent, PlayerBehind
  <2>2. \A seq, kind : seq >= ts_seq_ /\ seq \in Nat
                         => PacketTs(seq, kind)[s] = ts_queue_[s]
    BY <2>1 DEF PacketTs
  <2>3. CASE OnAudio
    BY <2>1, <2>2, <2>3 DEF OnAudio
  <2>4. ASSUME NEW iframe \in BOOLEAN, OnVideo(iframe)
        PROVE  ts_queue_'[s] = ts_queue_[s]
    <3> DEFINE ts    == PacketTs(NextSeq(iframe), IF iframe THEN "key" ELSE "inter")
               queue == Enqueue([iframe |-> iframe, gop |-> KeyCount(iframe)])
    <3>1. NextSeq(iframe) \in Nat /\ NextSeq(iframe) >= ts_seq_
      BY <2>1 DEF NextSeq
    <3>2. ts[s] = ts_queue_[s]
      BY <2>2, <3>1
    <3>3. TrimVideo(queue, ts)
      BY <2>4 DEF OnVideo
    <3> HIDE DEF ts, queue
    <3>4. ts_queue_' = ts \/ ts_queue_' = Restrict(ts, DOMAIN ts \ {First(DOMAIN ts)})
      BY <3>3 DEF TrimVideo
    <3> QED
      BY <3>2, <3>4 DEF Restrict
  <2>5. CASE HlsGetM3U8 \/ \E t \in player : HlsGetTs(t)
    BY <2>5 DEF HlsGetM3U8, HlsGetTs, hls
  <2> QED
    BY <2>3, <2>4, <2>5 DEF Next
<1> QED
  BY <1>1, MuxerInvariant, PTL DEF Spec, AdvertisedSegmentsFrozen

-----------------------------------------------------------------------------
(* What opens a segment.                                                   *)

\* The segment being filled exists, unless it is number 0.
LEMMA OpenSegment ==
  ASSUME IInv, ts_seq_ # 0
  PROVE  ts_seq_ \in DOMAIN ts_queue_
<1>1. PICK lo \in Nat : SegmentsKept(ts_queue_, ts_seq_, lo)
  BY DEF IInv, Retained
<1> QED
  BY <1>1 DEF SegmentsKept

LEMMA PacketTsOpens ==
  ASSUME IInv, SegmentsStartWithKeyFrame, NEW seq \in Nat, NEW kind,
         seq = ts_seq_ \/ kind = "key",
         NEW s \in DOMAIN PacketTs(seq, kind), s > 0
  PROVE  PacketTs(seq, kind)[s].opens = "key"
<1>1. s \in Nat /\ s \in DOMAIN ts_queue_ \cup {seq}
  BY DEF PacketTs, IInv, TypeOK
<1>2. CASE s \in DOMAIN ts_queue_
  <2>1. ts_queue_[s].opens = "key"
    BY <1>1, <1>2 DEF SegmentsStartWithKeyFrame
  <2>2. ts_queue_[s] \in TsMedia
    BY <1>2 DEF IInv, TypeOK
  <2>3. PacketTs(seq, kind)[s] \in {ts_queue_[s], [ts_queue_[s] EXCEPT !.frames = @ + 1]}
    BY <1>1, <1>2 DEF PacketTs
  <2> QED
    BY <2>1, <2>2, <2>3 DEF TsMedia
<1>3. CASE s \notin DOMAIN ts_queue_
  <2>1. s = seq /\ PacketTs(seq, kind)[s] = [opens |-> kind, frames |-> 1]
    BY <1>1, <1>3 DEF PacketTs
  <2>2. kind = "key"
    BY <1>3, <2>1, OpenSegment
  <2> QED
    BY <2>1, <2>2
<1> QED
  BY <1>2, <1>3

\* Every segment but the first opens with a key frame: a cut makes room for the
\* very frame that asked for it, and what is not a key frame is appended.
THEOREM SegmentsDecodableAlone == Spec => []SegmentsStartWithKeyFrame
<1>1. Init => SegmentsStartWithKeyFrame
  BY DEF Init, SegmentsStartWithKeyFrame
<1>2. IInv /\ SegmentsStartWithKeyFrame /\ [Next]_vars => SegmentsStartWithKeyFrame'
  <2> SUFFICES ASSUME IInv, SegmentsStartWithKeyFrame, [Next]_vars,
                      NEW s \in DOMAIN ts_queue_', s > 0
               PROVE  ts_queue_'[s].opens = "key"
    BY DEF SegmentsStartWithKeyFrame
  <2>1. ts_seq_ \in Nat
    BY DEF IInv, TypeOK
  <2>2. CASE OnAudio
    BY <2>1, <2>2, PacketTsOpens DEF OnAudio
  <2>3. ASSUME NEW iframe \in BOOLEAN, OnVideo(iframe)
        PROVE  ts_queue_'[s].opens = "key"
    <3> DEFINE kind  == IF iframe THEN "key" ELSE "inter"
               ts    == PacketTs(NextSeq(iframe), kind)
               queue == Enqueue([iframe |-> iframe, gop |-> KeyCount(iframe)])
    <3>1. NextSeq(iframe) \in Nat /\ (NextSeq(iframe) = ts_seq_ \/ kind = "key")
      BY <2>1 DEF NextSeq, CutSegment
    <3>2. \A r \in DOMAIN ts : r > 0 => ts[r].opens = "key"
      BY <3>1, PacketTsOpens
    <3>3. TrimVideo(queue, ts)
      BY <2>3 DEF OnVideo
    <3> HIDE DEF ts, queue
    <3>4. ts_queue_' = ts \/ ts_queue_' = Restrict(ts, DOMAIN ts \ {First(DOMAIN ts)})
      BY <3>3 DEF TrimVideo
    <3> QED
      BY <3>2, <3>4 DEF Restrict
  <2>4. CASE UNCHANGED ts_queue_
    BY <2>4 DEF SegmentsStartWithKeyFrame
  <2>5. CASE HlsGetM3U8 \/ (\E t \in player : HlsGetTs(t)) \/ UNCHANGED vars
    BY <2>4, <2>5 DEF HlsGetM3U8, HlsGetTs, hls, vars
  <2> QED
    BY <2>2, <2>3, <2>5 DEF Next
<1> QED
  BY <1>1, <1>2, MuxerInvariant, PTL DEF Spec

-----------------------------------------------------------------------------
(* Audio.                                                                  *)

\* The newest frames are kept, and no more than needed has been dropped.
AudioKept ==
  /\ pre_audio_key_frame_id_ <= audio_frame_id_
  /\ \E first \in 0 .. audio_frame_id_ :
       /\ audio_queue_ = first .. (audio_frame_id_ - 1)
       /\ first > 0 => audio_frame_id_ - first >= AudioCap - 1

LEMMA OnAudioKeepsAudio ==
  ASSUME TypeOK, AudioKept, OnAudio
  PROVE  AudioKept'
<1> DEFINE n == audio_frame_id_
           queue == audio_queue_ \cup {n}
<1>1. n \in Nat /\ pre_audio_key_frame_id_ \in Nat /\ AudioCap \in Nat
  BY CapAssumption DEF TypeOK
<1>2. PICK first \in 0 .. n :
        /\ audio_queue_ = first .. (n - 1)
        /\ first > 0 => n - first >= AudioCap - 1
  BY DEF AudioKept
<1>3. queue = first .. n
  BY <1>1, <1>2
<1>4. Cardinality(queue) = n - first + 1 /\ First(queue) = first
  <2>1. first \in Int /\ n \in Int /\ first <= n
    BY <1>1, <1>2
  <2>2. Cardinality(first .. n) = n - first + 1
    BY <2>1, FS_Interval
  <2>3. First(first .. n) = first
    BY <2>1, FirstOfInterval
  <2> HIDE DEF queue
  <2> QED
    BY <1>3, <2>2, <2>3
<1>5. audio_frame_id_' = n + 1 /\ pre_audio_key_frame_id_' = pre_audio_key_frame_id_
      /\ audio_queue_' = TrimAudio(queue, PacketTs(ts_seq_, "audio"))
  BY DEF OnAudio
<1>6. ASSUME NEW f \in 0 .. (n + 1),
             audio_queue_' = f .. n, f > 0 => (n + 1) - f >= AudioCap - 1
      PROVE  AudioKept'
  <2>1. pre_audio_key_frame_id_' <= audio_frame_id_'
    BY <1>1, <1>5 DEF AudioKept
  <2>2. f \in 0 .. audio_frame_id_' /\ audio_frame_id_' - 1 = n
        /\ (f > 0 => audio_frame_id_' - f >= AudioCap - 1)
    BY <1>1, <1>5, <1>6
  <2> QED
    BY <1>6, <2>1, <2>2 DEF AudioKept
<1>7. CASE Full(Cardinality(queue), AudioCap, PacketTs(ts_seq_, "audio"))
  <2>1. audio_queue_' = (first + 1) .. n
    BY <1>1, <1>2, <1>3, <1>4, <1>5, <1>7 DEF TrimAudio
  <2>2. (n + 1) - (first + 1) >= AudioCap - 1
    BY <1>1, <1>2, <1>4, <1>7 DEF Full
  <2>3. first + 1 \in 0 .. (n + 1) /\ (n + 1) - 1 = n
    BY <1>1, <1>2
  <2> QED
    BY <1>5, <1>6, <2>1, <2>2, <2>3
<1>8. CASE ~Full(Cardinality(queue), AudioCap, PacketTs(ts_seq_, "audio"))
  <2>1. audio_queue_' = first .. n
    BY <1>3, <1>5, <1>8 DEF TrimAudio
  <2>2. first > 0 => (n + 1) - first >= AudioCap - 1
    BY <1>1, <1>2
  <2>3. first \in 0 .. (n + 1) /\ (n + 1) - 1 = n
    BY <1>1, <1>2
  <2> QED
    BY <1>5, <1>6, <2>1, <2>2, <2>3
<1> QED
  BY <1>7, <1>8

\* A late joiner is sent all audio since the last key frame, as long as that is
\* less than the queue holds.
THEOREM LateJoinerHears == Spec => []FastOutAudioComplete
<1>1. Init => AudioKept
  BY DEF Init, AudioKept
<1>2. IInv /\ AudioKept /\ [Next]_vars => AudioKept'
  <2> SUFFICES ASSUME IInv, AudioKept, [Next]_vars PROVE AudioKept'
    OBVIOUS
  <2>1. CASE OnAudio
    BY <2>1, OnAudioKeepsAudio DEF IInv
  <2>2. ASSUME NEW iframe \in BOOLEAN, OnVideo(iframe)
        PROVE  AudioKept'
    <3>1. audio_frame_id_ \in Nat
      BY DEF IInv, TypeOK
    <3>2. /\ audio_frame_id_' = audio_frame_id_ /\ audio_queue_' = audio_queue_
          /\ pre_audio_key_frame_id_' \in {audio_frame_id_, pre_audio_key_frame_id_}
      BY <2>2 DEF OnVideo
    <3> QED
      BY <3>1, <3>2 DEF AudioKept
  <2>3. CASE UNCHANGED <<queues, frames>>
    BY <2>3 DEF AudioKept, queues, frames
  <2>4. CASE HlsGetM3U8 \/ (\E t \in player : HlsGetTs(t)) \/ UNCHANGED vars
    BY <2>3, <2>4 DEF HlsGetM3U8, HlsGetTs, vars
  <2> QED
    BY <2>1, <2>2, <2>4 DEF Next
<1>3. IInv /\ AudioKept => FastOutAudioComplete
  <2> SUFFICES ASSUME IInv, AudioKept,
                      audio_frame_id_ - pre_audio_key_frame_id_ < AudioCap
               PROVE  FastOutAudio = pre_audio_key_frame_id_ .. (audio_frame_id_ - 1)
    BY DEF FastOutAudioComplete
  <2> DEFINE n == audio_frame_id_
             pre == pre_audio_key_frame_id_
  <2>1. n \in Nat /\ pre \in Nat /\ AudioCap \in Nat /\ pre <= n
    BY CapAssumption DEF IInv, TypeOK, AudioKept
  <2>2. PICK first \in 0 .. n :
          /\ audio_queue_ = first .. (n - 1)
          /\ first > 0 => n - first >= AudioCap - 1
    BY DEF AudioKept
  <2>3. first <= pre
    BY <2>1, <2>2
  <2>4. CASE pre = n
    BY <2>1, <2>2, <2>4 DEF FastOutAudio
  <2>5. CASE pre < n
    <3>1. pre \in audio_queue_
      BY <2>1, <2>2, <2>3, <2>5
    <3> QED
      BY <2>1, <2>2, <2>3, <3>1 DEF FastOutAudio
  <2> QED
    BY <2>1, <2>4, <2>5
<1> QED
  BY <1>1, <1>2, <1>3, MuxerInvariant, PTL DEF Spec

-----------------------------------------------------------------------------
(* The playlist.                                                           *)

\* A playlist that replaces another lists one segment more and one less.
THEOREM PlaylistNeverSkips == Spec => PlaylistAdvancesByOne
<1> DEFINE Advances == m3u8_' # m3u8_ /\ m3u8_.segments # {} =>
                         m3u8_'.segments = {s + 1 : s \in m3u8_.segments}
<1>1. IInv /\ [Next]_vars => [Advances]_vars
  <2> SUFFICES ASSUME IInv, Next, m3u8_' # m3u8_, m3u8_.segments # {}
               PROVE  m3u8_'.segments = {s + 1 : s \in m3u8_.segments}
    OBVIOUS
  <2>1. ts_seq_ \in Nat /\ ts_seq_ >= 3 /\ m3u8_.segments = (ts_seq_ - 3) .. (ts_seq_ - 1)
    BY DEF IInv, TypeOK, PlaylistRecent
  <2>2. PICK lo \in Nat : SegmentsKept(ts_queue_, ts_seq_, lo)
    BY <2>1 DEF IInv, Retained
  <2>3. Last(DOMAIN ts_queue_) = ts_seq_
    BY <2>1, <2>2, LastOfInterval DEF SegmentsKept
  <2>4. PICK iframe \in BOOLEAN : OnVideo(iframe)
    BY DEF Next, OnAudio, HlsGetM3U8, HlsGetTs, hls
  <2>5. m3u8_'.segments = (ts_seq_ - 2) .. ts_seq_
    BY <2>3, <2>4 DEF OnVideo, UpdateM3U8, Listed
  <2>6. (ts_seq_ - 2) .. ts_seq_ = {s + 1 : s \in (ts_seq_ - 3) .. (ts_seq_ - 1)}
    <3>1. ASSUME NEW t \in (ts_seq_ - 2) .. ts_seq_
          PROVE  \E s \in (ts_seq_ - 3) .. (ts_seq_ - 1) : t = s + 1
      <4>1. t - 1 \in (ts_seq_ - 3) .. (ts_seq_ - 1) /\ t = (t - 1) + 1
        BY <2>1
      <4> QED
        BY <4>1
    <3>2. \A s \in (ts_seq_ - 3) .. (ts_seq_ - 1) : s + 1 \in (ts_seq_ - 2) .. ts_seq_
      BY <2>1
    <3> QED
      BY <3>1, <3>2
  <2> QED
    BY <2>1, <2>5, <2>6
<1> QED
  BY <1>1, MuxerInvariant, PTL DEF Spec, PlaylistAdvancesByOne
=============================================================================
