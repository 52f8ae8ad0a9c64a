--------------------------- MODULE MediaFilesProofs ---------------------------
(***************************************************************************)
(* Proofs about MediaFiles for every cache size, duration and clock.       *)
(*                                                                         *)
(* Players.  A segment map that is not empty stays so as long as its muxer *)
(* lives: room is made for a segment that is stored at once.  An MPD is    *)
(* written only when both tracks have been cut.  So the maps of the tracks *)
(* a player was told of are not empty, unless their muxer was replaced.    *)
(*                                                                         *)
(* Files.  The frames that wait of a track are the last it was given, and  *)
(* the last segment ends where they start: so the segments tile the track. *)
(* That the durations of a run add up to its length is a sum over all of   *)
(* its samples; TotalIs gives it from the least place where two sums       *)
(* differ, of which there is none.                                         *)
(*                                                                         *)
(* Times.  Each segment after one that ended was cut at least a fragment's *)
(* duration later, and there are at most as many later times in the map,   *)
(* so one that is erased ended longer ago than the MPD promises.           *)
(*                                                                         *)
(* Tables.  The chunks of a file lie one behind the other in its data, and *)
(* those of a track divide its samples among them: from the key frame that *)
(* begins a file, each frame adds to the last chunk or begins one where    *)
(* the last ends.  A reader who adds up counts and sizes comes out there.  *)
(***************************************************************************)
EXTENDS MediaFiles, SequenceTheorems, FiniteSetTheorems, WellFoundedInduction, TLAPS

-----------------------------------------------------------------------------
(* What a player is told of.                                               *)

Filled(t) == DOMAIN m4s_[t] # {}

\* Of the two maps of a track the one with the lengths is filled no earlier.
CutsFill == \A t \in Tracks : Len(mpd_info_[t]) > 0 => Filled(t)

ToldOf == /\ mpd_ # None => \A t \in Tracks : Filled(t)
          /\ \A s \in player : s[1] \in Tracks /\ Filled(s[1])

\* Of some elements.
IsSequence(s) == \E S : s \in Seq(S)

Infos ==
  /\ DOMAIN m4s_ = Tracks /\ DOMAIN mpd_info_ = Tracks
  /\ \A t \in Tracks : IsSequence(mpd_info_[t])

IInv == Infos /\ (~replaced => CutsFill /\ ToldOf /\ up)

-----------------------------------------------------------------------------
LEMMA AppendIsSequence ==
  ASSUME NEW s, IsSequence(s), NEW e
  PROVE  IsSequence(Append(s, e))
<1>1. PICK S : s \in Seq(S)
  BY DEF IsSequence
<1>2. s \in Seq(S \cup {e})
  BY <1>1
<1>3. Append(s, e) \in Seq(S \cup {e})
  BY <1>2
<1> QED
  BY <1>3 DEF IsSequence

LEMMA LenOfSequence ==
  ASSUME NEW s, IsSequence(s)
  PROVE  Len(s) \in Nat
BY DEF IsSequence

LEMMA EmptyIsSequence ==
  IsSequence(<<>>) /\ Len(<<>>) = 0
<1>1. <<>> \in Seq({})
  OBVIOUS
<1> QED
  BY <1>1 DEF IsSequence

-----------------------------------------------------------------------------
(* The muxer.                                                              *)

LEMMA StoreFills ==
  ASSUME NEW m, NEW time, NEW segment
  PROVE  DOMAIN Store(m, time, segment) # {}
<1>1. time \in DOMAIN Store(m, time, segment)
  BY DEF Store
<1> QED
  BY <1>1

LEMMA FlushFills ==
  ASSUME NEW s, Flush(s), CutsFill
  PROVE  CutsFill' /\ \A t \in Tracks : Filled(t) => Filled(t)'
<1> SUFFICES ASSUME NEW t \in Tracks
             PROVE  /\ Len(mpd_info_[t])' > 0 => Filled(t)'
                    /\ Filled(t) => Filled(t)'
  BY DEF CutsFill
<1>1. CASE Cut(s, t)
  <2>1. m4s_'[t] = Store(m4s_[t], Head(s[t]).dts, Segment(t, s[t]))
    BY <1>1 DEF Flush
  <2>2. DOMAIN m4s_'[t] # {}
    BY <2>1, StoreFills
  <2> QED
    BY <2>2 DEF Filled
<1>2. CASE ~Cut(s, t)
  <2>1. m4s_'[t] = m4s_[t] /\ mpd_info_'[t] = mpd_info_[t]
    BY <1>2 DEF Flush
  <2> QED
    BY <2>1 DEF CutsFill, Filled
<1> QED
  BY <1>1, <1>2

LEMMA MpdAfterCuts ==
  ASSUME UpdateMpd, CutsFill', mpd_ # None => \A t \in Tracks : Filled(t)',
         \A t \in Tracks : Len(mpd_info_'[t]) \in Nat
  PROVE  mpd_' # None => \A t \in Tracks : Filled(t)'
<1>1. CASE \E t \in Tracks : Len(mpd_info_'[t]) < DASH_CACHE
  BY <1>1 DEF UpdateMpd
<1>2. CASE ~(\E t \in Tracks : Len(mpd_info_'[t]) < DASH_CACHE)
  <2>1. \A t \in Tracks : Len(mpd_info_'[t]) > 0
    BY <1>2, DashAssumption
  <2> QED
    BY <2>1 DEF CutsFill
<1> QED
  BY <1>1, <1>2

LEMMA FlushInfos ==
  ASSUME NEW s, Flush(s), Infos
  PROVE  Infos'
<1>1. DOMAIN m4s_' = Tracks /\ DOMAIN mpd_info_' = Tracks
  BY DEF Flush
<1>2. ASSUME NEW t \in Tracks PROVE IsSequence(mpd_info_'[t])
  <2>1. mpd_info_'[t] = Append(mpd_info_[t], Info(s[t])) \/ mpd_info_'[t] = mpd_info_[t]
    BY DEF Flush
  <2>2. IsSequence(mpd_info_[t])
    BY DEF Infos
  <2> QED
    BY <2>1, <2>2, AppendIsSequence
<1> QED
  BY <1>1, <1>2 DEF Infos

LEMMA OnVideoFills ==
  ASSUME NEW f, DashOnVideo(f), Infos, UNCHANGED player
  PROVE  Infos' /\ (CutsFill /\ ToldOf => CutsFill' /\ ToldOf')
<1> DEFINE s == [samples_ EXCEPT !["video"] = Append(@, f)]
<1>1. CASE Flush(s) /\ UpdateMpd
  <2>1. Infos'
    BY <1>1, FlushInfos
  <2>2. ASSUME CutsFill, ToldOf PROVE CutsFill' /\ ToldOf'
    <3>1. CutsFill' /\ \A t \in Tracks : Filled(t) => Filled(t)'
      BY <1>1, <2>2, FlushFills
    <3>2. \A t \in Tracks : Len(mpd_info_'[t]) \in Nat
      BY <2>1, LenOfSequence DEF Infos
    <3>3. mpd_ # None => \A t \in Tracks : Filled(t)'
      BY <2>2, <3>1 DEF ToldOf
    <3>4. mpd_' # None => \A t \in Tracks : Filled(t)'
      BY <1>1, <3>1, <3>2, <3>3, MpdAfterCuts
    <3>5. \A t \in player' : t[1] \in Tracks /\ Filled(t[1])'
      BY <2>2, <3>1 DEF ToldOf
    <3> QED
      BY <3>1, <3>4, <3>5 DEF ToldOf
  <2> QED
    BY <2>1, <2>2
<1>2. CASE UNCHANGED <<m4s_, mpd_info_, mpd_>>
  BY <1>2 DEF Infos, CutsFill, ToldOf, Filled
<1> QED
  BY <1>1, <1>2 DEF DashOnVideo

-----------------------------------------------------------------------------
(* The steps.                                                              *)

LEMMA StillKeepsIInv ==
  ASSUME IInv, UNCHANGED <<m4s_, mpd_info_, mpd_, player, up, replaced>>
  PROVE  IInv'
BY DEF IInv, Infos, CutsFill, ToldOf, Filled

LEMMA LeaveKeepsIInv ==
  ASSUME IInv, Leave
  PROVE  IInv'
<1>1. replaced' /\ m4s_' = [t \in Tracks |-> <<>>] /\ mpd_info_' = [t \in Tracks |-> <<>>]
  BY DEF Leave, DashNew, Each
<1>2. \A t \in Tracks : IsSequence(mpd_info_'[t])
  BY <1>1, EmptyIsSequence
<1> QED
  BY <1>1, <1>2 DEF IInv, Infos

\* The player lists segments of tracks that have some.
LEMMA GetMpdKeepsIInv ==
  ASSUME IInv, GetMpd
  PROVE  IInv'
<1>1. Infos'
  BY DEF IInv, GetMpd, Infos, dashVars
<1>2. ASSUME ~replaced' PROVE CutsFill' /\ ToldOf' /\ up'
  <2>1. ~replaced /\ CutsFill /\ ToldOf /\ up /\ mpd_ # None
    BY <1>2 DEF IInv, GetMpd
  <2>2. UNCHANGED <<m4s_, mpd_info_, mpd_, up>>
    BY DEF GetMpd, dashVars
  <2>3. \A t \in Tracks : Filled(t)'
    BY <2>1, <2>2 DEF ToldOf, Filled
  <2>4. ASSUME NEW s \in player' PROVE s[1] \in Tracks
    <3>1. PICK t \in Tracks : s \in {<<t, mpd_[t][i].start>> : i \in DOMAIN mpd_[t]}
      BY <2>4 DEF GetMpd
    <3> QED
      BY <3>1
  <2> QED
    BY <2>1, <2>2, <2>3, <2>4 DEF CutsFill, ToldOf, Filled
<1> QED
  BY <1>1, <1>2 DEF IInv

\* Of a player that was told of nothing else, no request is undefined.
LEMMA GetM4sKeepsIInv ==
  ASSUME IInv, GetM4s
  PROVE  IInv'
<1>1. replaced
  <2> SUFFICES ASSUME ~replaced PROVE FALSE
    OBVIOUS
  <2>1. PICK s \in player : Undefined(s[1], s[2])
    BY DEF GetM4s
  <2> QED
    BY <2>1 DEF IInv, ToldOf, Filled, Undefined
<1> QED
  BY <1>1 DEF IInv, GetM4s, Infos, dashVars

\* A request is undefined only if the publisher was replaced: the server never
\* dereferences the end of a segment map for a player that asks for what the
\* MPD of the same publisher listed.
THEOREM PlayersOfOnePublisherSafe == Spec => []EndsOnlyWhenReplaced
<1>1. Init => IInv
  <2> SUFFICES ASSUME Init PROVE IInv
    OBVIOUS
  <2>1. /\ m4s_ = [t \in Tracks |-> <<>>] /\ mpd_info_ = [t \in Tracks |-> <<>>]
        /\ mpd_ = None /\ player = {} /\ up
    BY DEF Init, DashInit, Each
  <2>2. Infos
    BY <2>1, EmptyIsSequence DEF Infos
  <2>3. CutsFill /\ ToldOf
    BY <2>1, EmptyIsSequence DEF CutsFill, ToldOf
  <2> QED
    BY <2>1, <2>2, <2>3 DEF IInv
<1>2. IInv /\ [Next]_vars => IInv'
  <2> SUFFICES ASSUME IInv, [Next]_vars PROVE IInv'
    OBVIOUS
  <2>1. ASSUME NEW key, NEW step, OnVideo(key, step) PROVE IInv'
    <3>1. PICK f : DashOnVideo(f)
      BY <2>1 DEF OnVideo
    <3>2. UNCHANGED <<player, up, replaced>>
      BY <2>1 DEF OnVideo
    <3> QED
      BY <3>1, <3>2, OnVideoFills DEF IInv
  <2>2. CASE OnAudio
    <3>1. PICK f : DashOnAudio(f)
      BY <2>2 DEF OnAudio
    <3> QED
      BY <2>2, <3>1, StillKeepsIInv DEF OnAudio, DashOnAudio
  <2>3. ASSUME NEW t \in Tracks, OnHeader(t) PROVE IInv'
    <3>1. PICK h : DashOnHeader(t, h)
      BY <2>3 DEF OnHeader
    <3> QED
      BY <2>3, <3>1, StillKeepsIInv DEF OnHeader, DashOnHeader
  <2>4. CASE SetClockBack
    BY <2>4, StillKeepsIInv DEF SetClockBack, dashVars
  <2>5. CASE Leave
    BY <2>5, LeaveKeepsIInv
  <2>6. CASE Return
    BY <2>6, StillKeepsIInv DEF Return, dashVars
  <2>7. CASE GetMpd
    BY <2>7, GetMpdKeepsIInv
  <2>8. CASE GetM4s
    BY <2>8, GetM4sKeepsIInv
  <2>9. CASE UNCHANGED vars
    BY <2>9, StillKeepsIInv DEF vars, dashVars, environment
  <2> QED
    BY <2>1, <2>2, <2>3, <2>4, <2>5, <2>6, <2>7, <2>8, <2>9 DEF Next
<1>3. IInv => EndsOnlyWhenReplaced
  BY DEF IInv, EndsOnlyWhenReplaced
<1> QED
  BY <1>1, <1>2, <1>3, PTL DEF Spec

-----------------------------------------------------------------------------
(* Sums and ends of sequences.                                             *)

LEMMA LeastOf ==
  ASSUME NEW T, T \subseteq Nat, T # {}
  PROVE  \E m \in T : \A n \in T : m <= n
<1>1. PICK m \in T : \A n \in T : <<n, m>> \notin OpToRel(<, Nat)
  BY NatLessThanWellFounded, WFMin
<1>2. \A n \in T : ~(n < m)
  BY <1>1 DEF OpToRel
<1> QED
  BY <1>2

\* A function that starts at 0 and grows by the elements ends at their total.
LEMMA TotalIs ==
  ASSUME NEW s, Len(s) \in Nat, NEW g, g[0] = 0,
         \A n \in 1..Len(s) : g[n] = g[n - 1] + s[n]
  PROVE  Total(s) = g[Len(s)]
<1> DEFINE sum[n \in 0 .. Len(s)] == IF n = 0 THEN 0 ELSE sum[n - 1] + s[n]
           h == [n \in 0..Len(s) |-> g[n]]
           IsSum(f) == f = [n \in 0..Len(s) |-> IF n = 0 THEN 0 ELSE f[n - 1] + s[n]]
<1>1. IsSum(h)
  <2> SUFFICES ASSUME NEW n \in 0..Len(s)
               PROVE  h[n] = IF n = 0 THEN 0 ELSE h[n - 1] + s[n]
    OBVIOUS
  <2>1. n # 0 => n \in 1..Len(s) /\ n - 1 \in 0..Len(s)
    OBVIOUS
  <2> QED
    BY <2>1
<1>2. IsSum(sum)
  BY <1>1
<1>3. \A n \in 0..Len(s) : sum[n] = (IF n = 0 THEN 0 ELSE sum[n - 1] + s[n])
  BY <1>2
<1>4. Total(s) = sum[Len(s)]
  BY DEF Total
<1> HIDE DEF sum, h
<1>5. ASSUME sum[Len(s)] # g[Len(s)] PROVE FALSE
  <2> DEFINE T == {n \in 0..Len(s) : sum[n] # g[n]}
  <2>1. T \subseteq Nat /\ T # {}
    BY <1>5
  <2>2. PICK m \in T : \A n \in T : m <= n
    BY <2>1, LeastOf
  <2>3. m # 0
    BY <1>3
  <2>4. m - 1 \in 0..Len(s) /\ m \in 1..Len(s) /\ ~(m <= m - 1)
    BY <2>3
  <2>5. sum[m - 1] = g[m - 1]
    BY <2>2, <2>4
  <2> QED
    BY <1>3, <2>3, <2>4, <2>5
<1> QED
  BY <1>4, <1>5

LEMMA LastIs ==
  ASSUME NEW S, NEW s \in Seq(S), Len(s) > 0
  PROVE  /\ LastOf(s) = <<s[Len(s)]>> /\ LastOf(s) \in Seq(S) /\ Len(LastOf(s)) = 1
         /\ LastOf(s)[1] = s[Len(s)] /\ s[Len(s)] \in S /\ Last(s) = s[Len(s)] /\ Head(s) = s[1]
<1>1. s # << >> /\ s[Len(s)] \in S
  OBVIOUS
<1>2. LastOf(s) = <<s[Len(s)]>>
  BY <1>1 DEF LastOf, Last
<1> QED
  BY <1>1, <1>2 DEF Last

LEMMA FrontIs ==
  ASSUME NEW S, NEW s \in Seq(S), Len(s) > 0
  PROVE  /\ Front(s) \in Seq(S) /\ Len(Front(s)) = Len(s) - 1
         /\ \A i \in 1..(Len(s) - 1) : Front(s)[i] = s[i]
<1>1. PICK n : n = Len(s) - 1
  OBVIOUS
<1>2. n \in Nat /\ n <= Len(s) /\ Front(s) = SubSeq(s, 1, n)
  BY <1>1, LenProperties DEF Front
<1>3. SubSeq(s, 1, n) \in Seq(S) /\ Len(SubSeq(s, 1, n)) = n
  BY <1>2
<1>4. \A i \in 1..n : SubSeq(s, 1, n)[i] = s[i]
  BY <1>2
<1> QED
  BY <1>1, <1>2, <1>3, <1>4

-----------------------------------------------------------------------------
(* Frames and segments of a track.                                         *)

\* Frames of track t, made with one of the codec headers in H.
FrameOf(t, H) == [track : {t}, number : Int, dts : Int, key : BOOLEAN, header : H]

\* The last frames of the first n.
Tidy(t, frames, n, H) ==
  /\ frames \in Seq(FrameOf(t, H))
  /\ \A i \in 1..Len(frames) : frames[i].number = n - Len(frames) + i

\* A segment of track t is what the code means it to be.
Sound(t, s, H) ==
  /\ Whole(s) /\ s.track = 1
  /\ s.data \in Seq(FrameOf(t, H)) /\ Len(s.data) > 0

\* The frames that wait go on where segment s ends.
Joins(s, frames) ==
  /\ Len(frames) > 0
  /\ frames[1].dts = Ends(s) /\ frames[1].number = Last(s.data).number + 1

CutFrom(t, F, L) ==
  [number |-> L, track |-> 1, decodeTime |-> DecodeTime(F), run |-> TrackFragmentRun(F),
   referenced |-> SizeOf(Front(F)), data |-> Front(F)]

LEMMA TidyAppend ==
  ASSUME NEW t, NEW frames, NEW n \in Int, NEW H, Tidy(t, frames, n, H),
         NEW f \in FrameOf(t, H), f.number = n + 1
  PROVE  Tidy(t, Append(frames, f), n + 1, H)
<1>1. frames \in Seq(FrameOf(t, H)) /\ Len(frames) \in Nat
  BY LenProperties DEF Tidy
<1>2. /\ Append(frames, f) \in Seq(FrameOf(t, H)) /\ Len(Append(frames, f)) = Len(frames) + 1
      /\ Append(frames, f)[Len(frames) + 1] = f
      /\ \A i \in 1..Len(frames) : Append(frames, f)[i] = frames[i]
  BY <1>1, AppendProperties
<1>3. ASSUME NEW i \in 1..(Len(frames) + 1)
      PROVE  Append(frames, f)[i].number = (n + 1) - (Len(frames) + 1) + i
  <2>1. CASE i = Len(frames) + 1
    BY <1>1, <1>2, <2>1
  <2>2. CASE i \in 1..Len(frames)
    BY <1>1, <1>2, <2>2 DEF Tidy
  <2> QED
    BY <1>1, <2>1, <2>2
<1> QED
  BY <1>2, <1>3 DEF Tidy

LEMMA TidyLast ==
  ASSUME NEW t, NEW frames, NEW n \in Int, NEW H, Tidy(t, frames, n, H)
  PROVE  Tidy(t, LastOf(frames), n, H)
<1>1. frames \in Seq(FrameOf(t, H)) /\ Len(frames) \in Nat
  BY LenProperties DEF Tidy
<1>2. CASE Len(frames) = 0
  BY <1>1, <1>2 DEF Tidy, LastOf
<1>3. CASE Len(frames) > 0
  <2>1. /\ LastOf(frames) \in Seq(FrameOf(t, H)) /\ Len(LastOf(frames)) = 1
        /\ LastOf(frames)[1] = frames[Len(frames)]
    BY <1>1, <1>3, LastIs
  <2>2. frames[Len(frames)].number = n
    BY <1>1, <1>3 DEF Tidy
  <2> QED
    BY <2>1, <2>2 DEF Tidy
<1> QED
  BY <1>1, <1>2, <1>3

\* What is cut from frames that follow one another is sound, and the last of
\* them goes on where it ends: the durations add up.
LEMMA CutIsSound ==
  ASSUME NEW t, NEW H, NEW F, NEW n \in Int, Tidy(t, F, n, H), Len(F) > 1,
         NEW L \in Nat, t = "video" /\ L > 0 => F[1].key,
         NEW s, s = CutFrom(t, F, L)
  PROVE  /\ Sound(t, s, H) /\ Joins(s, LastOf(F))
         /\ s.number = L /\ s.decodeTime = F[1].dts /\ s.data[1].number = F[1].number
<1>1. PICK N : N = Len(F) - 1
  OBVIOUS
<1>2. /\ F \in Seq(FrameOf(t, H)) /\ Len(F) = N + 1 /\ N \in Nat \ {0}
      /\ \A i \in 1..(N + 1) : F[i] \in FrameOf(t, H) /\ F[i].number = n - (N + 1) + i
  BY <1>1, LenProperties DEF Tidy
<1>3. /\ s.number = L /\ s.track = 1 /\ s.decodeTime = F[1].dts
      /\ s.run = TrackFragmentRun(F) /\ s.data = Front(F) /\ s.referenced = SizeOf(Front(F))
  BY <1>2 DEF CutFrom, DecodeTime
<1>4. /\ s.data \in Seq(FrameOf(t, H)) /\ Len(s.data) = N /\ DOMAIN s.data = 1..N
      /\ \A i \in 1..N : s.data[i] = F[i]
  <2>1. /\ Front(F) \in Seq(FrameOf(t, H)) /\ Len(Front(F)) = N
        /\ \A i \in 1..N : Front(F)[i] = F[i]
    BY <1>1, <1>2, FrontIs
  <2>2. DOMAIN Front(F) = 1..N
    BY <2>1, LenProperties
  <2> QED
    BY <1>3, <2>1, <2>2
<1>5. /\ s.run = [i \in 1..N |-> [duration |-> F[i + 1].dts - F[i].dts, size |-> Size(F[i])]]
      /\ Len(s.run) = N
  <2>1. s.run = [i \in 1..N |-> [duration |-> F[i + 1].dts - F[i].dts, size |-> Size(F[i])]]
    BY <1>1, <1>3 DEF TrackFragmentRun
  <2> QED
    BY <1>2, <2>1
<1>6. 1 \in 1..N /\ 1 \in 1..(N + 1) /\ N \in 1..N /\ N + 1 \in 1..(N + 1)
  BY <1>2
<1>7. Whole(s)
  <2>1. ASSUME NEW i \in 1..N
        PROVE s.run[i].size = Size(s.data[i]) /\ s.data[i].number = s.data[1].number + i - 1
    <3>1. s.data[i] = F[i] /\ s.data[1] = F[1]
      BY <1>4, <1>6
    <3>2. F[i].number = n - (N + 1) + i /\ F[1].number = n - (N + 1) + 1
      BY <1>2, <1>6
    <3>3. s.run[i].size = Size(F[i])
      BY <1>5
    <3> QED
      BY <1>2, <3>1, <3>2, <3>3
  <2>2. s.data[1].dts = s.decodeTime
    BY <1>3, <1>4, <1>6
  <2>3. s.number > 0 /\ s.data[1].track = "video" => s.data[1].key
    BY <1>2, <1>3, <1>4, <1>6 DEF FrameOf
  <2> QED
    BY <1>3, <1>4, <1>5, <2>1, <2>2, <2>3 DEF Whole
<1>8. Ends(s) = F[N + 1].dts
  <2> DEFINE d == [i \in DOMAIN s.run |-> s.run[i].duration]
             g == [i \in 0..N |-> F[i + 1].dts - F[1].dts]
  <2>1. d = [i \in 1..N |-> F[i + 1].dts - F[i].dts]
    BY <1>5
  <2>2. Len(d) = N
    BY <1>2, <2>1
  <2>3. \A i \in 1..(N + 1) : F[i].dts \in Int
    BY <1>2 DEF FrameOf
  <2>4. g[0] = 0
    BY <1>2, <1>6, <2>3
  <2>5. ASSUME NEW i \in 1..N PROVE g[i] = g[i - 1] + d[i]
    <3>1. i \in 0..N /\ i - 1 \in 0..N /\ i \in 1..(N + 1) /\ i + 1 \in 1..(N + 1) /\ (i - 1) + 1 = i
      BY <1>2
    <3>2. g[i] = F[i + 1].dts - F[1].dts /\ g[i - 1] = F[i].dts - F[1].dts
      BY <3>1
    <3>3. d[i] = F[i + 1].dts - F[i].dts
      BY <2>1
    <3> QED
      BY <1>6, <2>3, <3>1, <3>2, <3>3
  <2> HIDE DEF d, g
  <2>6. Total(d) = g[N]
    BY <1>2, <2>2, <2>4, <2>5, TotalIs
  <2>7. g[N] = F[N + 1].dts - F[1].dts
    BY <1>2 DEF g
  <2>8. Ends(s) = s.decodeTime + Total(d)
    BY DEF Ends, d
  <2> QED
    BY <1>3, <1>6, <2>3, <2>6, <2>7, <2>8
<1>9. Joins(s, LastOf(F))
  <2>1. Len(LastOf(F)) = 1 /\ LastOf(F)[1] = F[N + 1]
    BY <1>2, LastIs
  <2>2. Last(s.data) = F[N]
    BY <1>4, <1>6 DEF Last
  <2> QED
    BY <1>2, <1>6, <1>8, <2>1, <2>2 DEF Joins
<1> QED
  BY <1>2, <1>3, <1>4, <1>6, <1>7, <1>9 DEF Sound

-----------------------------------------------------------------------------
(* What a muxer keeps of a track.                                          *)

Marker == [start : Int, duration : Int]

Held(segs) == {segs[k] : k \in DOMAIN segs}

\* The segments of S, of the first L of the track, follow one another, and the
\* frames that wait follow the last.
Strip(t, S, L, frames, H) ==
  \A s \in S :
    /\ Sound(t, s, H) /\ s.number \in 0..(L - 1)
    /\ s.number = L - 1 => Joins(s, frames)
    /\ \A r \in S : r.number = s.number + 1 => FollowedBy(s, r)

Neat(t, frames, bytes, segs, infos, movie, n, H) ==
  /\ Tidy(t, frames, n, H) /\ bytes = frames
  /\ infos \in Seq(Marker)
  /\ Len(infos) > 0 => Len(frames) > 0 /\ (t = "video" => frames[1].key)
  /\ Strip(t, Held(segs), Len(infos), frames, H)
  /\ DOMAIN segs # {} => \E h \in H : movie = MovieOfTrack(TRUE, t, h)

LEMMA StripGrows ==
  ASSUME NEW t, NEW H, NEW F, NEW n \in Int, Tidy(t, F, n, H), Len(F) > 1,
         NEW L \in Nat, t = "video" /\ L > 0 => F[1].key,
         NEW S, NEW frames, Strip(t, S, L, frames, H), L > 0 => frames[1] = F[1],
         NEW s, s = CutFrom(t, F, L), NEW S2, S2 \subseteq S \cup {s}
  PROVE  Strip(t, S2, L + 1, LastOf(F), H)
<1>1. /\ Sound(t, s, H) /\ Joins(s, LastOf(F))
      /\ s.number = L /\ s.decodeTime = F[1].dts /\ s.data[1].number = F[1].number
  BY CutIsSound
<1>2. ASSUME NEW a \in S2
      PROVE  /\ Sound(t, a, H) /\ a.number \in 0..L /\ (a.number = L => Joins(a, LastOf(F)))
             /\ a.number = L => a = s
  <2>1. CASE a = s
    BY <1>1, <2>1
  <2>2. CASE a # s
    <3>1. a \in S
      BY <2>2
    <3>2. Sound(t, a, H) /\ a.number \in 0..(L - 1)
      BY <3>1 DEF Strip
    <3> QED
      BY <3>2
  <2> QED
    BY <2>1, <2>2
<1>3. ASSUME NEW a \in S2, NEW r \in S2, r.number = a.number + 1
      PROVE  FollowedBy(a, r)
  <2>1. a.number \in 0..L /\ r.number \in 0..L
    BY <1>2
  <2>2. a # s /\ a \in S /\ a.number \in 0..(L - 1)
    <3>1. a.number # L
      BY <1>3, <2>1
    <3>2. a # s /\ a \in S
      BY <1>1, <3>1
    <3> QED
      BY <3>2 DEF Strip
  <2>3. CASE r = s
    <3>1. a.number = L - 1 /\ L > 0
      BY <1>1, <1>3, <2>2, <2>3
    <3>2. Joins(a, frames)
      BY <2>2, <3>1 DEF Strip
    <3> QED
      BY <1>1, <2>3, <3>1, <3>2 DEF Joins, FollowedBy
  <2>4. CASE r # s
    <3>1. r \in S
      BY <2>4
    <3> QED
      BY <1>3, <2>2, <3>1 DEF Strip
  <2> QED
    BY <2>3, <2>4
<1>4. (L + 1) - 1 = L
  OBVIOUS
<1> QED
  BY <1>2, <1>3, <1>4 DEF Strip

LEMMA FirstStays ==
  ASSUME NEW S, NEW frames \in Seq(S), NEW f \in S
  PROVE  /\ Append(frames, f) \in Seq(S) /\ Len(Append(frames, f)) = Len(frames) + 1
         /\ Len(frames) \in Nat
         /\ Append(frames, f)[Len(frames) + 1] = f
         /\ Len(frames) > 0 => Append(frames, f)[1] = frames[1]
BY AppendProperties, LenProperties

LEMMA CollectIsNeat ==
  ASSUME NEW t, NEW frames, NEW bytes, NEW segs, NEW infos, NEW movie, NEW n \in Int, NEW H,
         Neat(t, frames, bytes, segs, infos, movie, n, H),
         NEW f \in FrameOf(t, H), f.number = n + 1
  PROVE  Neat(t, Append(frames, f), Append(bytes, f), segs, infos, movie, n + 1, H)
<1>1. Tidy(t, Append(frames, f), n + 1, H) /\ Append(bytes, f) = Append(frames, f)
  BY TidyAppend DEF Neat
<1>2. frames \in Seq(FrameOf(t, H))
  BY DEF Neat, Tidy
<1>3. /\ Len(Append(frames, f)) = Len(frames) + 1 /\ Len(frames) \in Nat
      /\ Len(frames) > 0 => Append(frames, f)[1] = frames[1]
  BY <1>2, FirstStays
<1>4. \A s : Joins(s, frames) => Joins(s, Append(frames, f))
  BY <1>3 DEF Joins
<1>5. Strip(t, Held(segs), Len(infos), Append(frames, f), H)
  BY <1>4 DEF Neat, Strip
<1>6. /\ infos \in Seq(Marker)
      /\ Len(infos) > 0 => Len(frames) > 0 /\ (t = "video" => frames[1].key)
      /\ DOMAIN segs # {} => \E h \in H : movie = MovieOfTrack(TRUE, t, h)
  BY DEF Neat
<1>7. Len(infos) > 0 => Len(Append(frames, f)) > 0 /\ (t = "video" => Append(frames, f)[1].key)
  BY <1>3, <1>6
<1> QED
  BY <1>1, <1>5, <1>6, <1>7, Zenon DEF Neat

\* A renewed header only allows more.
LEMMA StaysNeat ==
  ASSUME NEW t, NEW frames, NEW bytes, NEW segs, NEW infos, NEW movie, NEW n \in Int,
         NEW H, NEW H2, H \subseteq H2,
         Neat(t, frames, bytes, segs, infos, movie, n, H)
  PROVE  Neat(t, frames, bytes, segs, infos, movie, n, H2)
<1>1. FrameOf(t, H) \subseteq FrameOf(t, H2)
  BY DEF FrameOf
<1>2. \A s : s \in Seq(FrameOf(t, H)) => s \in Seq(FrameOf(t, H2))
  BY <1>1, SeqMonotonic
<1>3. \A s : Sound(t, s, H) => Sound(t, s, H2)
  BY <1>2 DEF Sound
<1> QED
  BY <1>2, <1>3 DEF Neat, Tidy, Strip

LEMMA StoreHolds ==
  ASSUME NEW m, NEW time, NEW s
  PROVE  Held(Store(m, time, s)) \subseteq Held(m) \cup {s}
<1>1. \A k \in Kept(m) : k \in DOMAIN m
  BY DEF Kept
<1>2. DOMAIN Store(m, time, s) = Kept(m) \cup {time}
  BY DEF Store
<1>3. \A k \in Kept(m) \cup {time} : Store(m, time, s)[k] = (IF k = time THEN s ELSE m[k])
  BY DEF Store
<1> QED
  BY <1>1, <1>2, <1>3 DEF Held

LEMMA CutIsNeat ==
  ASSUME NEW t, NEW frames, NEW bytes, NEW segs, NEW infos, NEW movie, NEW n \in Int, NEW H,
         Neat(t, frames, bytes, segs, infos, movie, n, H),
         NEW F, NEW k \in Int, Tidy(t, F, k, H), Len(F) > 1,
         Len(frames) > 0 => F[1] = frames[1],
         t = "video" => F[Len(F)].key,
         NEW h \in H, NEW time
  PROVE  Neat(t, LastOf(F), LastOf(F),
              Store(segs, time, CutFrom(t, F, Len(infos))), Append(infos, Info(F)),
              MovieOfTrack(TRUE, t, h), k, H)
<1>1. /\ F \in Seq(FrameOf(t, H)) /\ infos \in Seq(Marker) /\ Len(infos) \in Nat
  BY LenProperties DEF Neat, Tidy
<1>2. Info(F) \in Marker
  <2>1. F[1] \in FrameOf(t, H) /\ F[Len(F)] \in FrameOf(t, H)
    BY <1>1, LenProperties
  <2>2. Info(F) = [start |-> F[1].dts, duration |-> F[Len(F)].dts - F[1].dts]
    BY <1>1, LastIs, LenProperties DEF Info
  <2>3. F[1].dts \in Int /\ F[Len(F)].dts \in Int
    BY <2>1 DEF FrameOf
  <2> QED
    BY <2>2, <2>3 DEF Marker
<1>3. Append(infos, Info(F)) \in Seq(Marker) /\ Len(Append(infos, Info(F))) = Len(infos) + 1
  BY <1>1, <1>2, AppendProperties
<1>4. Tidy(t, LastOf(F), k, H) /\ Len(LastOf(F)) = 1 /\ LastOf(F)[1] = F[Len(F)]
  BY <1>1, LastIs, TidyLast, LenProperties
<1>5. Strip(t, Held(Store(segs, time, CutFrom(t, F, Len(infos)))), Len(infos) + 1, LastOf(F), H)
  <2>1. Strip(t, Held(segs), Len(infos), frames, H)
    BY DEF Neat
  <2>2. Len(infos) > 0 => frames[1] = F[1] /\ (t = "video" => F[1].key)
    BY DEF Neat
  <2>3. PICK s : s = CutFrom(t, F, Len(infos))
    OBVIOUS
  <2>4. Held(Store(segs, time, s)) \subseteq Held(segs) \cup {s}
    BY StoreHolds
  <2> QED
    BY <1>1, <2>1, <2>2, <2>3, <2>4, StripGrows
<1>6. /\ Strip(t, Held(Store(segs, time, CutFrom(t, F, Len(infos)))), Len(Append(infos, Info(F))),
               LastOf(F), H)
      /\ Len(LastOf(F)) > 0 /\ (t = "video" => LastOf(F)[1].key)
  BY <1>3, <1>4, <1>5
<1> QED
  BY <1>3, <1>4, <1>6, Zenon DEF Neat

-----------------------------------------------------------------------------
(* The muxer takes frames.                                                 *)

\* The codec headers there were.
Headers == IF renewed THEN {1, 2} ELSE {1}

NeatTrack(t) ==
  Neat(t, samples_[t], mdat_[t], m4s_[t], mpd_info_[t], init_mp4_[t], sent[t], Headers)

FilesInv ==
  /\ DOMAIN samples_ = Tracks /\ DOMAIN mdat_ = Tracks /\ DOMAIN header_ = Tracks
  /\ sent \in [Tracks -> Nat] /\ clock \in Nat
  /\ \A t \in Tracks : header_[t] \in {None} \cup Headers /\ NeatTrack(t)

LEMMA TheTracks ==
  /\ "video" \in Tracks /\ "audio" \in Tracks
  /\ \A t \in Tracks : t = "video" \/ t = "audio"
BY DEF Tracks

\* A segment is cut of what waits and of the frame that asks for it.
LEMMA SegmentIs ==
  ASSUME NEW t \in Tracks, NEW F, NEW frames, mdat_[t] = frames,
         t = "audio" => F = frames,
         t = "video" => Front(F) = frames
  PROVE  Segment(t, F) = CutFrom(t, F, Len(mpd_info_[t]))
<1>1. MediaData(t) = Front(F)
  BY TheTracks DEF MediaData
<1> QED
  BY <1>1 DEF Segment, SegmentIndex, CutFrom

LEMMA FrontOfAppend ==
  ASSUME NEW S, NEW s \in Seq(S), NEW e \in S
  PROVE  Front(Append(s, e)) = s /\ Last(Append(s, e)) = e
<1>1. /\ Append(s, e) \in Seq(S) /\ Len(Append(s, e)) = Len(s) + 1 /\ Len(s) \in Nat
      /\ Append(s, e)[Len(s) + 1] = e
      /\ \A i \in 1..Len(s) : Append(s, e)[i] = s[i]
  BY AppendProperties, LenProperties
<1>2. /\ Front(Append(s, e)) \in Seq(S) /\ Len(Front(Append(s, e))) = Len(s)
      /\ \A i \in 1..Len(s) : Front(Append(s, e))[i] = Append(s, e)[i]
  <2>1. /\ Front(Append(s, e)) \in Seq(S)
        /\ Len(Front(Append(s, e))) = Len(Append(s, e)) - 1
        /\ \A i \in 1..(Len(Append(s, e)) - 1) : Front(Append(s, e))[i] = Append(s, e)[i]
    <3>1. PICK a : a = Append(s, e)
      OBVIOUS
    <3>2. a \in Seq(S) /\ Len(a) > 0
      BY <1>1, <3>1
    <3>3. /\ Front(a) \in Seq(S) /\ Len(Front(a)) = Len(a) - 1
          /\ \A i \in 1..(Len(a) - 1) : Front(a)[i] = a[i]
      BY <3>2, FrontIs
    <3> QED
      BY <3>1, <3>3
  <2> QED
    BY <1>1, <2>1
<1>3. Front(Append(s, e)) = s
  BY <1>1, <1>2, SeqEqual
<1> QED
  BY <1>1, <1>3 DEF Last

LEMMA ReadyHeaders ==
  ASSUME FilesInv, Ready, NEW t \in Tracks
  PROVE  header_[t] \in Headers
BY DEF FilesInv, Ready

LEMMA FlushIsNeat ==
  ASSUME FilesInv, Ready, NEW f, f \in FrameOf("video", Headers), f.key,
         f.number = sent["video"] + 1, sent' = [sent EXCEPT !["video"] = @ + 1],
         NEW s, s = [samples_ EXCEPT !["video"] = Append(@, f)],
         Len(s["video"]) > 1,
         Flush(s), UpdateInitMp4(s), Reset(s), UNCHANGED renewed
  PROVE  /\ DOMAIN samples_' = Tracks /\ DOMAIN mdat_' = Tracks
         /\ \A t \in Tracks : NeatTrack(t)'
<1>1. DOMAIN samples_' = Tracks
  BY DEF Reset
<1>2. /\ DOMAIN mdat_' = Tracks
      /\ mdat_'["video"] = <<Last(s["video"])>> /\ mdat_'["audio"] = LastOf(mdat_["audio"])
  BY DEF Reset, Tracks
<1>3. \A t \in Tracks : samples_'[t] = LastOf(s[t])
  BY DEF Reset
<1>4. Headers' = Headers /\ \A t \in Tracks : header_[t] \in Headers
  BY ReadyHeaders DEF Headers
<1>5. \A t \in Tracks : Cut(s, t) =>
        /\ m4s_'[t] = Store(m4s_[t], Head(s[t]).dts, Segment(t, s[t]))
        /\ mpd_info_'[t] = Append(mpd_info_[t], Info(s[t]))
        /\ init_mp4_'[t] = MovieOfTrack(TRUE, t, header_[t])
  BY DEF Flush, UpdateInitMp4, InitMovie
<1>6. \A t \in Tracks : ~Cut(s, t) =>
        /\ m4s_'[t] = m4s_[t] /\ mpd_info_'[t] = mpd_info_[t] /\ init_mp4_'[t] = init_mp4_[t]
  BY DEF Flush, UpdateInitMp4
<1>7. /\ s["video"] = Append(samples_["video"], f) /\ s["audio"] = samples_["audio"]
      /\ sent'["video"] = sent["video"] + 1 /\ sent'["audio"] = sent["audio"]
      /\ sent["video"] \in Int /\ sent["audio"] \in Int
  BY TheTracks DEF FilesInv
<1>8. \A t \in Tracks :
        /\ NeatTrack(t) /\ Tidy(t, samples_[t], sent[t], Headers) /\ mdat_[t] = samples_[t]
        /\ samples_[t] \in Seq(FrameOf(t, Headers)) /\ Len(samples_[t]) \in Nat
  BY LenProperties DEF FilesInv, NeatTrack, Neat, Tidy
<1>9. NeatTrack("video")'
  <2>1. PICK F : F = s["video"]
    OBVIOUS
  <2>2. /\ Tidy("video", F, sent["video"] + 1, Headers) /\ Len(F) > 1
        /\ Front(F) = samples_["video"] /\ Last(F) = f /\ F[Len(F)] = f
        /\ Len(samples_["video"]) > 0 => F[1] = samples_["video"][1]
        /\ F \in Seq(FrameOf("video", Headers))
    <3>1. Tidy("video", F, sent["video"] + 1, Headers)
      BY <1>7, <1>8, <2>1, TheTracks, TidyAppend
    <3>2. Front(F) = samples_["video"] /\ Last(F) = f
      BY <1>7, <1>8, <2>1, TheTracks, FrontOfAppend
    <3>3. Len(samples_["video"]) > 0 => F[1] = samples_["video"][1]
      BY <1>7, <1>8, <2>1, TheTracks, FirstStays
    <3> QED
      BY <2>1, <3>1, <3>2, <3>3 DEF Last, Tidy
  <2>3. LastOf(F) = <<Last(F)>>
    BY <2>2, LastIs DEF Last
  <2>4. Cut(s, "video")
    BY <2>1, <2>2 DEF Cut
  <2>5. Segment("video", F) = CutFrom("video", F, Len(mpd_info_["video"]))
    BY <1>8, <2>2, TheTracks, SegmentIs
  <2>6. /\ samples_'["video"] = LastOf(F) /\ mdat_'["video"] = LastOf(F)
        /\ m4s_'["video"] = Store(m4s_["video"], Head(F).dts,
                                  CutFrom("video", F, Len(mpd_info_["video"])))
        /\ mpd_info_'["video"] = Append(mpd_info_["video"], Info(F))
        /\ init_mp4_'["video"] = MovieOfTrack(TRUE, "video", header_["video"])
    BY <1>2, <1>3, <1>5, <2>1, <2>3, <2>4, <2>5, TheTracks
  <2>7. Neat("video", samples_["video"], mdat_["video"], m4s_["video"], mpd_info_["video"],
             init_mp4_["video"], sent["video"], Headers)
    BY <1>8, TheTracks DEF NeatTrack
  <2>8. Neat("video", LastOf(F), LastOf(F),
             Store(m4s_["video"], Head(F).dts, CutFrom("video", F, Len(mpd_info_["video"]))),
             Append(mpd_info_["video"], Info(F)),
             MovieOfTrack(TRUE, "video", header_["video"]), sent["video"] + 1, Headers)
    <3>1. header_["video"] \in Headers /\ sent["video"] + 1 \in Int
      BY <1>4, <1>7, TheTracks
    <3> QED
      BY <1>7, <2>2, <2>7, <3>1, CutIsNeat
  <2> QED
    BY <1>4, <1>7, <2>6, <2>8 DEF NeatTrack
<1>10. NeatTrack("audio")'
  <2>1. PICK F : F = samples_["audio"]
    OBVIOUS
  <2>2. /\ Tidy("audio", F, sent["audio"], Headers) /\ F \in Seq(FrameOf("audio", Headers))
        /\ mdat_["audio"] = F /\ s["audio"] = F /\ Len(F) \in Nat
        /\ Neat("audio", F, F, m4s_["audio"], mpd_info_["audio"], init_mp4_["audio"],
                sent["audio"], Headers)
    BY <1>7, <1>8, <2>1, TheTracks DEF NeatTrack
  <2>3. samples_'["audio"] = LastOf(F) /\ mdat_'["audio"] = LastOf(F)
    BY <1>2, <1>3, <2>2, TheTracks
  <2>4. CASE Cut(s, "audio")
    <3>1. Len(F) > 1
      BY <2>2, <2>4 DEF Cut
    <3>2. Segment("audio", F) = CutFrom("audio", F, Len(mpd_info_["audio"]))
      BY <2>2, TheTracks, SegmentIs
    <3>3. /\ m4s_'["audio"] = Store(m4s_["audio"], Head(F).dts,
                                    CutFrom("audio", F, Len(mpd_info_["audio"])))
          /\ mpd_info_'["audio"] = Append(mpd_info_["audio"], Info(F))
          /\ init_mp4_'["audio"] = MovieOfTrack(TRUE, "audio", header_["audio"])
      BY <1>5, <2>2, <2>4, <3>2, TheTracks
    <3>4. Neat("audio", LastOf(F), LastOf(F),
               Store(m4s_["audio"], Head(F).dts, CutFrom("audio", F, Len(mpd_info_["audio"]))),
               Append(mpd_info_["audio"], Info(F)),
               MovieOfTrack(TRUE, "audio", header_["audio"]), sent["audio"], Headers)
      <4>1. header_["audio"] \in Headers
        BY <1>4, TheTracks
      <4> QED
        BY <1>7, <2>2, <3>1, <4>1, CutIsNeat
    <3> QED
      BY <1>4, <1>7, <2>3, <3>3, <3>4 DEF NeatTrack
  <2>5. CASE ~Cut(s, "audio")
    <3>1. ~(Len(F) > 1)
      BY <2>2, <2>5 DEF Cut
    <3>2. LastOf(F) = F
      <4>1. CASE Len(F) = 0
        BY <2>2, <4>1 DEF LastOf
      <4>2. CASE Len(F) # 0
        <5>1. Len(F) = 1
          <6>1. PICK N : N = Len(F)
            OBVIOUS
          <6>2. N \in Nat /\ ~(N > 1) /\ N # 0
            BY <2>2, <3>1, <4>2, <6>1
          <6>3. N = 1
            BY <6>2
          <6> QED
            BY <6>1, <6>3
        <5>2. PICK S : S = FrameOf("audio", Headers)
          OBVIOUS
        <5>3. F \in Seq(S) /\ Len(F) > 0
          BY <2>2, <5>1, <5>2
        <5>4. LastOf(F) \in Seq(S) /\ Len(LastOf(F)) = 1 /\ LastOf(F)[1] = F[Len(F)]
          BY <5>3, LastIs
        <5>5. \A i \in 1..Len(LastOf(F)) : LastOf(F)[i] = F[i]
          BY <5>1, <5>4
        <5>6. Len(LastOf(F)) = Len(F)
          BY <5>1, <5>4
        <5> QED
          BY <5>3, <5>4, <5>5, <5>6, SeqEqual
      <4> QED
        BY <4>1, <4>2
    <3>3. /\ m4s_'["audio"] = m4s_["audio"] /\ mpd_info_'["audio"] = mpd_info_["audio"]
          /\ init_mp4_'["audio"] = init_mp4_["audio"]
      BY <1>6, <2>5, TheTracks
    <3> QED
      BY <1>4, <1>7, <2>2, <2>3, <3>2, <3>3 DEF NeatTrack
  <2> QED
    BY <2>4, <2>5
<1> QED
  BY <1>1, <1>2, <1>9, <1>10, TheTracks

-----------------------------------------------------------------------------
(* The steps of the muxer.                                                 *)

LEMMA LongIsMany ==
  ASSUME NEW S, NEW F \in Seq(S), Len(F) > 0, F[1].dts \in Int, LongEnough(F)
  PROVE  Len(F) > 1 /\ F[Len(F)].dts - F[1].dts >= DASH_FRAGMENT_DURATION
<1>1. Last(F) = F[Len(F)] /\ Head(F) = F[1]
  BY LastIs
<1>2. F[Len(F)].dts - F[1].dts >= DASH_FRAGMENT_DURATION
  BY <1>1 DEF LongEnough
<1>3. PICK N : N = Len(F)
  OBVIOUS
<1>4. N \in Nat /\ N > 0
  BY <1>3, LenProperties
<1>5. N # 1
  <2> SUFFICES ASSUME N = 1 PROVE FALSE
    OBVIOUS
  <2>1. F[1].dts - F[1].dts >= DASH_FRAGMENT_DURATION
    BY <1>2, <1>3
  <2> QED
    BY <2>1, DashAssumption
<1> QED
  BY <1>2, <1>3, <1>4, <1>5

LEMMA SizesOfTidy ==
  ASSUME FilesInv, NEW t \in Tracks
  PROVE  /\ samples_[t] \in Seq(FrameOf(t, Headers)) /\ Len(samples_[t]) \in Nat
         /\ mdat_[t] = samples_[t]
         /\ mpd_info_[t] \in Seq(Marker) /\ Len(mpd_info_[t]) \in Nat
         /\ sent[t] \in Nat /\ header_[t] \in {None} \cup Headers /\ NeatTrack(t)
         /\ Len(mpd_info_[t]) > 0 => Len(samples_[t]) > 0
  BY LenProperties DEF FilesInv, NeatTrack, Neat, Tidy

\* A frame that is only collected.
LEMMA CollectKeepsFiles ==
  ASSUME FilesInv, NEW t \in Tracks, NEW f \in FrameOf(t, Headers), f.number = sent[t] + 1,
         sent' = [sent EXCEPT ![t] = @ + 1], clock' \in Nat,
         samples_' = [samples_ EXCEPT ![t] = Append(@, f)],
         mdat_' = [mdat_ EXCEPT ![t] = Append(@, f)],
         UNCHANGED <<header_, m4s_, mpd_info_, init_mp4_, renewed>>
  PROVE  FilesInv'
<1>1. Headers' = Headers
  BY DEF Headers
<1>2. DOMAIN samples_' = Tracks /\ DOMAIN mdat_' = Tracks /\ sent' \in [Tracks -> Nat]
  BY DEF FilesInv
<1>3. ASSUME NEW x \in Tracks PROVE NeatTrack(x)'
  <2>1. CASE x = t
    <3>1. /\ samples_'[t] = Append(samples_[t], f) /\ mdat_'[t] = Append(mdat_[t], f)
          /\ sent'[t] = sent[t] + 1 /\ sent[t] \in Int
      BY DEF FilesInv
    <3>2. Neat(t, samples_[t], mdat_[t], m4s_[t], mpd_info_[t], init_mp4_[t], sent[t], Headers)
      BY DEF FilesInv, NeatTrack
    <3>3. Neat(t, Append(samples_[t], f), Append(mdat_[t], f), m4s_[t], mpd_info_[t],
               init_mp4_[t], sent[t] + 1, Headers)
      BY <3>1, <3>2, CollectIsNeat
    <3> QED
      BY <1>1, <2>1, <3>1, <3>3 DEF NeatTrack
  <2>2. CASE x # t
    <3>1. samples_'[x] = samples_[x] /\ mdat_'[x] = mdat_[x] /\ sent'[x] = sent[x]
      BY <2>2 DEF FilesInv
    <3>2. NeatTrack(x)
      BY DEF FilesInv
    <3> QED
      BY <1>1, <3>1, <3>2 DEF NeatTrack
  <2> QED
    BY <2>1, <2>2
<1> QED
  BY <1>1, <1>2, <1>3 DEF FilesInv

\* What a video frame comes to.
LEMMA VideoFrame ==
  ASSUME FilesInv, NEW key \in BOOLEAN, NEW step \in Nat, OnVideo(key, step)
  PROVE  \E f \in FrameOf("video", Headers) :
           /\ f = Frame("video", sent'["video"], clock', key, header_["video"])
           /\ f.number = sent["video"] + 1 /\ f.dts = clock' /\ f.key = key
           /\ clock' = clock + step /\ clock' \in Nat
           /\ DashOnVideo(f)
<1>1. PICK f : f = Frame("video", sent'["video"], clock', key, header_["video"])
  OBVIOUS
<1>2. header_["video"] \in Headers
  BY ReadyHeaders, TheTracks DEF OnVideo
<1>3. clock' = clock + step /\ clock' \in Nat /\ clock' \in Int
  BY DEF OnVideo, FilesInv
<1>4. sent'["video"] = sent["video"] + 1 /\ sent'["video"] \in Int
  BY TheTracks DEF OnVideo, FilesInv
<1>5. f \in FrameOf("video", Headers)
  BY <1>1, <1>2, <1>3, <1>4 DEF Frame, FrameOf
<1>6. f.number = sent["video"] + 1 /\ f.dts = clock' /\ f.key = key
  BY <1>1, <1>4 DEF Frame
<1>7. DashOnVideo(f)
  BY <1>1 DEF OnVideo
<1> QED
  BY <1>1, <1>3, <1>5, <1>6, <1>7

LEMMA VideoKeepsFiles ==
  ASSUME FilesInv, NEW key \in BOOLEAN, NEW step \in Nat, OnVideo(key, step)
  PROVE  FilesInv'
<1>1. PICK f \in FrameOf("video", Headers) :
        /\ f.number = sent["video"] + 1 /\ f.dts = clock' /\ f.key = key
        /\ clock' \in Nat /\ DashOnVideo(f)
  BY VideoFrame
<1>2. /\ sent' = [sent EXCEPT !["video"] = @ + 1] /\ UNCHANGED renewed /\ Ready
      /\ sent' \in [Tracks -> Nat]
  BY TheTracks DEF OnVideo, FilesInv
<1>3. PICK s : s = [samples_ EXCEPT !["video"] = Append(@, f)]
  OBVIOUS
<1>4. CASE f.key /\ LongEnough(s["video"])
  <2>1. Flush(s) /\ UpdateInitMp4(s) /\ Reset(s) /\ UNCHANGED header_
    BY <1>1, <1>3, <1>4 DEF DashOnVideo
  <2>2. Len(s["video"]) > 1
    <3>1. samples_["video"] \in Seq(FrameOf("video", Headers)) /\ DOMAIN samples_ = Tracks
      BY TheTracks, SizesOfTidy DEF FilesInv
    <3>2. s["video"] = Append(samples_["video"], f)
      BY <1>3, <3>1, TheTracks
    <3>3. /\ s["video"] \in Seq(FrameOf("video", Headers))
          /\ Len(s["video"]) = Len(samples_["video"]) + 1 /\ Len(samples_["video"]) \in Nat
      BY <3>1, <3>2, FirstStays
    <3>4. s["video"][1].dts \in Int /\ Len(s["video"]) > 0
      <4>1. 1 \in 1..Len(s["video"])
        BY <3>3
      <4>2. s["video"][1] \in FrameOf("video", Headers)
        BY <3>3, <4>1, ElementOfSeq
      <4> QED
        BY <3>3, <4>2 DEF FrameOf
    <3> QED
      BY <1>4, <3>3, <3>4, LongIsMany
  <2>3. /\ DOMAIN samples_' = Tracks /\ DOMAIN mdat_' = Tracks
        /\ \A t \in Tracks : NeatTrack(t)'
    BY <1>1, <1>2, <1>3, <1>4, <2>1, <2>2, FlushIsNeat
  <2>4. Headers' = Headers
    BY <1>2 DEF Headers
  <2> QED
    BY <1>1, <1>2, <2>1, <2>3, <2>4 DEF FilesInv
<1>5. CASE ~(f.key /\ LongEnough(s["video"]))
  <2>1. /\ samples_' = s /\ mdat_' = [mdat_ EXCEPT !["video"] = Append(@, f)]
        /\ UNCHANGED <<header_, m4s_, mpd_info_, init_mp4_>>
    BY <1>1, <1>3, <1>5 DEF DashOnVideo
  <2> QED
    BY <1>1, <1>2, <1>3, <2>1, TheTracks, CollectKeepsFiles
<1> QED
  BY <1>4, <1>5

LEMMA AudioFrame ==
  ASSUME FilesInv, OnAudio
  PROVE  \E f \in FrameOf("audio", Headers) :
           /\ f = Frame("audio", sent'["audio"], clock, FALSE, header_["audio"])
           /\ f.number = sent["audio"] + 1 /\ f.dts = clock /\ DashOnAudio(f)
<1>1. PICK f : f = Frame("audio", sent'["audio"], clock, FALSE, header_["audio"])
  OBVIOUS
<1>2. header_["audio"] \in Headers
  BY ReadyHeaders, TheTracks DEF OnAudio
<1>3. clock \in Int
  BY DEF FilesInv
<1>4. sent'["audio"] = sent["audio"] + 1 /\ sent'["audio"] \in Int
  BY TheTracks DEF OnAudio, FilesInv
<1>5. f \in FrameOf("audio", Headers)
  BY <1>1, <1>2, <1>3, <1>4 DEF Frame, FrameOf
<1>6. f.number = sent["audio"] + 1 /\ f.dts = clock
  BY <1>1, <1>4 DEF Frame
<1>7. DashOnAudio(f)
  BY <1>1 DEF OnAudio
<1> QED
  BY <1>1, <1>5, <1>6, <1>7

LEMMA AudioKeepsFiles ==
  ASSUME FilesInv, OnAudio
  PROVE  FilesInv'
<1>1. PICK f \in FrameOf("audio", Headers) :
        f.number = sent["audio"] + 1 /\ f.dts = clock /\ DashOnAudio(f)
  BY AudioFrame
<1>2. /\ sent' = [sent EXCEPT !["audio"] = @ + 1] /\ UNCHANGED <<clock, renewed>>
      /\ clock' \in Nat
  BY DEF OnAudio, FilesInv
<1>3. /\ samples_' = [samples_ EXCEPT !["audio"] = Append(@, f)]
      /\ mdat_' = [mdat_ EXCEPT !["audio"] = Append(@, f)]
      /\ UNCHANGED <<header_, m4s_, mpd_info_, init_mp4_>>
  BY <1>1 DEF DashOnAudio
<1> QED
  BY <1>1, <1>2, <1>3, TheTracks, CollectKeepsFiles

LEMMA HeaderKeepsFiles ==
  ASSUME FilesInv, NEW t \in Tracks, OnHeader(t)
  PROVE  FilesInv'
<1>1. PICK h \in {1, 2} :
        /\ DashOnHeader(t, h)
        /\ (h = 1 /\ UNCHANGED renewed) \/ (h = 2 /\ renewed' = TRUE)
  <2>1. PICK h \in {1, 2} :
          /\ Mp4OnHeader(t, h) /\ DashOnHeader(t, h)
          /\ \/ h = 1 /\ header_[t] = None /\ UNCHANGED renewed
             \/ h = 2 /\ header_[t] = 1 /\ Faults < MaxFaults /\ renewed' = TRUE
    BY Zenon DEF OnHeader
  <2> QED
    BY <2>1
<1>2. /\ header_' = [header_ EXCEPT ![t] = h]
      /\ UNCHANGED <<samples_, mdat_, m4s_, mpd_info_, init_mp4_>>
      /\ UNCHANGED <<sent, clock>>
  BY <1>1 DEF DashOnHeader, OnHeader
<1>3. Headers \subseteq Headers' /\ h \in Headers'
  BY <1>1 DEF Headers
<1>4. ASSUME NEW x \in Tracks
      PROVE  header_'[x] \in {None} \cup Headers' /\ NeatTrack(x)'
  <2>1. header_'[x] \in {None} \cup Headers'
    BY <1>2, <1>3 DEF FilesInv
  <2>2. /\ Neat(x, samples_[x], mdat_[x], m4s_[x], mpd_info_[x], init_mp4_[x], sent[x], Headers)
        /\ sent[x] \in Int
    BY DEF FilesInv, NeatTrack
  <2>3. Neat(x, samples_[x], mdat_[x], m4s_[x], mpd_info_[x], init_mp4_[x], sent[x], Headers')
    BY <1>3, <2>2, StaysNeat
  <2> QED
    BY <1>2, <2>1, <2>3 DEF NeatTrack
<1>5. DOMAIN header_' = Tracks
  BY <1>2 DEF FilesInv
<1> QED
  BY <1>2, <1>4, <1>5 DEF FilesInv

\* A muxer that has been given nothing.
LEMMA NothingIsNeat ==
  ASSUME NEW t, NEW movie, NEW n \in Int, NEW H
  PROVE  Neat(t, << >>, << >>, << >>, << >>, movie, n, H)
<1>1. /\ << >> \in Seq(FrameOf(t, H)) /\ << >> \in Seq(Marker) /\ Len(<< >>) = 0
      /\ DOMAIN << >> = {}
  OBVIOUS
<1>2. Tidy(t, << >>, n, H)
  BY <1>1 DEF Tidy
<1>3. Strip(t, Held(<< >>), 0, << >>, H)
  BY <1>1 DEF Strip, Held
<1> QED
  BY <1>1, <1>2, <1>3 DEF Neat

LEMMA LeaveKeepsFiles ==
  ASSUME FilesInv, Leave
  PROVE  FilesInv'
<1>1. /\ samples_' = [t \in Tracks |-> << >>] /\ mdat_' = [t \in Tracks |-> << >>]
      /\ m4s_' = [t \in Tracks |-> << >>] /\ mpd_info_' = [t \in Tracks |-> << >>]
      /\ header_' = [t \in Tracks |-> None]
      /\ clock' = 0 /\ UNCHANGED sent
  BY DEF Leave, DashNew, Each
<1>2. ASSUME NEW t \in Tracks PROVE NeatTrack(t)'
  <2>1. sent'[t] \in Int
    BY <1>1 DEF FilesInv
  <2> QED
    BY <1>1, <2>1, NothingIsNeat DEF NeatTrack
<1> QED
  BY <1>1, <1>2 DEF FilesInv

LEMMA StillKeepsFiles ==
  ASSUME FilesInv, UNCHANGED <<samples_, mdat_, header_, m4s_, mpd_info_, init_mp4_, sent, renewed>>,
         clock' \in Nat
  PROVE  FilesInv'
<1>1. Headers' = Headers
  BY DEF Headers
<1> QED
  BY <1>1 DEF FilesInv, NeatTrack

LEMMA InitFiles ==
  ASSUME Init
  PROVE  FilesInv
<1>1. /\ samples_ = [t \in Tracks |-> << >>] /\ mdat_ = [t \in Tracks |-> << >>]
      /\ m4s_ = [t \in Tracks |-> << >>] /\ mpd_info_ = [t \in Tracks |-> << >>]
      /\ header_ = [t \in Tracks |-> None] /\ sent = [t \in Tracks |-> 0] /\ clock = 0
  BY DEF Init, DashInit, Each
<1>2. ASSUME NEW t \in Tracks PROVE NeatTrack(t)
  BY <1>1, NothingIsNeat DEF NeatTrack
<1> QED
  BY <1>1, <1>2 DEF FilesInv

LEMMA NextKeepsFiles ==
  ASSUME FilesInv, [Next]_vars
  PROVE  FilesInv'
<1>1. CASE OnVideo(FALSE, 1)
  BY <1>1, VideoKeepsFiles
<1>2. ASSUME NEW step \in Steps, OnVideo(TRUE, step) PROVE FilesInv'
  <2>1. step \in Nat
    BY StepsAssumption
  <2> QED
    BY <1>2, <2>1, VideoKeepsFiles
<1>3. CASE OnAudio
  BY <1>3, AudioKeepsFiles
<1>4. ASSUME NEW t \in Tracks, OnHeader(t) PROVE FilesInv'
  BY <1>4, HeaderKeepsFiles
<1>5. CASE SetClockBack
  BY <1>5, StillKeepsFiles DEF SetClockBack, dashVars
<1>6. CASE Leave
  BY <1>6, LeaveKeepsFiles
<1>7. clock \in Nat
  BY DEF FilesInv
<1>8. CASE Return \/ GetMpd \/ GetM4s
  BY <1>7, <1>8, StillKeepsFiles DEF Return, GetMpd, GetM4s, dashVars
<1>9. CASE UNCHANGED vars
  BY <1>7, <1>9, StillKeepsFiles DEF vars, dashVars, environment
<1> QED
  BY <1>1, <1>2, <1>3, <1>4, <1>5, <1>6, <1>8, <1>9 DEF Next

\* What waits of a track is the last frames it was given, and the segments
\* kept of it follow one another up to there.
THEOREM FilesHold == Spec => []FilesInv
<1>1. Init => FilesInv
  BY InitFiles
<1>2. FilesInv /\ [Next]_vars => FilesInv'
  BY NextKeepsFiles
<1> QED
  BY <1>1, <1>2, PTL DEF Spec

\* The segments of a track hold what their runs list and tile its time.
THEOREM SegmentsTile == Spec => []FragmentsTile
<1>1. FilesInv => FragmentsTile
  <2> SUFFICES ASSUME FilesInv, NEW t \in Tracks,
                      NEW s \in {m4s_[t][k] : k \in DOMAIN m4s_[t]}
               PROVE  /\ Whole(s)
                      /\ \A r \in {m4s_[t][k] : k \in DOMAIN m4s_[t]} :
                           r.number = s.number + 1 => FollowedBy(s, r)
    BY DEF FragmentsTile
  <2>1. Strip(t, Held(m4s_[t]), Len(mpd_info_[t]), samples_[t], Headers)
    BY DEF FilesInv, NeatTrack, Neat
  <2> QED
    BY <2>1 DEF Strip, Held, Sound
<1> QED
  BY <1>1, FilesHold, PTL

\* A segment that can be fetched can be played: its initialisation segment is
\* there, names its track, and has the header its frames were made with.
THEOREM InitBeforeSegments == Spec => []InitFitsSegments
<1>1. FilesInv => InitFitsSegments
  <2> SUFFICES ASSUME FilesInv, NEW t \in Tracks, NEW k \in DOMAIN m4s_[t]
               PROVE  LET s == m4s_[t][k]
                          movie == init_mp4_[t]
                      IN  /\ movie # None
                          /\ {movie.trak.tkhd.id, movie.trex.id} = {s.track}
                          /\ {movie.mvhd, movie.trak.tkhd.duration, movie.trak.mdhd} = {0}
                          /\ renewed \/ \A f \in Range(s.data) :
                                          movie.trak.stsd = SampleDescription(t, f.header)
    BY DEF InitFitsSegments
  <2>1. PICK s : s = m4s_[t][k]
    OBVIOUS
  <2>2. Strip(t, Held(m4s_[t]), Len(mpd_info_[t]), samples_[t], Headers) /\ s \in Held(m4s_[t])
    BY <2>1 DEF FilesInv, NeatTrack, Neat, Held
  <2>3. Sound(t, s, Headers)
    BY <2>2 DEF Strip
  <2>4. PICK h \in Headers : init_mp4_[t] = MovieOfTrack(TRUE, t, h)
    BY DEF FilesInv, NeatTrack, Neat
  <2>5. PICK movie : movie = MovieOfTrack(TRUE, t, h)
    OBVIOUS
  <2>6. /\ movie.trak.tkhd.id = 1 /\ movie.trex.id = 1 /\ movie.mvhd = 0
        /\ movie.trak.tkhd.duration = 0 /\ movie.trak.mdhd = 0
        /\ movie.trak.stsd = SampleDescription(t, h)
    <3>1. Duration(TRUE, << >>) = 0
      BY DEF Duration, NoDuration
    <3>2. MovieHeader(TRUE, [x \in Tracks |-> << >>]) = 0
      BY <3>1, TheTracks DEF MovieHeader
    <3> QED
      BY <2>5, <3>1, <3>2 DEF MovieOfTrack, TrackExtends, Track, TrackHeader, MediaHeader
  <2>7. movie # None
    <3>1. h \in {1, 2}
      BY <2>4 DEF Headers
    <3> QED
      BY <2>5, <3>1, NoneAssumption
  <2>8. ASSUME ~renewed, NEW f \in Range(s.data)
        PROVE  movie.trak.stsd = SampleDescription(t, f.header)
    <3>1. Headers = {1} /\ h = 1
      BY <2>4, <2>8 DEF Headers
    <3>2. PICK i \in DOMAIN s.data : f = s.data[i]
      BY <2>8 DEF Range
    <3>3. s.data \in Seq(FrameOf(t, Headers))
      BY <2>3 DEF Sound
    <3>4. f \in FrameOf(t, Headers)
      BY <3>2, <3>3
    <3>5. f.header = 1
      BY <3>1, <3>4 DEF FrameOf
    <3> QED
      BY <2>6, <3>1, <3>5
  <2>9. s.track = 1
    BY <2>3 DEF Sound
  <2> QED
    BY <2>1, <2>4, <2>5, <2>6, <2>7, <2>8, <2>9
<1> QED
  BY <1>1, FilesHold, PTL

-----------------------------------------------------------------------------
(* How long segments can be fetched.                                       *)

\* The segments of a track start one after the other, each of those after it
\* was cut at least DASH_FRAGMENT_DURATION later, and the last of them are
\* there.  flushed is the time of the last cut.
Shifted(infos, segs, frames, flushed) ==
  /\ \A j \in 1..Len(infos) :
       /\ infos[j].start < frames[1].dts
       /\ \A i \in 1..(j - 1) : infos[i].start < infos[j].start
       /\ infos[j].start + infos[j].duration
            + (Len(infos) - j) * DASH_FRAGMENT_DURATION <= flushed
       /\ j >= Len(infos) - DASH_CACHE * 2 =>
            infos[j].start \in DOMAIN segs /\ segs[infos[j].start].number = j - 1
  /\ DOMAIN segs \subseteq {infos[j].start : j \in 1..Len(infos)}

Rising(frames, last) ==
  \A j \in 1..Len(frames) :
    frames[j].dts <= last /\ \A i \in 1..(j - 1) : frames[i].dts < frames[j].dts

Timed ==
  LET V == samples_["video"]
  IN  /\ spoken \in Int /\ spoken <= clock
      /\ Rising(samples_["audio"], spoken)
      /\ Len(V) > 0 => V[1].dts <= clock
      /\ \A t \in Tracks :
           /\ Len(mpd_info_[t]) > 0 => Len(V) > 0
           /\ Shifted(mpd_info_[t], m4s_[t], samples_[t], V[1].dts)

TimesInv == ~setBack => Timed

\* After segment j of L there are at most L - j.
LEMMA FewLater ==
  ASSUME NEW infos, NEW L \in Nat,
         \A j \in 1..L : /\ infos[j].start \in Int
                         /\ \A i \in 1..(j - 1) : infos[i].start < infos[j].start,
         NEW D, D \subseteq {infos[j].start : j \in 1..L}, NEW j \in 1..L
  PROVE  /\ Cardinality({k \in D : k > infos[j].start}) \in Nat
         /\ Cardinality({k \in D : k > infos[j].start}) <= L - j
<1> DEFINE T == {infos[i].start : i \in (j + 1)..L}
           g == [i \in (j + 1)..L |-> infos[i].start]
<1>1. /\ IsFiniteSet((j + 1)..L) /\ Cardinality((j + 1)..L) = L - j
  <2>1. j + 1 \in Int /\ L \in Int /\ (j + 1 > L => L - j = 0) /\ L - (j + 1) + 1 = L - j
    OBVIOUS
  <2> QED
    BY <2>1, FS_Interval
<1>2. g \in Surjection((j + 1)..L, T)
  BY DEF Surjection
<1>3. IsFiniteSet(T) /\ Cardinality(T) <= L - j
  <2> HIDE DEF T, g
  <2> QED
    BY <1>1, <1>2, FS_Surjection
<1>4. {k \in D : k > infos[j].start} \subseteq T
  <2> SUFFICES ASSUME NEW k \in D, k > infos[j].start PROVE k \in T
    OBVIOUS
  <2>1. PICK i \in 1..L : k = infos[i].start
    OBVIOUS
  <2>2. i # j /\ ~(i \in 1..(j - 1))
    BY <2>1
  <2>3. i \in (j + 1)..L
    BY <2>2
  <2> QED
    BY <2>1, <2>3
<1> HIDE DEF T
<1>5. IsFiniteSet({k \in D : k > infos[j].start})
      /\ Cardinality({k \in D : k > infos[j].start}) <= Cardinality(T)
  BY <1>3, <1>4, FS_Subset
<1>6. Cardinality({k \in D : k > infos[j].start}) \in Nat /\ Cardinality(T) \in Nat
  BY <1>3, <1>5, FS_CardinalityType
<1> QED
  BY <1>3, <1>5, <1>6

LEMMA ShiftedCut ==
  ASSUME NEW infos \in Seq(Marker), NEW segs, NEW frames, NEW flushed,
         Shifted(infos, segs, frames, flushed),
         NEW S, NEW F \in Seq(S), Len(F) > 0, F[1].dts \in Int, F[Len(F)].dts \in Int,
         F[1].dts < F[Len(F)].dts,
         NEW now \in Int, F[Len(F)].dts <= now,
         Len(infos) > 0 => /\ F[1] = frames[1]
                           /\ flushed \in Int /\ flushed + DASH_FRAGMENT_DURATION <= now,
         NEW s, s.number = Len(infos)
  PROVE  Shifted(Append(infos, Info(F)), Store(segs, Head(F).dts, s), LastOf(F), now)
<1>1. PICK L : L = Len(infos)
  OBVIOUS
<1>2. PICK a : a = Append(infos, Info(F))
  OBVIOUS
<1>3. PICK m : m = Store(segs, Head(F).dts, s)
  OBVIOUS
<1>4. PICK b : b = F[1].dts
  OBVIOUS
<1>5. PICK e : e = F[Len(F)].dts
  OBVIOUS
<1>6. L \in Nat /\ b \in Int /\ e \in Int /\ b < e /\ e <= now
  BY <1>1, <1>4, <1>5, LenProperties
<1>7. Head(F).dts = b /\ LastOf(F)[1].dts = e /\ Info(F) = [start |-> b, duration |-> e - b]
  BY <1>4, <1>5, LastIs DEF Info
<1>8. /\ Len(a) = L + 1 /\ a[L + 1].start = b /\ a[L + 1].duration = e - b
      /\ \A j \in 1..L : a[j] = infos[j]
  <2>1. Info(F) \in Marker
    BY <1>6, <1>7 DEF Marker
  <2> QED
    BY <1>1, <1>2, <1>7, <2>1, AppendProperties
<1>9. /\ DOMAIN m = Kept(segs) \cup {b} /\ m[b] = s
      /\ \A k \in Kept(segs) : k # b => m[k] = segs[k]
  BY <1>3, <1>7 DEF Store
<1>10. \A j \in 1..L :
         /\ infos[j].start \in Int /\ infos[j].duration \in Int
         /\ infos[j].start < b
         /\ \A i \in 1..(j - 1) : infos[i].start < infos[j].start
         /\ infos[j].start + infos[j].duration + (L - j) * DASH_FRAGMENT_DURATION <= flushed
         /\ j >= L - DASH_CACHE * 2 =>
              infos[j].start \in DOMAIN segs /\ segs[infos[j].start].number = j - 1
  <2> SUFFICES ASSUME NEW j \in 1..L
               PROVE  /\ infos[j].start \in Int /\ infos[j].duration \in Int
                      /\ infos[j].start < b
    BY <1>1 DEF Shifted
  <2>1. j \in 1..Len(infos) /\ Len(infos) > 0
    BY <1>1, <1>6
  <2>2. infos[j] \in Marker
    BY <2>1, ElementOfSeq
  <2>3. infos[j].start < frames[1].dts /\ F[1] = frames[1]
    BY <2>1 DEF Shifted
  <2> QED
    BY <1>4, <2>2, <2>3 DEF Marker
<1>11. DOMAIN segs \subseteq {infos[j].start : j \in 1..L}
  BY <1>1 DEF Shifted
<1>12. ASSUME NEW j \in 1..L, j >= (L + 1) - DASH_CACHE * 2
       PROVE  infos[j].start \in Kept(segs)
  <2>1. infos[j].start \in DOMAIN segs
    BY <1>6, <1>10, <1>12, DashAssumption
  <2>2. PICK c : c = Cardinality({k \in DOMAIN segs : k > infos[j].start})
    OBVIOUS
  <2>3. c \in Nat /\ c <= L - j
    <3>1. \A i \in 1..L : /\ infos[i].start \in Int
                           /\ \A h \in 1..(i - 1) : infos[h].start < infos[i].start
      BY <1>10
    <3>2. /\ Cardinality({k \in DOMAIN segs : k > infos[j].start}) \in Nat
          /\ Cardinality({k \in DOMAIN segs : k > infos[j].start}) <= L - j
      BY <1>6, <1>11, <3>1, FewLater
    <3> QED
      BY <2>2, <3>2
  <2>4. c < DASH_CACHE * 2
    BY <1>6, <1>12, <2>3, DashAssumption
  <2> QED
    BY <2>1, <2>2, <2>4 DEF Kept
<1>13. ASSUME NEW j \in 1..(L + 1)
       PROVE  /\ a[j].start < e
              /\ \A i \in 1..(j - 1) : a[i].start < a[j].start
              /\ a[j].start + a[j].duration
                   + ((L + 1) - j) * DASH_FRAGMENT_DURATION <= now
              /\ j >= (L + 1) - DASH_CACHE * 2 =>
                   a[j].start \in DOMAIN m /\ m[a[j].start].number = j - 1
  <2>1. CASE j = L + 1
    <3>1. a[j].start = b /\ a[j].duration = e - b
      BY <1>8, <2>1
    <3>2. ((L + 1) - j) * DASH_FRAGMENT_DURATION = 0
      <4>1. (L + 1) - j = 0
        BY <1>6, <2>1
      <4>2. 0 * DASH_FRAGMENT_DURATION = 0
        BY DashAssumption
      <4> QED
        BY <4>1, <4>2
    <3>3. \A i \in 1..(j - 1) : a[i].start < a[j].start
      BY <1>6, <1>8, <1>10, <2>1, <3>1
    <3>4. m[b].number = j - 1 /\ b \in DOMAIN m
      BY <1>1, <1>6, <1>9, <2>1
    <3> QED
      BY <1>6, <3>1, <3>2, <3>3, <3>4
  <2>2. CASE j # L + 1
    <3>1. j \in 1..L /\ a[j] = infos[j] /\ L > 0
      BY <1>6, <1>8, <2>2
    <3>2. \A i \in 1..(j - 1) : i \in 1..L /\ a[i] = infos[i]
      BY <1>6, <1>8, <3>1
    <3>3. ((L + 1) - j) * DASH_FRAGMENT_DURATION
            = (L - j) * DASH_FRAGMENT_DURATION + DASH_FRAGMENT_DURATION
      BY <1>6, DashAssumption
    <3>4. flushed \in Int /\ flushed + DASH_FRAGMENT_DURATION <= now
      BY <1>1, <3>1
    <3>5. a[j].start + a[j].duration + ((L + 1) - j) * DASH_FRAGMENT_DURATION <= now
      <4>1. PICK x : x = (L - j) * DASH_FRAGMENT_DURATION
        OBVIOUS
      <4>2. x \in Int
        BY <1>6, <4>1, DashAssumption
      <4>3. infos[j].start + infos[j].duration + x <= flushed
        BY <1>10, <3>1, <4>1
      <4>4. infos[j].start \in Int /\ infos[j].duration \in Int
        BY <1>10, <3>1
      <4>5. infos[j].start + infos[j].duration + (x + DASH_FRAGMENT_DURATION) <= now
        <5>1. PICK u : u = infos[j].start
          OBVIOUS
        <5>2. PICK v : v = infos[j].duration
          OBVIOUS
        <5>3. PICK d : d = DASH_FRAGMENT_DURATION
          OBVIOUS
        <5>4. u \in Int /\ v \in Int /\ d \in Int /\ u + v + x <= flushed /\ flushed + d <= now
          BY <3>4, <4>3, <4>4, <5>1, <5>2, <5>3, DashAssumption
        <5>5. u + v + (x + d) <= now
          BY <3>4, <4>2, <5>4
        <5> QED
          BY <5>1, <5>2, <5>3, <5>5
      <4> QED
        BY <3>1, <3>3, <4>1, <4>5
    <3>6. ASSUME j >= (L + 1) - DASH_CACHE * 2
          PROVE  a[j].start \in DOMAIN m /\ m[a[j].start].number = j - 1
      <4>1. infos[j].start \in Kept(segs) /\ infos[j].start # b
        <5>1. infos[j].start \in Int /\ infos[j].start < b
          BY <1>10, <3>1
        <5> QED
          BY <1>6, <1>12, <3>1, <3>6, <5>1
      <4>2. segs[infos[j].start].number = j - 1
        <5>1. j >= L - DASH_CACHE * 2
          BY <1>6, <3>1, <3>6, DashAssumption
        <5> QED
          BY <1>10, <3>1, <5>1
      <4> QED
        BY <1>9, <3>1, <4>1, <4>2
    <3>7. a[j].start < e
      <4>1. infos[j].start \in Int /\ infos[j].start < b
        BY <1>10, <3>1
      <4>2. PICK u : u = infos[j].start
        OBVIOUS
      <4>3. u \in Int /\ u < b
        BY <4>1, <4>2
      <4>4. u < e
        BY <1>6, <4>3
      <4> QED
        BY <3>1, <4>2, <4>4
    <3> QED
      BY <1>10, <3>1, <3>2, <3>5, <3>6, <3>7
  <2> QED
    BY <2>1, <2>2
<1>14. DOMAIN m \subseteq {a[j].start : j \in 1..(L + 1)}
  <2>1. \A k \in Kept(segs) : k \in DOMAIN segs
    BY DEF Kept
  <2>2. \A j \in 1..L : j \in 1..(L + 1) /\ infos[j].start = a[j].start
    BY <1>6, <1>8
  <2>3. L + 1 \in 1..(L + 1) /\ b = a[L + 1].start
    <3>1. L + 1 \in 1..(L + 1)
      BY <1>6
    <3> QED
      BY <1>8, <3>1
  <2> QED
    BY <1>9, <1>11, <2>1, <2>2, <2>3
<1>15. Shifted(a, m, LastOf(F), now)
  BY <1>7, <1>8, <1>13, <1>14 DEF Shifted
<1> QED
  BY <1>2, <1>3, <1>15

\* The same segments, and the same frame waits first.
LEMMA ShiftedStays ==
  ASSUME NEW infos \in Seq(Marker), NEW segs, NEW frames, NEW flushed, NEW later, NEW now,
         Shifted(infos, segs, frames, flushed),
         Len(infos) > 0 => /\ later[1].dts = frames[1].dts
                           /\ flushed \in Int /\ now \in Int /\ flushed <= now
  PROVE  Shifted(infos, segs, later, now)
<1>1. PICK L : L = Len(infos)
  OBVIOUS
<1>2. L \in Nat
  BY <1>1, LenProperties
<1>3. ASSUME NEW j \in 1..L
      PROVE  /\ infos[j].start < later[1].dts
             /\ infos[j].start + infos[j].duration
                  + (L - j) * DASH_FRAGMENT_DURATION <= now
  <2>1. flushed \in Int /\ now \in Int /\ flushed <= now /\ later[1].dts = frames[1].dts
    BY <1>1, <1>2
  <2>2. PICK x : x = (L - j) * DASH_FRAGMENT_DURATION
    OBVIOUS
  <2>3. x \in Int /\ infos[j].start \in Int /\ infos[j].duration \in Int
    <3>1. infos[j] \in Marker
      BY <1>1, ElementOfSeq
    <3>2. DASH_FRAGMENT_DURATION \in Int /\ L - j \in Int
      BY <1>2, DashAssumption
    <3> QED
      BY <2>2, <3>1, <3>2 DEF Marker
  <2>4. infos[j].start < frames[1].dts /\ infos[j].start + infos[j].duration + x <= flushed
    BY <1>1, <2>2 DEF Shifted
  <2> QED
    BY <2>1, <2>2, <2>3, <2>4
<1> QED
  BY <1>1, <1>3 DEF Shifted

\* The times a video frame finds.
LEMMA VideoTimes ==
  ASSUME FilesInv, Timed
  PROVE  /\ samples_["video"] \in Seq(FrameOf("video", Headers))
         /\ samples_["audio"] \in Seq(FrameOf("audio", Headers))
         /\ \A t \in Tracks : \A i \in 1..Len(samples_[t]) : samples_[t][i].dts \in Int
         /\ \A t \in Tracks : Len(mpd_info_[t]) > 0 => /\ Len(samples_["video"]) > 0
                                                      /\ samples_["video"][1].dts \in Int
                                                      /\ Len(samples_[t]) > 0
<1>1. \A t \in Tracks : samples_[t] \in Seq(FrameOf(t, Headers))
  BY SizesOfTidy
<1>2. ASSUME NEW t \in Tracks, NEW i \in 1..Len(samples_[t]) PROVE samples_[t][i].dts \in Int
  <2>1. samples_[t][i] \in FrameOf(t, Headers)
    BY <1>1, ElementOfSeq
  <2> QED
    BY <2>1 DEF FrameOf
<1>3. ASSUME NEW t \in Tracks, Len(mpd_info_[t]) > 0
      PROVE  /\ Len(samples_["video"]) > 0 /\ samples_["video"][1].dts \in Int
             /\ Len(samples_[t]) > 0
  <2>1. Len(samples_["video"]) > 0
    BY <1>3 DEF Timed
  <2>2. 1 \in 1..Len(samples_["video"])
    <3>1. Len(samples_["video"]) \in Nat
      BY SizesOfTidy, TheTracks
    <3> QED
      BY <2>1, <3>1
  <2> QED
    BY <1>2, <1>3, <2>1, <2>2, SizesOfTidy, TheTracks
<1> QED
  BY <1>1, <1>2, <1>3, TheTracks

LEMMA FlushKeepsTimes ==
  ASSUME FilesInv, Timed, NEW f \in FrameOf("video", Headers), f.dts = clock',
         clock' \in Nat, clock <= clock', UNCHANGED spoken,
         NEW s, s = [samples_ EXCEPT !["video"] = Append(@, f)], LongEnough(s["video"]),
         Flush(s), Reset(s)
  PROVE  Timed'
<1>1. PICK V : V = samples_["video"]
  OBVIOUS
<1>2. PICK A : A = samples_["audio"]
  OBVIOUS
<1>3. PICK F : F = s["video"]
  OBVIOUS
<1>4. PICK now : now = clock'
  OBVIOUS
<1>5. PICK S : S = FrameOf("video", Headers)
  OBVIOUS
<1>6. /\ V \in Seq(S) /\ A \in Seq(FrameOf("audio", Headers)) /\ f \in S
      /\ Len(V) \in Nat /\ Len(A) \in Nat
      /\ F = Append(V, f) /\ s["audio"] = A /\ now \in Int /\ f.dts = now
  <2>1. DOMAIN samples_ = Tracks
    BY DEF FilesInv
  <2> QED
    BY <1>1, <1>2, <1>3, <1>4, <1>5, <2>1, VideoTimes, TheTracks, LenProperties
<1>7. /\ F \in Seq(S) /\ Len(F) = Len(V) + 1 /\ F[Len(V) + 1] = f
      /\ Len(V) > 0 => F[1] = V[1]
  BY <1>6, FirstStays
<1>8. F[1].dts \in Int
  <2>1. 1 \in 1..Len(F)
    BY <1>6, <1>7
  <2>2. F[1] \in S
    BY <1>7, <2>1, ElementOfSeq
  <2> QED
    BY <1>5, <2>2 DEF FrameOf
<1>9. Len(F) > 1 /\ F[Len(F)].dts - F[1].dts >= DASH_FRAGMENT_DURATION
  <2>1. Len(F) > 0 /\ LongEnough(F)
    BY <1>3, <1>6, <1>7
  <2> QED
    BY <1>7, <1>8, <2>1, LongIsMany
<1>10. /\ Len(V) > 0 /\ F[1] = V[1] /\ F[Len(F)].dts = now
       /\ V[1].dts \in Int /\ V[1].dts + DASH_FRAGMENT_DURATION <= now
       /\ F[1].dts < F[Len(F)].dts
  <2>1. Len(V) > 0 /\ F[1] = V[1] /\ F[Len(F)].dts = now
    BY <1>6, <1>7, <1>9
  <2>2. PICK b : b = F[1].dts
    OBVIOUS
  <2>3. b \in Int /\ now - b >= DASH_FRAGMENT_DURATION
    BY <1>8, <1>9, <2>1, <2>2
  <2>4. b + DASH_FRAGMENT_DURATION <= now /\ b < now
    BY <1>6, <2>3, DashAssumption
  <2> QED
    BY <2>1, <2>2, <2>3, <2>4
<1>11. /\ samples_'["video"] = LastOf(F) /\ samples_'["audio"] = LastOf(A)
  BY <1>3, <1>6, TheTracks DEF Reset
<1>12. LastOf(F)[1].dts = now /\ Len(LastOf(F)) = 1
  BY <1>7, <1>9, <1>10, LastIs
<1>13. \A t \in Tracks :
         /\ mpd_info_[t] \in Seq(Marker) /\ Len(mpd_info_[t]) \in Nat
         /\ Shifted(mpd_info_[t], m4s_[t], samples_[t], V[1].dts)
  BY <1>1, SizesOfTidy DEF Timed
<1>14. Shifted(mpd_info_'["video"], m4s_'["video"], LastOf(F), now)
  <2>1. /\ mpd_info_'["video"] = Append(mpd_info_["video"], Info(F))
        /\ m4s_'["video"] = Store(m4s_["video"], Head(F).dts, Segment("video", F))
    BY <1>3, <1>9, TheTracks DEF Flush, Cut
  <2>2. PICK g : g = Segment("video", F)
    OBVIOUS
  <2>3. g.number = Len(mpd_info_["video"])
    BY <2>2 DEF Segment
  <2>4. Shifted(mpd_info_["video"], m4s_["video"], V, V[1].dts)
        /\ mpd_info_["video"] \in Seq(Marker)
    BY <1>1, <1>13, TheTracks
  <2>5. F[Len(F)].dts \in Int /\ F[Len(F)].dts <= now /\ Len(F) > 0
    BY <1>6, <1>9, <1>10
  <2>6. Shifted(Append(mpd_info_["video"], Info(F)), Store(m4s_["video"], Head(F).dts, g),
                LastOf(F), now)
    BY <1>6, <1>7, <1>8, <1>10, <2>3, <2>4, <2>5, ShiftedCut
  <2> QED
    BY <2>1, <2>2, <2>6
<1>15. /\ spoken \in Int /\ spoken <= now
       /\ \A j \in 1..Len(A) : /\ A[j].dts \in Int /\ A[j].dts <= spoken
                               /\ \A i \in 1..(j - 1) : A[i].dts < A[j].dts
  <2>1. \A j \in 1..Len(A) : A[j].dts \in Int
    BY <1>2, VideoTimes, TheTracks
  <2>2. clock \in Int /\ spoken \in Int /\ spoken <= clock /\ Rising(A, spoken)
    BY <1>2 DEF Timed, FilesInv
  <2> QED
    BY <1>4, <1>6, <2>1, <2>2 DEF Rising
<1>16. Shifted(mpd_info_'["audio"], m4s_'["audio"], LastOf(A), now)
  <2>1. CASE Cut(s, "audio")
    <3>1. /\ mpd_info_'["audio"] = Append(mpd_info_["audio"], Info(A))
          /\ m4s_'["audio"] = Store(m4s_["audio"], Head(A).dts, Segment("audio", A))
          /\ Len(A) > 1
      BY <1>6, <2>1, TheTracks DEF Flush, Cut
    <3>2. PICK g : g = Segment("audio", A)
      OBVIOUS
    <3>3. g.number = Len(mpd_info_["audio"])
      BY <3>2 DEF Segment
    <3>4. Shifted(mpd_info_["audio"], m4s_["audio"], A, V[1].dts)
          /\ mpd_info_["audio"] \in Seq(Marker)
      BY <1>2, <1>13, TheTracks
    <3>5. /\ A[1].dts \in Int /\ A[Len(A)].dts \in Int /\ A[1].dts < A[Len(A)].dts
          /\ A[Len(A)].dts <= now /\ Len(A) > 0
      <4>1. PICK N : N = Len(A)
        OBVIOUS
      <4>2. N \in Nat /\ N > 1
        BY <1>6, <3>1, <4>1
      <4>3. 1 \in 1..N /\ N \in 1..N /\ 1 \in 1..(N - 1) /\ N > 0
        BY <4>2
      <4>4. A[1].dts \in Int /\ A[N].dts \in Int /\ A[N].dts <= spoken /\ A[1].dts < A[N].dts
        BY <1>15, <4>1, <4>3
      <4>5. A[N].dts <= now
        <5>1. PICK e : e = A[N].dts
          OBVIOUS
        <5>2. e \in Int /\ e <= spoken
          BY <4>4, <5>1
        <5>3. e <= now
          BY <1>6, <1>15, <5>2
        <5> QED
          BY <5>1, <5>3
      <4> QED
        BY <4>1, <4>3, <4>4, <4>5
    <3>6. Shifted(Append(mpd_info_["audio"], Info(A)), Store(m4s_["audio"], Head(A).dts, g),
                  LastOf(A), now)
      BY <1>6, <1>10, <3>3, <3>4, <3>5, ShiftedCut
    <3> QED
      BY <3>1, <3>2, <3>6
  <2>2. CASE ~Cut(s, "audio")
    <3>1. /\ mpd_info_'["audio"] = mpd_info_["audio"] /\ m4s_'["audio"] = m4s_["audio"]
          /\ ~(Len(A) > 1)
      BY <1>6, <2>2, TheTracks DEF Flush, Cut
    <3>2. Len(mpd_info_["audio"]) > 0 => LastOf(A)[1] = A[1]
      <4> SUFFICES ASSUME Len(mpd_info_["audio"]) > 0 PROVE LastOf(A)[1] = A[1]
        OBVIOUS
      <4>1. PICK N : N = Len(A)
        OBVIOUS
      <4>2. N \in Nat /\ N > 0 /\ ~(N > 1)
        BY <1>2, <1>6, <3>1, <4>1, VideoTimes, TheTracks
      <4>3. N = 1
        BY <4>2
      <4>4. Len(A) > 0 /\ A[Len(A)] = A[1]
        BY <4>1, <4>2, <4>3
      <4> QED
        BY <1>6, <4>4, LastIs
    <3>3. /\ Shifted(mpd_info_["audio"], m4s_["audio"], A, V[1].dts)
          /\ mpd_info_["audio"] \in Seq(Marker)
      BY <1>2, <1>13, TheTracks
    <3>4. V[1].dts \in Int /\ V[1].dts <= now
      <4>1. PICK b : b = V[1].dts
        OBVIOUS
      <4>2. b \in Int /\ b + DASH_FRAGMENT_DURATION <= now
        BY <1>10, <4>1
      <4>3. b <= now
        BY <1>6, <4>2, DashAssumption
      <4> QED
        BY <4>1, <4>2, <4>3
    <3>5. Shifted(mpd_info_["audio"], m4s_["audio"], LastOf(A), now)
      <4>1. Len(mpd_info_["audio"]) > 0 =>
              /\ LastOf(A)[1].dts = A[1].dts
              /\ V[1].dts \in Int /\ now \in Int /\ V[1].dts <= now
        BY <1>6, <3>2, <3>4
      <4> QED
        BY <3>3, <4>1, ShiftedStays
    <3> QED
      BY <3>1, <3>5
  <2> QED
    BY <2>1, <2>2
<1>17. Rising(LastOf(A), spoken)
  <2>1. CASE Len(A) = 0
    <3>1. A = << >>
      BY <1>6, <2>1
    <3>2. Len(LastOf(A)) = 0
      BY <3>1 DEF LastOf
    <3> QED
      BY <3>2 DEF Rising
  <2>2. CASE Len(A) # 0
    <3>1. Len(A) > 0 /\ Len(A) \in 1..Len(A)
      BY <1>6, <2>2
    <3>2. Len(LastOf(A)) = 1 /\ LastOf(A)[1] = A[Len(A)]
      BY <1>6, <3>1, LastIs
    <3>3. A[Len(A)].dts <= spoken
      BY <1>15, <3>1
    <3> QED
      BY <3>2, <3>3 DEF Rising
  <2> QED
    BY <2>1, <2>2
<1>18. samples_'["video"][1].dts = now /\ Len(samples_'["video"]) > 0
  BY <1>11, <1>12
<1>19. \A t \in Tracks : Shifted(mpd_info_'[t], m4s_'[t], samples_'[t], now)
  BY <1>11, <1>14, <1>16, TheTracks
<1>20. spoken' = spoken /\ clock' = now /\ now <= now
  BY <1>4, <1>6
<1> QED
  BY <1>11, <1>15, <1>17, <1>18, <1>19, <1>20 DEF Timed

LEMMA CollectKeepsTimes ==
  ASSUME FilesInv, Timed, NEW f \in FrameOf("video", Headers), f.dts = clock',
         clock' \in Nat, clock <= clock',
         samples_' = [samples_ EXCEPT !["video"] = Append(@, f)],
         UNCHANGED <<m4s_, mpd_info_, spoken>>
  PROVE  Timed'
<1>1. PICK V : V = samples_["video"]
  OBVIOUS
<1>2. PICK F : F = samples_'["video"]
  OBVIOUS
<1>3. PICK S : S = FrameOf("video", Headers)
  OBVIOUS
<1>4. /\ V \in Seq(S) /\ f \in S /\ F = Append(V, f) /\ Len(V) \in Nat
      /\ samples_'["audio"] = samples_["audio"]
  <2>1. DOMAIN samples_ = Tracks
    BY DEF FilesInv
  <2> QED
    BY <1>1, <1>2, <1>3, <2>1, VideoTimes, TheTracks, LenProperties
<1>5. /\ Len(F) = Len(V) + 1 /\ F[Len(V) + 1] = f /\ (Len(V) > 0 => F[1] = V[1])
  BY <1>4, FirstStays
<1>6. spoken' \in Int /\ spoken' <= clock' /\ Rising(samples_'["audio"], spoken')
  BY <1>4 DEF Timed, FilesInv
<1>7. F[1].dts <= clock'
  <2>1. CASE Len(V) = 0
    BY <1>5, <2>1
  <2>2. CASE Len(V) > 0
    <3>1. 1 \in 1..Len(V)
      BY <1>4, <2>2
    <3>2. V[1].dts \in Int
      BY <1>1, <3>1, VideoTimes, TheTracks
    <3>3. V[1].dts <= clock
      BY <1>1, <2>2 DEF Timed
    <3>4. V[1].dts <= clock'
      BY <3>2, <3>3 DEF FilesInv
    <3> QED
      BY <1>5, <2>2, <3>4
  <2> QED
    BY <1>4, <2>1, <2>2
<1>8. ASSUME NEW t \in Tracks
      PROVE  /\ Len(mpd_info_[t]) > 0 => Len(F) > 0
             /\ Shifted(mpd_info_[t], m4s_[t], samples_'[t], F[1].dts)
  <2>1. /\ mpd_info_[t] \in Seq(Marker)
        /\ Shifted(mpd_info_[t], m4s_[t], samples_[t], V[1].dts)
    BY <1>1, SizesOfTidy DEF Timed
  <2>2. Len(mpd_info_[t]) > 0 =>
          /\ samples_'[t][1].dts = samples_[t][1].dts
          /\ V[1].dts \in Int /\ F[1].dts \in Int /\ V[1].dts <= F[1].dts
    <3> SUFFICES ASSUME Len(mpd_info_[t]) > 0
                 PROVE  /\ samples_'[t][1].dts = samples_[t][1].dts
                        /\ V[1].dts \in Int /\ F[1].dts \in Int /\ V[1].dts <= F[1].dts
      OBVIOUS
    <3>1. Len(V) > 0 /\ V[1].dts \in Int
      BY <1>1, VideoTimes
    <3>2. F[1] = V[1]
      BY <1>5, <3>1
    <3>3. PICK b : b = V[1].dts
      OBVIOUS
    <3>4. b \in Int /\ b <= b
      BY <3>1, <3>3
    <3>5. samples_'[t][1].dts = samples_[t][1].dts
      BY <1>1, <1>2, <1>4, <3>2, TheTracks
    <3> QED
      BY <3>1, <3>2, <3>3, <3>4, <3>5
  <2>3. Shifted(mpd_info_[t], m4s_[t], samples_'[t], F[1].dts)
    <3>1. PICK now : now = F[1].dts
      OBVIOUS
    <3>2. PICK later : later = samples_'[t]
      OBVIOUS
    <3>3. PICK flushed : flushed = V[1].dts
      OBVIOUS
    <3>4. Len(mpd_info_[t]) > 0 =>
            /\ later[1].dts = samples_[t][1].dts
            /\ flushed \in Int /\ now \in Int /\ flushed <= now
      BY <2>2, <3>1, <3>2, <3>3
    <3>5. Shifted(mpd_info_[t], m4s_[t], later, now)
      BY <2>1, <3>3, <3>4, ShiftedStays
    <3> QED
      BY <3>1, <3>2, <3>5
  <2>4. Len(F) > 0
    BY <1>4, <1>5
  <2> QED
    BY <2>3, <2>4
<1>9. Len(F) > 0
  BY <1>4, <1>5
<1> QED
  BY <1>2, <1>6, <1>7, <1>8, <1>9 DEF Timed

LEMMA VideoKeepsTimes ==
  ASSUME FilesInv, Timed, NEW key \in BOOLEAN, NEW step \in Nat, OnVideo(key, step)
  PROVE  Timed'
<1>1. PICK f \in FrameOf("video", Headers) :
        /\ f.dts = clock' /\ clock' = clock + step /\ clock' \in Nat /\ DashOnVideo(f)
  BY VideoFrame
<1>2. clock <= clock'
  BY <1>1 DEF FilesInv
<1>3. UNCHANGED spoken
  BY DEF OnVideo
<1>4. PICK s : s = [samples_ EXCEPT !["video"] = Append(@, f)]
  OBVIOUS
<1>5. CASE f.key /\ LongEnough(s["video"])
  <2>1. Flush(s) /\ Reset(s)
    BY <1>1, <1>4, <1>5 DEF DashOnVideo
  <2> QED
    BY <1>1, <1>2, <1>3, <1>4, <1>5, <2>1, FlushKeepsTimes
<1>6. CASE ~(f.key /\ LongEnough(s["video"]))
  <2>1. samples_' = s /\ UNCHANGED <<m4s_, mpd_info_>>
    BY <1>1, <1>4, <1>6 DEF DashOnVideo
  <2> QED
    BY <1>1, <1>2, <1>3, <1>4, <2>1, CollectKeepsTimes
<1> QED
  BY <1>5, <1>6

LEMMA AudioKeepsTimes ==
  ASSUME FilesInv, Timed, OnAudio
  PROVE  Timed'
<1>1. PICK f \in FrameOf("audio", Headers) : f.dts = clock /\ DashOnAudio(f)
  BY AudioFrame
<1>2. PICK A : A = samples_["audio"]
  OBVIOUS
<1>3. PICK F : F = samples_'["audio"]
  OBVIOUS
<1>4. PICK S : S = FrameOf("audio", Headers)
  OBVIOUS
<1>5. /\ A \in Seq(S) /\ f \in S /\ F = Append(A, f) /\ Len(A) \in Nat
      /\ samples_'["video"] = samples_["video"]
      /\ UNCHANGED <<m4s_, mpd_info_>>
  <2>1. DOMAIN samples_ = Tracks
    BY DEF FilesInv
  <2>2. samples_' = [samples_ EXCEPT !["audio"] = Append(@, f)] /\ UNCHANGED <<m4s_, mpd_info_>>
    BY <1>1 DEF DashOnAudio
  <2> QED
    BY <1>1, <1>2, <1>3, <1>4, <2>1, <2>2, VideoTimes, TheTracks, LenProperties
<1>6. /\ Len(F) = Len(A) + 1 /\ F[Len(A) + 1] = f /\ (Len(A) > 0 => F[1] = A[1])
      /\ \A i \in 1..Len(A) : F[i] = A[i]
  BY <1>5, FirstStays, AppendProperties
<1>7. /\ spoken' = clock /\ clock' = clock /\ clock \in Int /\ spoken \in Int
      /\ spoken < clock
  BY DEF OnAudio, Timed, FilesInv
<1>8. Rising(F, spoken')
  <2> SUFFICES ASSUME NEW j \in 1..(Len(A) + 1)
               PROVE  F[j].dts <= clock /\ \A i \in 1..(j - 1) : F[i].dts < F[j].dts
    BY <1>6, <1>7 DEF Rising
  <2>1. \A i \in 1..Len(A) :
          /\ F[i].dts \in Int /\ F[i].dts <= spoken
          /\ \A h \in 1..(i - 1) : F[h].dts < F[i].dts
    <3> SUFFICES ASSUME NEW i \in 1..Len(A)
                 PROVE  /\ F[i].dts \in Int /\ F[i].dts <= spoken
                        /\ \A h \in 1..(i - 1) : F[h].dts < F[i].dts
      OBVIOUS
    <3>1. A[i].dts \in Int /\ Rising(A, spoken)
      BY <1>2, VideoTimes, TheTracks DEF Timed
    <3>2. \A h \in 1..(i - 1) : F[h] = A[h]
      BY <1>5, <1>6
    <3> QED
      BY <1>6, <3>1, <3>2 DEF Rising
  <2>2. CASE j \in 1..Len(A)
    <3>1. PICK x : x = F[j].dts
      OBVIOUS
    <3>2. x \in Int /\ x <= spoken
      BY <2>1, <2>2, <3>1
    <3>3. x <= clock
      BY <1>7, <3>2
    <3> QED
      BY <2>1, <2>2, <3>1, <3>3
  <2>3. CASE j = Len(A) + 1
    <3>1. F[j].dts = clock
      BY <1>1, <1>6, <2>3
    <3>2. ASSUME NEW i \in 1..(j - 1) PROVE F[i].dts < clock
      <4>1. PICK x : x = F[i].dts
        OBVIOUS
      <4>2. x \in Int /\ x <= spoken
        BY <1>5, <2>1, <2>3, <4>1
      <4>3. x < clock
        BY <1>7, <4>2
      <4> QED
        BY <4>1, <4>3
    <3> QED
      BY <1>7, <3>1, <3>2
  <2> QED
    BY <1>5, <2>2, <2>3
<1>9. PICK b : b = samples_["video"][1].dts
  OBVIOUS
<1>10. ASSUME NEW t \in Tracks
       PROVE  /\ Len(mpd_info_[t]) > 0 => Len(samples_["video"]) > 0
              /\ Shifted(mpd_info_[t], m4s_[t], samples_'[t], b)
  <2>1. /\ mpd_info_[t] \in Seq(Marker)
        /\ Shifted(mpd_info_[t], m4s_[t], samples_[t], b)
    BY <1>9, SizesOfTidy DEF Timed
  <2>2. Len(mpd_info_[t]) > 0 =>
          samples_'[t][1].dts = samples_[t][1].dts /\ b \in Int /\ b <= b
    <3> SUFFICES ASSUME Len(mpd_info_[t]) > 0
                 PROVE  samples_'[t][1].dts = samples_[t][1].dts /\ b \in Int /\ b <= b
      OBVIOUS
    <3>1. b \in Int /\ Len(samples_[t]) > 0
      BY <1>9, VideoTimes
    <3>2. samples_'[t][1] = samples_[t][1]
      BY <1>2, <1>3, <1>5, <1>6, <3>1, TheTracks
    <3> QED
      BY <3>1, <3>2
  <2>3. Shifted(mpd_info_[t], m4s_[t], samples_'[t], b)
    BY <2>1, <2>2, ShiftedStays
  <2> QED
    BY <2>3 DEF Timed
<1>11. Len(samples_["video"]) > 0 => b <= clock
  BY <1>9 DEF Timed
<1>12. clock \in Int /\ clock <= clock
  BY <1>7
<1> QED
  BY <1>3, <1>5, <1>7, <1>8, <1>9, <1>10, <1>11, <1>12 DEF Timed

LEMMA NothingIsTimed ==
  /\ \A frames, flushed : Shifted(<< >>, << >>, frames, flushed)
  /\ \A last : Rising(<< >>, last)
  /\ ~(Len(<< >>) > 0) /\ -1 \in Int /\ -1 <= 0
<1>1. Len(<< >>) = 0 /\ DOMAIN << >> = {}
  OBVIOUS
<1> QED
  BY <1>1 DEF Shifted, Rising

LEMMA NextKeepsTimes ==
  ASSUME FilesInv, TimesInv, [Next]_vars
  PROVE  TimesInv'
<1> SUFFICES ASSUME ~setBack' PROVE Timed'
  BY DEF TimesInv
<1>0. CASE SetClockBack
  BY <1>0 DEF SetClockBack
<1>1. ASSUME ~SetClockBack PROVE setBack' = setBack
  <2>1. CASE UNCHANGED vars
    BY <2>1 DEF vars, environment
  <2>2. CASE Next
    BY <1>1, <2>2, Zenon DEF Next, OnVideo, OnAudio, OnHeader, Leave, Return, GetMpd, GetM4s
  <2> QED
    BY <2>1, <2>2
<1>2. ASSUME ~SetClockBack PROVE Timed
  BY <1>1, <1>2 DEF TimesInv
<1>3. CASE ~SetClockBack
  <2> USE <1>2, <1>3
  <2>1. CASE OnVideo(FALSE, 1)
    BY <2>1, VideoKeepsTimes
  <2>2. ASSUME NEW step \in Steps, OnVideo(TRUE, step) PROVE Timed'
    <3>1. step \in Nat
      BY StepsAssumption
    <3> QED
      BY <2>2, <3>1, VideoKeepsTimes
  <2>3. CASE OnAudio
    BY <2>3, AudioKeepsTimes
  <2>4. ASSUME NEW t \in Tracks, OnHeader(t) PROVE Timed'
    <3>1. UNCHANGED <<samples_, m4s_, mpd_info_, clock, spoken>>
      BY <2>4, Zenon DEF OnHeader, DashOnHeader
    <3> QED
      BY <3>1 DEF Timed
  <2>5. CASE Leave
    <3>1. \A t \in Tracks : samples_'[t] = << >> /\ m4s_'[t] = << >> /\ mpd_info_'[t] = << >>
      BY <2>5 DEF Leave, DashNew, Each
    <3>2. clock' = 0 /\ spoken' = -1
      BY <2>5 DEF Leave
    <3> QED
      BY <3>1, <3>2, NothingIsTimed, TheTracks DEF Timed
  <2>6. CASE Return \/ GetMpd \/ GetM4s \/ UNCHANGED vars
    <3>1. UNCHANGED <<samples_, m4s_, mpd_info_, clock, spoken>>
      BY <2>6 DEF Return, GetMpd, GetM4s, vars, dashVars, environment
    <3> QED
      BY <3>1 DEF Timed
  <2> QED
    BY <2>1, <2>2, <2>3, <2>4, <2>5, <2>6 DEF Next
<1> QED
  BY <1>0, <1>3

LEMMA InitTimes ==
  ASSUME Init
  PROVE  TimesInv
<1>1. \A t \in Tracks : samples_[t] = << >> /\ m4s_[t] = << >> /\ mpd_info_[t] = << >>
  BY DEF Init, DashInit, Each
<1>2. clock = 0 /\ spoken = -1
  BY DEF Init
<1> QED
  BY <1>1, <1>2, NothingIsTimed, TheTracks DEF TimesInv, Timed

LEMMA HeldFollows ==
  ASSUME FilesInv, TimesInv
  PROVE  TimeShiftBufferHeld
<1> SUFFICES ASSUME ~setBack, NEW t \in Tracks, NEW i \in DOMAIN mpd_info_[t],
                    clock - (mpd_info_[t][i].start + mpd_info_[t][i].duration)
                      <= DASH_FRAGMENT_DURATION * DASH_CACHE * 2
             PROVE  /\ mpd_info_[t][i].start \in DOMAIN m4s_[t]
                    /\ m4s_[t][mpd_info_[t][i].start].number = i - 1
  BY DEF TimeShiftBufferHeld
<1>1. PICK infos : infos = mpd_info_[t]
  OBVIOUS
<1>2. PICK L : L = Len(infos)
  OBVIOUS
<1>3. PICK d : d = DASH_FRAGMENT_DURATION
  OBVIOUS
<1>4. PICK c : c = DASH_CACHE
  OBVIOUS
<1>5. PICK b : b = samples_["video"][1].dts
  OBVIOUS
<1>6. Timed
  BY DEF TimesInv
<1>7. infos \in Seq(Marker) /\ L \in Nat /\ i \in 1..L
  <2>1. infos \in Seq(Marker)
    BY <1>1, SizesOfTidy
  <2> QED
    BY <1>1, <1>2, <2>1, LenProperties
<1>8. d \in Nat /\ d > 0 /\ c \in Nat
  BY <1>3, <1>4, DashAssumption
<1>9. PICK e : e = infos[i].start + infos[i].duration
  OBVIOUS
<1>10. e \in Int
  <2>1. infos[i] \in Marker
    BY <1>2, <1>7, ElementOfSeq
  <2> QED
    BY <1>9, <2>1 DEF Marker
<1>11. b \in Int /\ b <= clock /\ clock \in Int
  <2>1. Len(infos) > 0
    BY <1>2, <1>7
  <2>2. Len(samples_["video"]) > 0 /\ b \in Int
    BY <1>1, <1>5, <1>6, <2>1, VideoTimes
  <2> QED
    BY <1>5, <1>6, <2>2 DEF Timed, FilesInv
<1>12. /\ e + (L - i) * d <= b
       /\ i >= L - c * 2 => /\ infos[i].start \in DOMAIN m4s_[t]
                            /\ m4s_[t][infos[i].start].number = i - 1
  <2>1. Shifted(infos, m4s_[t], samples_[t], b)
    BY <1>1, <1>5, <1>6 DEF Timed
  <2> QED
    BY <1>2, <1>3, <1>4, <1>7, <1>9, <2>1 DEF Shifted
<1>13. clock - e <= (d * c) * 2
  BY <1>1, <1>3, <1>4, <1>9
<1>14. i >= L - c * 2
  <2> SUFFICES ASSUME ~(i >= L - c * 2) PROVE FALSE
    OBVIOUS
  <2>1. PICK n : n = L - i
    OBVIOUS
  <2>2. n \in Int /\ n >= c * 2 + 1
    BY <1>7, <1>8, <2>1
  <2>3. n * d >= (c * 2 + 1) * d
    <3>1. PICK r : r = n - (c * 2 + 1)
      OBVIOUS
    <3>2. r \in Nat /\ n = (c * 2 + 1) + r
      BY <1>8, <2>2, <3>1
    <3>3. r * d >= 0
      BY <1>8, <3>2
    <3>4. n * d = (c * 2 + 1) * d + r * d
      BY <1>8, <3>2
    <3>5. (c * 2 + 1) * d \in Int /\ r * d \in Int
      BY <1>8, <3>2
    <3> QED
      BY <3>3, <3>4, <3>5
  <2>4. (c * 2 + 1) * d = (d * c) * 2 + d
    BY <1>8
  <2>5. PICK p : p = (d * c) * 2
    OBVIOUS
  <2>6. PICK q : q = n * d
    OBVIOUS
  <2>7. p \in Int /\ q \in Int /\ q >= p + d
    BY <1>8, <2>2, <2>3, <2>4, <2>5, <2>6
  <2>8. e + q <= b
    BY <1>12, <2>1, <2>6
  <2>9. clock - e <= p
    BY <1>13, <2>5
  <2> QED
    BY <1>8, <1>10, <1>11, <2>7, <2>8, <2>9
<1> QED
  BY <1>1, <1>12, <1>14

\* Whatever the length of segments and the number listed, the segments the MPD
\* promises are kept long enough.
THEOREM BufferHeld == Spec => []TimeShiftBufferHeld
<1>1. Init => FilesInv /\ TimesInv
  BY InitFiles, InitTimes
<1>2. (FilesInv /\ TimesInv) /\ [Next]_vars => (FilesInv /\ TimesInv)'
  BY NextKeepsFiles, NextKeepsTimes
<1>3. FilesInv /\ TimesInv => TimeShiftBufferHeld
  BY HeldFollows
<1> QED
  BY <1>1, <1>2, <1>3, PTL DEF Spec

-----------------------------------------------------------------------------
(* The tables of a file.                                                   *)

AnyFrame == FrameOf("video", {1, 2}) \cup FrameOf("audio", {1, 2})
Chunk == [track : Tracks, size : Int, count : Nat \ {0}]

\* P gives the bytes of the first frames.
Sums(P, data) ==
  /\ P[0] = 0
  /\ \A n \in 0..Len(data) : P[n] \in Nat
  /\ \A n \in 1..Len(data) : P[n] = P[n - 1] + Size(data[n])

\* p gives the chunks of track t among the first ones.
Picks(p, chunks, t) ==
  /\ p[0] = << >>
  /\ \A n \in 0..Len(chunks) : p[n] \in Seq(Chunk)
  /\ \A n \in 1..Len(chunks) :
       p[n] = IF chunks[n].track = t THEN Append(p[n - 1], chunks[n]) ELSE p[n - 1]

\* count frames of data from b on are those of S from a on.
Match(data, b, S, a, count) == \A j \in 0..(count - 1) : data[b + j] = S[a + j]

\* A chunk of count samples, from number a of S on, is in the data at b, and
\* its offset points there.
ChunkLaid(a, next, b, count, offset, S, data, P) ==
  /\ a \in Nat \ {0} /\ b \in Nat \ {0} /\ count \in Nat \ {0}
  /\ next = a + count
  /\ b + count <= Len(data) + 1 /\ a + count <= Len(S) + 1
  /\ offset = P[b - 1]
  /\ Match(data, b, S, a, count)

\* The chunks of T divide the samples S among them.
Laid(first, at, T, O, S, data, P) ==
  /\ first[1] = 1 /\ first[Len(T) + 1] = Len(S) + 1 /\ Len(O) = Len(T)
  /\ \A k \in 1..Len(T) :
       ChunkLaid(first[k], first[k + 1], at[k], T[k].count, O[k], S, data, P)

Distinct(data) == \A i, j \in 1..Len(data) : data[i] = data[j] => i = j

Counts(T) ==
  [i \in {i \in 1..Len(T) : i = 1 \/ T[i].count # T[i - 1].count} |-> T[i].count]

Sizes(S) == [i \in 1..Len(S) |-> Size(S[i])]
Offsets(O) == [i \in 1..Len(O) |-> O[i] + Preamble]

LEMMA SizeIsNat ==
  \A f : Size(f) \in Nat
BY DEF Size

LEMMA LengthsUpTo ==
  ASSUME NEW P, NEW data \in Seq(AnyFrame), Sums(P, data), NEW m \in 0..Len(data)
  PROVE  SizeOf(SubSeq(data, 1, m)) = P[m]
<1>1. PICK s : s = SubSeq(data, 1, m)
  OBVIOUS
<1>2. m \in Int /\ m \in Nat /\ Len(data) \in Nat /\ \A i \in 1..m : i \in 1..Len(data)
  BY LenProperties
<1>3. s \in Seq(AnyFrame) /\ Len(s) = m /\ \A i \in 1..m : s[i] = data[i]
  <2>1. \A i \in 1..m : data[i] \in AnyFrame
    BY <1>2, ElementOfSeq
  <2>2. /\ s \in Seq(AnyFrame) /\ Len(s) = (IF 1 <= m THEN m - 1 + 1 ELSE 0)
        /\ \A i \in 1..(m - 1 + 1) : s[i] = data[1 + i - 1]
    BY <1>1, <1>2, <2>1, SubSeqProperties
  <2> QED
    BY <1>2, <2>2
<1>4. PICK z : z = [i \in DOMAIN s |-> Size(s[i])]
  OBVIOUS
<1>5. DOMAIN s = 1..m /\ z \in Seq(Nat) /\ Len(z) = m
  BY <1>2, <1>3, <1>4, SizeIsNat
<1>6. \A n \in 1..Len(z) : P[n] = P[n - 1] + z[n]
  BY <1>2, <1>3, <1>4, <1>5 DEF Sums
<1>7. Total(z) = P[Len(z)]
  BY <1>2, <1>5, <1>6, TotalIs DEF Sums
<1> QED
  BY <1>1, <1>4, <1>5, <1>7 DEF SizeOf

LEMMA WhereIs ==
  ASSUME NEW P, NEW data \in Seq(AnyFrame), Sums(P, data), Distinct(data),
         NEW n \in 1..Len(data)
  PROVE  Where(data, data[n]) = Preamble + P[n - 1]
<1>1. DOMAIN data = 1..Len(data) /\ Len(data) \in Nat
  BY LenProperties
<1>2. PICK c : c = CHOOSE i \in DOMAIN data : data[i] = data[n]
  OBVIOUS
<1>3. c \in 1..Len(data) /\ data[c] = data[n]
  BY <1>1, <1>2
<1>4. c = n
  BY <1>3 DEF Distinct
<1>5. n - 1 \in 0..Len(data)
  BY <1>1
<1>6. SizeOf(SubSeq(data, 1, n - 1)) = P[n - 1]
  BY <1>5, LengthsUpTo
<1> QED
  BY <1>2, <1>4, <1>6 DEF Where

\* A sum over some samples of a chunk.
LEMMA FoundIs ==
  ASSUME NEW P, NEW data \in Seq(AnyFrame), Sums(P, data),
         NEW S \in Seq(AnyFrame), NEW first \in Nat \ {0}, NEW at \in Nat \ {0},
         NEW j \in Nat, at + j <= Len(data) + 1, first + j <= Len(S) + 1,
         Match(data, at, S, first, j),
         NEW sizes, sizes = Sizes(S)
  PROVE  Total(SubSeq(sizes, first, first + j - 1)) = P[at + j - 1] - P[at - 1]
<1>1. PICK s : s = SubSeq(sizes, first, first + j - 1)
  OBVIOUS
<1>2. PICK L : L = Len(S)
  OBVIOUS
<1>3. PICK D : D = Len(data)
  OBVIOUS
<1>4. L \in Nat /\ D \in Nat
  BY <1>2, <1>3, LenProperties
<1>5. \A i \in first..(first + j - 1) : i \in 1..L /\ sizes[i] = Size(S[i])
  BY <1>2, <1>4 DEF Sizes
<1>6. /\ Len(s) = j
      /\ \A n \in 1..j : s[n] = sizes[first + n - 1]
  <2>1. \A i \in first..(first + j - 1) : sizes[i] \in Nat
    BY <1>5, SizeIsNat
  <2>2. PICK m : m = first + j - 1
    OBVIOUS
  <2>3. m \in Int /\ first \in Int
    BY <2>2
  <2>4. /\ Len(s) = (IF first <= m THEN m - first + 1 ELSE 0)
        /\ \A i \in 1..(m - first + 1) : s[i] = sizes[first + i - 1]
    BY <1>1, <2>1, <2>2, <2>3, SubSeqProperties
  <2>5. m - first + 1 = j /\ (first <= m <=> j > 0)
    BY <2>2
  <2>6. Len(s) = j
    BY <2>4, <2>5
  <2>7. \A i \in 1..j : s[i] = sizes[first + i - 1]
    BY <2>4, <2>5
  <2> QED
    BY <2>6, <2>7
<1>7. PICK b : b = P[at - 1]
  OBVIOUS
<1>8. PICK g : g = [n \in 0..j |-> P[at - 1 + n] - b]
  OBVIOUS
<1>9. \A n \in 0..j : at - 1 + n \in 0..D /\ P[at - 1 + n] \in Nat
  <2> TAKE n \in 0..j
  <2>1. at - 1 + n \in 0..D
    BY <1>3, <1>4
  <2> QED
    BY <1>3, <2>1 DEF Sums
<1>10. b \in Nat
  <2>1. 0 \in 0..j /\ at - 1 + 0 = at - 1
    OBVIOUS
  <2> QED
    BY <1>7, <1>9, <2>1
<1>11. g[0] = 0
  <2>1. 0 \in 0..j /\ at - 1 + 0 = at - 1
    OBVIOUS
  <2> QED
    BY <1>7, <1>8, <1>10, <2>1
<1>12. ASSUME NEW n \in 1..j PROVE g[n] = g[n - 1] + s[n]
  <2>1. n \in 0..j /\ n - 1 \in 0..j /\ n - 1 \in 0..(j - 1)
    OBVIOUS
  <2>2. at - 1 + n \in 1..D /\ (at - 1 + n) - 1 = at - 1 + (n - 1)
    <3>1. at + j <= D + 1
      BY <1>3
    <3>2. at \in Nat /\ at >= 1 /\ n \in Nat /\ n >= 1 /\ n <= j
      OBVIOUS
    <3>3. at - 1 + n >= 1 /\ at - 1 + n <= D
      BY <1>4, <3>1, <3>2
    <3>4. (at - 1 + n) - 1 = at - 1 + (n - 1)
      BY <3>2
    <3> QED
      BY <1>4, <3>2, <3>3, <3>4
  <2>3. P[at - 1 + n] = P[at - 1 + (n - 1)] + Size(data[at - 1 + n])
    BY <1>3, <2>2 DEF Sums
  <2>4. s[n] = Size(data[at - 1 + n])
    <3>1. data[at + (n - 1)] = S[first + (n - 1)]
      BY <2>1 DEF Match
    <3>2. at + (n - 1) = at - 1 + n /\ first + (n - 1) = first + n - 1
          /\ first + n - 1 \in first..(first + j - 1)
      OBVIOUS
    <3> QED
      BY <1>5, <1>6, <3>1, <3>2
  <2>5. PICK x : x = P[at - 1 + (n - 1)]
    OBVIOUS
  <2>6. PICK y : y = P[at - 1 + n]
    OBVIOUS
  <2>7. x \in Nat /\ y \in Nat /\ s[n] \in Nat /\ y = x + s[n]
    BY <1>9, <2>1, <2>3, <2>4, <2>5, <2>6, SizeIsNat
  <2>8. g[n] = y - b /\ g[n - 1] = x - b
    BY <1>8, <2>1, <2>5, <2>6
  <2>9. PICK z : z = s[n]
    OBVIOUS
  <2>10. y - b = (x - b) + z
    <3>1. x \in Nat /\ z \in Nat /\ y = x + z
      BY <2>7, <2>9
    <3> QED
      BY <1>10, <3>1
  <2> QED
    BY <2>8, <2>9, <2>10
<1>13. Total(s) = g[j]
  <2>1. Len(s) \in Nat /\ \A n \in 1..Len(s) : g[n] = g[n - 1] + s[n]
    BY <1>6, <1>12
  <2> QED
    BY <1>6, <1>11, <2>1, TotalIs
<1>14. g[j] = P[at + j - 1] - b /\ P[at + j - 1] \in Nat
  <2>1. j \in 0..j /\ at - 1 + j = at + j - 1
    OBVIOUS
  <2> QED
    BY <1>8, <1>9, <2>1
<1> QED
  BY <1>1, <1>7, <1>10, <1>13, <1>14

LEMMA GreatestOf ==
  ASSUME NEW k \in Nat, NEW T, T \subseteq 1..k, T # {}
  PROVE  \E m \in T : \A n \in T : n <= m
<1> DEFINE U == {k - n : n \in T}
<1>1. U \subseteq Nat /\ U # {}
  <2>1. \A n \in T : n \in 1..k /\ k - n \in Nat
    OBVIOUS
  <2>2. PICK n \in T : TRUE
    OBVIOUS
  <2>3. k - n \in U
    OBVIOUS
  <2> QED
    BY <2>1, <2>3
<1>2. PICK u \in U : \A v \in U : u <= v
  <2> HIDE DEF U
  <2> QED
    BY <1>1, LeastOf
<1>3. PICK m \in T : u = k - m
  BY <1>2
<1>4. \A n \in T : n \in Int /\ k - n \in U
  OBVIOUS
<1>5. \A n \in T : k - m <= k - n
  BY <1>2, <1>3, <1>4
<1>6. \A n \in T : n <= m
  BY <1>4, <1>5
<1> QED
  BY <1>6

\* The table has an entry only where the count changes, and it is read so.
LEMMA PerChunkIs ==
  ASSUME NEW T \in Seq(Chunk), NEW table,
         table.stsc = Counts(T),
         NEW k \in 1..Len(T)
  PROVE  PerChunk(table, k) = T[k].count
<1>1. PICK N : N = {i \in 1..Len(T) : i = 1 \/ T[i].count # T[i - 1].count}
  OBVIOUS
<1>2. PICK E : E = {i \in DOMAIN table.stsc : i <= k}
  OBVIOUS
<1>3. Len(T) \in Nat /\ k \in Nat
  BY LenProperties
<1>4. E = {i \in N : i <= k} /\ E \subseteq 1..k /\ 1 \in E
  <2>1. table.stsc = [i \in N |-> T[i].count]
    BY <1>1 DEF Counts
  <2> QED
    BY <1>1, <1>2, <1>3, <2>1
<1>5. PICK m \in E : \A j \in E : j <= m
  BY <1>3, <1>4, GreatestOf
<1>6. m = CHOOSE i \in E : \A j \in E : j <= i
  <2>1. PICK c : c = CHOOSE i \in E : \A j \in E : j <= i
    OBVIOUS
  <2>2. c \in E /\ \A j \in E : j <= c
    BY <1>5, <2>1
  <2>3. c <= m /\ m <= c /\ c \in Int /\ m \in Int
    BY <1>4, <1>5, <2>2
  <2> QED
    BY <2>1, <2>3
<1>7. PerChunk(table, k) = T[m].count
  <2>1. PerChunk(table, k) = table.stsc[m]
    BY <1>2, <1>6 DEF PerChunk
  <2>2. m \in N
    BY <1>4
  <2>3. table.stsc = [i \in N |-> T[i].count]
    BY <1>1 DEF Counts
  <2> QED
    BY <2>1, <2>2, <2>3
<1>8. \A i \in m..k : T[i].count = T[m].count
  <2> SUFFICES ASSUME NEW x \in m..k, T[x].count # T[m].count PROVE FALSE
    OBVIOUS
  <2> DEFINE W == {i \in m..k : T[i].count # T[m].count}
  <2>1. m \in 1..k
    BY <1>4
  <2>2. W \subseteq Nat /\ W # {}
    BY <2>1
  <2>3. PICK w \in W : \A i \in W : w <= i
    <3> HIDE DEF W
    <3> QED
      BY <2>2, LeastOf
  <2>4. w # m /\ w \in m..k /\ T[w].count # T[m].count
    BY <2>3
  <2>5. w - 1 \in m..k /\ ~(w <= w - 1) /\ w \in 1..Len(T) /\ w <= k /\ ~(w <= m)
    BY <1>3, <2>1, <2>4
  <2>6. w - 1 \notin W
    BY <2>3, <2>5
  <2>7. T[w - 1].count = T[m].count
    BY <2>5, <2>6
  <2>8. w \in N
    BY <1>1, <2>4, <2>5, <2>7
  <2>9. w \in E
    BY <1>4, <2>5, <2>8
  <2> QED
    BY <1>5, <2>5, <2>9
<1>9. k \in m..k
  BY <1>3, <1>4
<1> QED
  BY <1>7, <1>8, <1>9

Placed(P, data, S, a, b, c, k, table) ==
  /\ a \in Nat \ {0} /\ b \in Nat \ {0} /\ c \in Nat \ {0}
  /\ b + c <= Len(data) + 1 /\ a + c <= Len(S) + 1
  /\ Match(data, b, S, a, c)
  /\ table.stsz = Sizes(S) /\ table.stco[k] = P[b - 1] + Preamble
  /\ FirstSample(table, k) = a

\* Sample a + j is the one at b + j in the data.
LEMMA FoundWhere ==
  ASSUME NEW P, NEW data \in Seq(AnyFrame), Sums(P, data), Distinct(data),
         NEW S \in Seq(AnyFrame), NEW a, NEW b, NEW c, NEW k, NEW table,
         Placed(P, data, S, a, b, c, k, table), NEW j \in 0..(c - 1)
  PROVE  Found(table, k, a + j) = Where(data, S[a + j])
<1>0. /\ a \in Nat \ {0} /\ b \in Nat \ {0} /\ c \in Nat \ {0}
      /\ b + c <= Len(data) + 1 /\ a + c <= Len(S) + 1
      /\ Match(data, b, S, a, c)
      /\ table.stsz = Sizes(S) /\ table.stco[k] = P[b - 1] + Preamble
      /\ FirstSample(table, k) = a
  BY DEF Placed
<1>1. PICK D : D = Len(data)
  OBVIOUS
<1>2. PICK L : L = Len(S)
  OBVIOUS
<1>3. D \in Nat /\ L \in Nat /\ b + c <= D + 1 /\ a + c <= L + 1 /\ j \in Nat /\ j <= c - 1
      /\ a \in Nat /\ a >= 1 /\ b \in Nat /\ b >= 1 /\ c \in Nat
  BY <1>0, <1>1, <1>2, LenProperties
<1>4. PICK x : x = Total(SubSeq(table.stsz, a, a + j - 1))
  OBVIOUS
<1>5. PICK u : u = P[b - 1]
  OBVIOUS
<1>6. PICK v : v = P[b + j - 1]
  OBVIOUS
<1>7. x = v - u
  <2>1. b + j <= D + 1 /\ a + j <= L + 1
    BY <1>3
  <2>2. Match(data, b, S, a, j)
    <3>1. \A h \in 0..(j - 1) : h \in 0..(c - 1)
      BY <1>0, <1>3
    <3> QED
      BY <1>0, <3>1 DEF Match
  <2>3. PICK z : z = table.stsz
    OBVIOUS
  <2>4. z = Sizes(S)
    BY <1>0, <2>3
  <2>5. Total(SubSeq(z, a, a + j - 1)) = P[b + j - 1] - P[b - 1]
    BY <1>0, <1>1, <1>2, <1>3, <2>1, <2>2, <2>4, FoundIs
  <2> QED
    BY <1>0, <1>4, <1>5, <1>6, <2>3, <2>5
<1>8. Found(table, k, a + j) = (u + Preamble) + x
  <2>1. PICK i : i = a + j
    OBVIOUS
  <2>2. Found(table, k, i) = table.stco[k] + Total(SubSeq(table.stsz, a, i - 1))
    BY <1>0 DEF Found
  <2> QED
    BY <1>0, <1>4, <1>5, <2>1, <2>2
<1>9. Where(data, S[a + j]) = Preamble + v
  <2>1. PICK n : n = b + j
    OBVIOUS
  <2>2. n \in 1..D /\ n - 1 = b + j - 1
    BY <1>3, <2>1
  <2>3. data[n] = S[a + j]
    BY <1>0, <2>1 DEF Match
  <2>4. Where(data, data[n]) = Preamble + P[n - 1]
    BY <1>0, <1>1, <2>2, WhereIs
  <2> QED
    BY <1>0, <1>6, <2>2, <2>3, <2>4
<1>10. u \in Nat /\ v \in Nat
  <2>1. b - 1 \in 0..D /\ b + j - 1 \in 0..D
    BY <1>3
  <2> QED
    BY <1>0, <1>1, <1>5, <1>6, <2>1 DEF Sums
<1>11. (u + Preamble) + x = Preamble + v
  BY <1>0, <1>7, <1>10, PreambleAssumption
<1> QED
  BY <1>0, <1>8, <1>9, <1>11

\* What the tables say is where the frames are.
LEMMA TablesSay ==
  ASSUME NEW P, NEW data \in Seq(AnyFrame), Sums(P, data), Distinct(data),
         NEW S \in Seq(AnyFrame), NEW T \in Seq(Chunk), NEW O,
         NEW first, NEW at, Laid(first, at, T, O, S, data, P),
         NEW table,
         table.stsc = Counts(T),
         table.stsz = Sizes(S), table.stco = Offsets(O),
         table.samples = S
  PROVE  Addressable(data, table)
<1>1. PICK L : L = Len(T)
  OBVIOUS
<1>2. L \in Nat /\ Len(S) \in Nat /\ Len(data) \in Nat /\ Len(O) = L
  BY <1>1, LenProperties DEF Laid, ChunkLaid
<1>3. \A k \in 1..L : T[k].count \in Nat \ {0}
  <2> TAKE k \in 1..L
  <2>1. T[k] \in Chunk
    BY <1>1, ElementOfSeq
  <2> QED
    BY <2>1 DEF Chunk
<1>4. ASSUME NEW k \in 1..(L + 1) PROVE first[k] \in Nat /\ FirstSample(table, k) = first[k]
  <2>1. PICK s : s = [j \in 1..(k - 1) |-> PerChunk(table, j)]
    OBVIOUS
  <2>2. k - 1 \in 0..L /\ k - 1 \in Nat
    BY <1>2
  <2>3. \A n \in 1..(k - 1) : s[n] = T[n].count /\ s[n] \in Nat
    <3> TAKE n \in 1..(k - 1)
    <3>1. n \in 1..L
      BY <1>2, <2>2
    <3> QED
      BY <1>1, <1>3, <2>1, <3>1, PerChunkIs
  <2>4. s \in Seq(Nat) /\ Len(s) = k - 1
    <3>1. s = [j \in 1..(k - 1) |-> s[j]]
      BY <2>1
    <3>2. s \in [1..(k - 1) -> Nat]
      BY <2>3, <3>1
    <3> QED
      BY <2>2, <3>2
  <2>5. \A n \in 1..(L + 1) : first[n] \in Nat
    <3> TAKE n \in 1..(L + 1)
    <3>1. CASE n \in 1..L
      BY <1>1, <3>1 DEF Laid, ChunkLaid
    <3>2. CASE n = L + 1
      BY <1>1, <1>2, <3>2 DEF Laid, ChunkLaid
    <3> QED
      BY <1>2, <3>1, <3>2
  <2>6. PICK g : g = [n \in 0..L |-> first[n + 1] - 1]
    OBVIOUS
  <2>7. g[0] = 0
    BY <1>2, <2>6 DEF Laid, ChunkLaid
  <2>8. \A n \in 1..(k - 1) : g[n] = g[n - 1] + s[n]
    <3> TAKE n \in 1..(k - 1)
    <3>1. n \in 1..L /\ n \in 0..L /\ n - 1 \in 0..L /\ n \in 1..(L + 1) /\ n + 1 \in 1..(L + 1)
      BY <1>2, <2>2
    <3>2. g[n] = first[n + 1] - 1 /\ g[n - 1] = first[n] - 1
      BY <2>6, <3>1
    <3>3. first[n + 1] = first[n] + T[n].count
      BY <1>1, <3>1 DEF Laid, ChunkLaid
    <3>4. PICK x : x = first[n]
      OBVIOUS
    <3>5. PICK c : c = s[n]
      OBVIOUS
    <3>6. x \in Nat /\ c \in Nat /\ g[n - 1] = x - 1 /\ g[n] = (x + c) - 1
      BY <2>3, <2>5, <3>1, <3>2, <3>3, <3>4, <3>5
    <3>7. PICK u : u = g[n - 1]
      OBVIOUS
    <3>8. g[n] = u + c
      BY <3>6, <3>7
    <3> QED
      BY <3>5, <3>7, <3>8
  <2>9. Total(s) = g[k - 1]
    <3>1. Len(s) \in Nat /\ \A n \in 1..Len(s) : g[n] = g[n - 1] + s[n]
      BY <2>2, <2>4, <2>8
    <3>2. Total(s) = g[Len(s)]
      BY <2>7, <3>1, TotalIs
    <3> QED
      BY <2>4, <3>2
  <2>10. g[k - 1] = first[k] - 1
    BY <1>2, <2>2, <2>6
  <2> QED
    BY <2>1, <2>5, <2>9, <2>10 DEF FirstSample
<1>5. /\ DOMAIN table.stco = 1..L /\ Len(table.stco) = L
  BY <1>2, LenProperties DEF Offsets
<1>6. FirstSample(table, Len(table.stco) + 1) = Len(table.samples) + 1
  <2>1. L + 1 \in 1..(L + 1)
    BY <1>2
  <2> QED
    BY <1>1, <1>4, <1>5, <2>1 DEF Laid, ChunkLaid
<1>8. ASSUME NEW k \in 1..L, NEW j \in 0..(T[k].count - 1)
      PROVE  Found(table, k, first[k] + j) = Where(data, S[first[k] + j])
  <2>1. PICK a : a = first[k]
    OBVIOUS
  <2>2. PICK c : c = T[k].count
    OBVIOUS
  <2>3. PICK b : b = at[k]
    OBVIOUS
  <2>4. /\ a \in Nat \ {0} /\ c \in Nat \ {0} /\ b \in Nat \ {0} /\ b + c <= Len(data) + 1
        /\ first[k + 1] = a + c /\ O[k] = P[b - 1]
        /\ Match(data, b, S, a, c) /\ a + c <= Len(S) + 1
    BY <1>1, <1>3, <2>1, <2>2, <2>3 DEF Laid, ChunkLaid
  <2>5. k \in 1..(L + 1) /\ k + 1 \in 1..(L + 1)
    BY <1>2
  <2>6. FirstSample(table, k) = a
    BY <1>4, <2>1, <2>5
  <2>8. table.stco[k] = P[b - 1] + Preamble
    BY <1>2, <2>4 DEF Offsets
  <2>9. j \in 0..(c - 1)
    BY <2>2
  <2>10. Placed(P, data, S, a, b, c, k, table)
    BY <2>4, <2>6, <2>8 DEF Placed
  <2>11. Found(table, k, a + j) = Where(data, S[a + j])
    BY <2>9, <2>10, FoundWhere
  <2> QED
    BY <2>1, <2>11
<1>9. ASSUME NEW k \in 1..L
      PROVE  FirstSample(table, k) = first[k] /\ FirstSample(table, k + 1) = first[k] + T[k].count
  <2>1. k \in 1..(L + 1) /\ k + 1 \in 1..(L + 1)
    BY <1>2
  <2>2. first[k + 1] = first[k] + T[k].count
    BY <1>1 DEF Laid, ChunkLaid
  <2> QED
    BY <1>4, <2>1, <2>2
<1>10. ASSUME NEW k \in 1..L, NEW i \in first[k]..((first[k] + T[k].count) - 1)
       PROVE  Found(table, k, i) = Where(data, table.samples[i])
  <2>1. PICK a : a = first[k]
    OBVIOUS
  <2>2. PICK c : c = T[k].count
    OBVIOUS
  <2>3. k \in 1..(L + 1)
    BY <1>2
  <2>4. a \in Nat /\ c \in Nat
    BY <1>3, <1>4, <2>1, <2>2, <2>3
  <2>5. i \in a..((a + c) - 1)
    BY <2>1, <2>2
  <2>6. i - a \in 0..(c - 1) /\ a + (i - a) = i
    BY <2>4, <2>5
  <2>7. PICK j : j = i - a
    OBVIOUS
  <2>8. Found(table, k, a + j) = Where(data, S[a + j])
    BY <1>8, <2>1, <2>2, <2>6, <2>7
  <2> QED
    BY <2>6, <2>7, <2>8
<1>11. ASSUME NEW k \in 1..L,
              NEW i \in FirstSample(table, k)..(FirstSample(table, k + 1) - 1)
       PROVE  Found(table, k, i) = Where(data, table.samples[i])
  <2>1. i \in first[k]..((first[k] + T[k].count) - 1)
    <3>1. FirstSample(table, k) = first[k] /\ FirstSample(table, k + 1) = first[k] + T[k].count
      BY <1>9
    <3> QED
      BY <1>11, <3>1, Zenon
  <2> QED
    BY <1>10, <2>1
<1> QED
  BY <1>5, <1>6, <1>11, Zenon DEF Addressable

-----------------------------------------------------------------------------
(* A frame more.                                                           *)

Grown(g, n, x) == [i \in Nat |-> IF i = n THEN x ELSE g[i]]

LEMMA GrownAt ==
  ASSUME NEW g, NEW n, NEW x, NEW i \in Nat
  PROVE  (i = n => Grown(g, n, x)[i] = x) /\ (i # n => Grown(g, n, x)[i] = g[i])
BY DEF Grown

Extends(longer, s) ==
  Len(s) <= Len(longer) /\ \A i \in 1..Len(s) : longer[i] = s[i]

LEMMA AppendExtends ==
  ASSUME NEW s \in Seq(AnyFrame), NEW f \in AnyFrame
  PROVE  /\ Append(s, f) \in Seq(AnyFrame) /\ Extends(Append(s, f), s) /\ Extends(s, s)
         /\ Len(Append(s, f)) = Len(s) + 1 /\ Append(s, f)[Len(s) + 1] = f
         /\ Len(s) \in Nat
<1>1. /\ Append(s, f) \in Seq(AnyFrame) /\ Len(Append(s, f)) = Len(s) + 1
      /\ Append(s, f)[Len(s) + 1] = f /\ Len(s) \in Nat
      /\ \A i \in 1..Len(s) : Append(s, f)[i] = s[i]
  BY AppendProperties, LenProperties
<1> QED
  BY <1>1 DEF Extends

LEMMA SumsGrow ==
  ASSUME NEW data \in Seq(AnyFrame), NEW P, Sums(P, data), NEW f \in AnyFrame
  PROVE  /\ P[Len(data)] + Size(f) \in Nat
         /\ Sums(Grown(P, Len(data) + 1, P[Len(data)] + Size(f)), Append(data, f))
         /\ \A i \in 0..Len(data) : Grown(P, Len(data) + 1, P[Len(data)] + Size(f))[i] = P[i]
<1>1. PICK D : D = Len(data)
  OBVIOUS
<1>2. PICK x : x = P[D] + Size(f)
  OBVIOUS
<1>3. PICK Q : Q = Grown(P, D + 1, x)
  OBVIOUS
<1>4. PICK e : e = Append(data, f)
  OBVIOUS
<1>5. D \in Nat /\ Len(e) = D + 1 /\ e[D + 1] = f /\ \A i \in 1..D : e[i] = data[i]
  BY <1>1, <1>4, AppendExtends DEF Extends
<1>6. \A n \in 0..D : P[n] \in Nat
  BY <1>1 DEF Sums
<1>7. x \in Nat
  <2>1. D \in 0..D
    BY <1>5
  <2> QED
    BY <1>2, <1>6, <2>1, SizeIsNat
<1>8. Q[D + 1] = x /\ \A i \in 0..D : Q[i] = P[i]
  <2>1. D + 1 \in Nat /\ \A i \in 0..D : i \in Nat /\ i # D + 1
    BY <1>5
  <2> QED
    BY <1>3, <2>1, GrownAt
<1>9. Sums(Q, e)
  <2>1. Q[0] = 0
    <3>1. 0 \in 0..D
      BY <1>5
    <3> QED
      BY <1>8, <3>1 DEF Sums
  <2>2. ASSUME NEW n \in 0..(D + 1) PROVE Q[n] \in Nat
    <3>1. n \in 0..D \/ n = D + 1
      BY <1>5
    <3> QED
      BY <1>6, <1>7, <1>8, <3>1
  <2>3. ASSUME NEW n \in 1..(D + 1) PROVE Q[n] = Q[n - 1] + Size(e[n])
    <3>1. CASE n = D + 1
      <4>1. n - 1 = D /\ D \in 0..D
        BY <1>5, <3>1
      <4>2. Q[n] = x /\ Q[n - 1] = P[D] /\ e[n] = f
        BY <1>5, <1>8, <3>1, <4>1
      <4> QED
        BY <1>2, <4>2
    <3>2. CASE n # D + 1
      <4>1. n \in 1..D /\ n \in 0..D /\ n - 1 \in 0..D
        BY <1>5, <3>2
      <4>2. Q[n] = P[n] /\ Q[n - 1] = P[n - 1] /\ e[n] = data[n]
        BY <1>5, <1>8, <4>1
      <4>3. P[n] = P[n - 1] + Size(data[n])
        BY <1>1, <4>1 DEF Sums
      <4> QED
        BY <4>2, <4>3
    <3> QED
      BY <3>1, <3>2
  <2> QED
    BY <1>5, <2>1, <2>2, <2>3 DEF Sums
<1> QED
  BY <1>1, <1>2, <1>3, <1>4, <1>7, <1>8, <1>9

LEMMA ChunkStays ==
  ASSUME NEW a, NEW next, NEW b, NEW c, NEW o,
         NEW S, NEW S2, Extends(S2, S), Len(S) \in Nat, Len(S2) \in Nat,
         NEW data, NEW data2, Extends(data2, data), Len(data) \in Nat, Len(data2) \in Nat,
         NEW P, NEW P2, \A i \in 0..Len(data) : P2[i] = P[i],
         ChunkLaid(a, next, b, c, o, S, data, P)
  PROVE  ChunkLaid(a, next, b, c, o, S2, data2, P2)
<1>1. /\ a \in Nat \ {0} /\ b \in Nat \ {0} /\ c \in Nat \ {0} /\ next = a + c
      /\ b + c <= Len(data) + 1 /\ a + c <= Len(S) + 1 /\ o = P[b - 1]
      /\ \A j \in 0..(c - 1) : data[b + j] = S[a + j]
  BY DEF ChunkLaid, Match
<1>2. PICK D : D = Len(data)
  OBVIOUS
<1>3. PICK L : L = Len(S)
  OBVIOUS
<1>4. a \in Nat /\ a >= 1 /\ b \in Nat /\ b >= 1 /\ c \in Nat /\ c >= 1
      /\ b + c <= D + 1 /\ a + c <= L + 1 /\ D \in Nat /\ L \in Nat
  BY <1>1, <1>2, <1>3
<1>5. b + c <= Len(data2) + 1 /\ a + c <= Len(S2) + 1
  BY <1>2, <1>3, <1>4 DEF Extends
<1>6. P2[b - 1] = P[b - 1]
  <2>1. b - 1 \in 0..D
    BY <1>4
  <2> QED
    BY <1>2, <2>1
<1>7. ASSUME NEW j \in 0..(c - 1) PROVE data2[b + j] = S2[a + j]
  <2>1. b + j \in 1..D /\ a + j \in 1..L
    BY <1>4
  <2>2. data2[b + j] = data[b + j] /\ S2[a + j] = S[a + j]
    BY <1>2, <1>3, <2>1 DEF Extends
  <2> QED
    BY <1>1, <2>2
<1> QED
  BY <1>1, <1>5, <1>6, <1>7 DEF ChunkLaid, Match

LEMMA LaidStays ==
  ASSUME NEW first, NEW at, NEW T, NEW O, NEW S, Len(S) \in Nat,
         NEW data, NEW data2, Extends(data2, data), Len(data) \in Nat, Len(data2) \in Nat,
         NEW P, NEW P2, \A i \in 0..Len(data) : P2[i] = P[i],
         Laid(first, at, T, O, S, data, P)
  PROVE  Laid(first, at, T, O, S, data2, P2)
<1>1. Extends(S, S)
  BY DEF Extends
<1>2. ASSUME NEW k \in 1..Len(T)
      PROVE  ChunkLaid(first[k], first[k + 1], at[k], T[k].count, O[k], S, data2, P2)
  <2>1. PICK a : a = first[k]
    OBVIOUS
  <2>2. PICK next : next = first[k + 1]
    OBVIOUS
  <2>3. PICK b : b = at[k]
    OBVIOUS
  <2>4. PICK c : c = T[k].count
    OBVIOUS
  <2>5. PICK o : o = O[k]
    OBVIOUS
  <2>6. ChunkLaid(a, next, b, c, o, S, data, P)
    BY <2>1, <2>2, <2>3, <2>4, <2>5 DEF Laid
  <2>7. ChunkLaid(a, next, b, c, o, S, data2, P2)
    BY <1>1, <2>6, ChunkStays
  <2> QED
    BY <2>1, <2>2, <2>3, <2>4, <2>5, <2>7
<1> QED
  BY <1>2 DEF Laid

\* The chunks of track t are laid, and one of them that is the last of all
\* ends where the data ends.
FiledBy(p, first, at, t, chunks, O, S, data, P) ==
  LET T == p[Len(chunks)]
  IN  /\ Picks(p, chunks, t)
      /\ Laid(first, at, T, O, S, data, P)
      /\ Len(chunks) > 0 /\ chunks[Len(chunks)].track = t =>
           at[Len(T)] + T[Len(T)].count = Len(data) + 1

Filed(t, chunks, O, S, data, P) ==
  \E p, first, at : FiledBy(p, first, at, t, chunks, O, S, data, P)

\* A chunk of one frame more.
LEMMA LaidNew ==
  ASSUME NEW first, NEW at, NEW T \in Seq(Chunk), NEW O \in Seq(Nat), NEW S \in Seq(AnyFrame),
         NEW data \in Seq(AnyFrame), NEW P, Sums(P, data),
         Laid(first, at, T, O, S, data, P),
         NEW f \in AnyFrame, NEW P2, \A i \in 0..Len(data) : P2[i] = P[i],
         NEW c \in Chunk, c.count = 1
  PROVE  Laid(Grown(first, Len(T) + 2, Len(S) + 2), Grown(at, Len(T) + 1, Len(data) + 1),
              Append(T, c), Append(O, P[Len(data)]), Append(S, f), Append(data, f), P2)
<1>1. PICK N : N = Len(T)
  OBVIOUS
<1>2. PICK D : D = Len(data)
  OBVIOUS
<1>3. PICK L : L = Len(S)
  OBVIOUS
<1>4. PICK first2 : first2 = Grown(first, N + 2, L + 2)
  OBVIOUS
<1>5. PICK at2 : at2 = Grown(at, N + 1, D + 1)
  OBVIOUS
<1>6. PICK T2 : T2 = Append(T, c)
  OBVIOUS
<1>7. PICK O2 : O2 = Append(O, P[D])
  OBVIOUS
<1>8. PICK S2 : S2 = Append(S, f)
  OBVIOUS
<1>9. PICK data2 : data2 = Append(data, f)
  OBVIOUS
<1>10. N \in Nat /\ D \in Nat /\ L \in Nat
  BY <1>1, <1>2, <1>3, LenProperties
<1>11. Len(T2) = N + 1 /\ T2[N + 1] = c /\ \A k \in 1..N : T2[k] = T[k]
  BY <1>1, <1>6, AppendProperties
<1>12. Len(O2) = N + 1 /\ O2[N + 1] = P[D] /\ \A k \in 1..N : O2[k] = O[k]
  <2>1. P[D] \in Nat
    <3>1. D \in 0..D
      BY <1>10
    <3> QED
      BY <1>2, <3>1 DEF Sums
  <2>2. Len(O) = N
    BY <1>1 DEF Laid
  <2> QED
    BY <1>7, <2>1, <2>2, AppendProperties
<1>13. /\ Extends(S2, S) /\ Len(S2) = L + 1 /\ S2[L + 1] = f
       /\ Extends(data2, data) /\ Len(data2) = D + 1 /\ data2[D + 1] = f
       /\ Len(S) \in Nat /\ Len(S2) \in Nat /\ Len(data) \in Nat /\ Len(data2) \in Nat
  <2>1. Extends(S2, S) /\ Len(S2) = L + 1 /\ S2[L + 1] = f
    BY <1>3, <1>8, AppendExtends
  <2>2. Extends(data2, data) /\ Len(data2) = D + 1 /\ data2[D + 1] = f
    BY <1>2, <1>9, AppendExtends
  <2> QED
    BY <1>2, <1>3, <1>10, <2>1, <2>2
<1>14. /\ first2[N + 2] = L + 2 /\ \A k \in 1..(N + 1) : first2[k] = first[k]
       /\ at2[N + 1] = D + 1 /\ \A k \in 1..N : at2[k] = at[k]
  <2>1. N + 2 \in Nat /\ N + 1 \in Nat
    BY <1>10
  <2>2. \A k \in 1..(N + 1) : k \in Nat /\ k # N + 2
    BY <1>10
  <2>3. \A k \in 1..N : k \in Nat /\ k # N + 1
    BY <1>10
  <2> QED
    BY <1>4, <1>5, <2>1, <2>2, <2>3, GrownAt
<1>15. first[1] = 1 /\ first[N + 1] = L + 1
  BY <1>1, <1>3 DEF Laid
<1>16. ASSUME NEW k \in 1..(N + 1)
       PROVE  ChunkLaid(first2[k], first2[k + 1], at2[k], T2[k].count, O2[k], S2, data2, P2)
  <2>1. CASE k \in 1..N
    <3>1. k \in 1..(N + 1) /\ k + 1 \in 1..(N + 1)
      BY <1>10, <2>1
    <3>2. PICK a : a = first[k]
      OBVIOUS
    <3>3. PICK next : next = first[k + 1]
      OBVIOUS
    <3>4. PICK b : b = at[k]
      OBVIOUS
    <3>5. PICK n : n = T[k].count
      OBVIOUS
    <3>6. PICK o : o = O[k]
      OBVIOUS
    <3>7. ChunkLaid(a, next, b, n, o, S, data, P)
      BY <1>1, <2>1, <3>2, <3>3, <3>4, <3>5, <3>6 DEF Laid
    <3>8. ChunkLaid(a, next, b, n, o, S2, data2, P2)
      BY <1>2, <1>13, <3>7, ChunkStays
    <3> QED
      BY <1>11, <1>12, <1>14, <2>1, <3>1, <3>2, <3>3, <3>4, <3>5, <3>6, <3>8
  <2>2. CASE k = N + 1
    <3>1. first2[k] = L + 1 /\ first2[k + 1] = L + 2 /\ at2[k] = D + 1
          /\ T2[k].count = 1 /\ O2[k] = P[D]
      <4>1. N + 1 \in 1..(N + 1) /\ (N + 1) + 1 = N + 2
        BY <1>10
      <4> QED
        BY <1>11, <1>12, <1>14, <1>15, <2>2, <4>1
    <3>2. P2[(D + 1) - 1] = P[D]
      <4>1. (D + 1) - 1 = D /\ D \in 0..D
        BY <1>10
      <4> QED
        BY <1>2, <4>1
    <3>3. Match(data2, D + 1, S2, L + 1, 1)
      <4>1. \A j \in 0..(1 - 1) : j = 0
        OBVIOUS
      <4>2. (D + 1) + 0 = D + 1 /\ (L + 1) + 0 = L + 1
        BY <1>10
      <4> QED
        BY <1>13, <4>1, <4>2 DEF Match
    <3>4. ChunkLaid(L + 1, L + 2, D + 1, 1, P[D], S2, data2, P2)
      BY <1>10, <1>13, <3>2, <3>3 DEF ChunkLaid
    <3> QED
      BY <3>1, <3>4
  <2> QED
    BY <1>10, <2>1, <2>2
<1>17. first2[1] = 1 /\ first2[Len(T2) + 1] = Len(S2) + 1
  <2>1. 1 \in 1..(N + 1) /\ (N + 1) + 1 = N + 2 /\ (L + 1) + 1 = L + 2
    BY <1>10
  <2> QED
    BY <1>11, <1>13, <1>14, <1>15, <2>1
<1>18. Laid(first2, at2, T2, O2, S2, data2, P2)
  BY <1>11, <1>12, <1>16, <1>17 DEF Laid
<1> QED
  BY <1>1, <1>2, <1>3, <1>4, <1>5, <1>6, <1>7, <1>8, <1>9, <1>18

\* The last chunk takes a frame more.
LastGrows(q, c, c2, T, at, D) ==
  /\ c2.count = c.count + 1 /\ T = Append(q, c)
  /\ at[Len(T)] + T[Len(T)].count = D + 1

Agree(P2, P, D) == \A i \in 0..D : P2[i] = P[i]

LastEnds(at, T2, c, N, D) ==
  at[N] + c.count = D + 1 /\ Len(T2) = N /\ T2[N] = c

LEMMA LaidMore ==
  ASSUME NEW first, NEW at, NEW q \in Seq(Chunk), NEW c \in Chunk, NEW c2 \in Chunk,
         NEW T,
         NEW O, NEW S \in Seq(AnyFrame), NEW data \in Seq(AnyFrame), NEW P,
         Laid(first, at, T, O, S, data, P),
         LastGrows(q, c, c2, T, at, Len(data)),
         NEW f \in AnyFrame, NEW P2, Agree(P2, P, Len(data))
  PROVE  /\ Laid(Grown(first, Len(T) + 1, Len(S) + 2), at, Append(q, c2), O,
                 Append(S, f), Append(data, f), P2)
         /\ LastEnds(at, Append(q, c2), c2, Len(T), Len(Append(data, f)))
<1>0. /\ c2.count = c.count + 1 /\ T = Append(q, c)
      /\ at[Len(T)] + T[Len(T)].count = Len(data) + 1
      /\ \A i \in 0..Len(data) : P2[i] = P[i]
  BY DEF LastGrows, Agree
<1>1. PICK N : N = Len(T)
  OBVIOUS
<1>2. PICK D : D = Len(data)
  OBVIOUS
<1>3. PICK L : L = Len(S)
  OBVIOUS
<1>4. PICK first2 : first2 = Grown(first, N + 1, L + 2)
  OBVIOUS
<1>5. PICK T2 : T2 = Append(q, c2)
  OBVIOUS
<1>6. PICK S2 : S2 = Append(S, f)
  OBVIOUS
<1>7. PICK data2 : data2 = Append(data, f)
  OBVIOUS
<1>8. /\ N \in Nat /\ N >= 1 /\ Len(T2) = N /\ T2[N] = c2 /\ T[N] = c
      /\ \A k \in 1..(N - 1) : T2[k] = T[k]
  <2>1. PICK M : M = Len(q)
    OBVIOUS
  <2>2. M \in Nat /\ Len(T) = M + 1 /\ T[M + 1] = c /\ \A k \in 1..M : T[k] = q[k]
    BY <1>0, <2>1, AppendProperties, LenProperties
  <2>3. Len(T2) = M + 1 /\ T2[M + 1] = c2 /\ \A k \in 1..M : T2[k] = q[k]
    BY <1>0, <1>5, <2>1, AppendProperties
  <2>4. N = M + 1 /\ N - 1 = M
    BY <1>0, <1>1, <2>2
  <2>5. \A k \in 1..(N - 1) : T2[k] = T[k]
    BY <2>2, <2>3, <2>4
  <2> QED
    BY <2>2, <2>3, <2>4, <2>5
<1>9. D \in Nat /\ L \in Nat
  BY <1>0, <1>2, <1>3, LenProperties
<1>10. /\ Extends(S2, S) /\ Len(S2) = L + 1 /\ S2[L + 1] = f
       /\ Extends(data2, data) /\ Len(data2) = D + 1 /\ data2[D + 1] = f
       /\ Len(S) \in Nat /\ Len(S2) \in Nat /\ Len(data) \in Nat /\ Len(data2) \in Nat
  <2>1. Extends(S2, S) /\ Len(S2) = L + 1 /\ S2[L + 1] = f
    BY <1>0, <1>3, <1>6, AppendExtends
  <2>2. Extends(data2, data) /\ Len(data2) = D + 1 /\ data2[D + 1] = f
    BY <1>0, <1>2, <1>7, AppendExtends
  <2> QED
    BY <1>0, <1>2, <1>3, <1>9, <2>1, <2>2
<1>11. first2[N + 1] = L + 2 /\ \A k \in 1..N : first2[k] = first[k]
  <2>1. N + 1 \in Nat /\ \A k \in 1..N : k \in Nat /\ k # N + 1
    BY <1>0, <1>8
  <2> QED
    BY <1>0, <1>4, <2>1, GrownAt
<1>12. first[1] = 1 /\ first[N + 1] = L + 1 /\ Len(O) = N
  BY <1>0, <1>1, <1>3 DEF Laid
<1>13. PICK a : a = first[N]
  OBVIOUS
<1>14. PICK b : b = at[N]
  OBVIOUS
<1>15. PICK n : n = c.count
  OBVIOUS
<1>16. PICK o : o = O[N]
  OBVIOUS
<1>17. ChunkLaid(a, L + 1, b, n, o, S, data, P) /\ b + n = D + 1
  <2>1. N \in 1..Len(T)
    BY <1>0, <1>1, <1>8
  <2> QED
    BY <1>0, <1>1, <1>2, <1>8, <1>12, <1>13, <1>14, <1>15, <1>16, <2>1 DEF Laid
<1>18. ChunkLaid(a, L + 1, b, n, o, S2, data2, P2)
  BY <1>0, <1>2, <1>10, <1>17, ChunkStays
<1>19. ChunkLaid(a, L + 2, b, n + 1, o, S2, data2, P2)
  <2>1. /\ a \in Nat \ {0} /\ b \in Nat \ {0} /\ n \in Nat \ {0} /\ L + 1 = a + n
        /\ o = P2[b - 1] /\ Match(data2, b, S2, a, n)
    BY <1>0, <1>18 DEF ChunkLaid
  <2>2. n + 1 \in Nat \ {0} /\ L + 2 = a + (n + 1) /\ b + (n + 1) <= (D + 1) + 1
        /\ a + (n + 1) <= (L + 1) + 1
    BY <1>0, <1>9, <1>17, <2>1
  <2>3. ASSUME NEW j \in 0..((n + 1) - 1) PROVE data2[b + j] = S2[a + j]
    <3>1. CASE j = n
      BY <1>0, <1>10, <1>17, <2>1, <3>1
    <3>2. CASE j # n
      <4>1. j \in 0..(n - 1)
        BY <2>1, <3>2
      <4> QED
        BY <2>1, <4>1 DEF Match
    <3> QED
      BY <3>1, <3>2
  <2> QED
    BY <1>0, <1>10, <2>1, <2>2, <2>3 DEF ChunkLaid, Match
<1>20. ASSUME NEW k \in 1..N
       PROVE  ChunkLaid(first2[k], first2[k + 1], at[k], T2[k].count, O[k], S2, data2, P2)
  <2>1. CASE k = N
    <3>1. N \in 1..N
      BY <1>0, <1>8
    <3>2. first2[k] = a /\ first2[k + 1] = L + 2 /\ at[k] = b /\ T2[k].count = n + 1 /\ O[k] = o
      BY <1>0, <1>8, <1>11, <1>13, <1>14, <1>15, <1>16, <2>1, <3>1
    <3> QED
      BY <1>0, <1>19, <3>2
  <2>2. CASE k # N
    <3>1. k \in 1..(N - 1) /\ k \in 1..N /\ k + 1 \in 1..N
      BY <1>0, <1>8, <2>2
    <3>2. PICK a1 : a1 = first[k]
      OBVIOUS
    <3>3. PICK next : next = first[k + 1]
      OBVIOUS
    <3>4. PICK b1 : b1 = at[k]
      OBVIOUS
    <3>5. PICK n1 : n1 = T[k].count
      OBVIOUS
    <3>6. PICK o1 : o1 = O[k]
      OBVIOUS
    <3>7. ChunkLaid(a1, next, b1, n1, o1, S, data, P)
      BY <1>0, <1>1, <3>1, <3>2, <3>3, <3>4, <3>5, <3>6 DEF Laid
    <3>8. ChunkLaid(a1, next, b1, n1, o1, S2, data2, P2)
      BY <1>0, <1>2, <1>10, <3>7, ChunkStays
    <3> QED
      BY <1>0, <1>8, <1>11, <3>1, <3>2, <3>3, <3>4, <3>5, <3>6, <3>8
  <2> QED
    BY <2>1, <2>2
<1>21. first2[1] = 1 /\ first2[N + 1] = (L + 1) + 1
  <2>1. 1 \in 1..N /\ (L + 1) + 1 = L + 2
    BY <1>0, <1>8, <1>9
  <2> QED
    BY <1>0, <1>11, <1>12, <2>1
<1>22. Laid(first2, at, T2, O, S2, data2, P2)
  BY <1>0, <1>8, <1>10, <1>12, <1>20, <1>21 DEF Laid
<1>23. b + c2.count = (D + 1) + 1
  <2>1. n \in Nat /\ b \in Nat
    BY <1>0, <1>17 DEF ChunkLaid
  <2>2. PICK m : m = c2.count
    OBVIOUS
  <2>3. m = n + 1
    BY <1>0, <1>15, <2>2
  <2>4. b + m = (D + 1) + 1
    BY <1>0, <1>9, <1>17, <2>1, <2>3
  <2> QED
    BY <2>2, <2>4
<1>24. LastEnds(at, T2, c2, N, Len(data2))
  BY <1>8, <1>10, <1>14, <1>23 DEF LastEnds
<1> QED
  BY <1>1, <1>3, <1>4, <1>5, <1>6, <1>7, <1>22, <1>24

\* What has been picked of the chunks is a sequence of chunks.
LEMMA PickedIs ==
  ASSUME NEW chunks \in Seq(Chunk), NEW t, NEW p, Picks(p, chunks, t)
  PROVE  /\ p[Len(chunks)] \in Seq(Chunk)
         /\ Len(chunks) > 0 /\ chunks[Len(chunks)].track = t =>
              /\ p[Len(chunks) - 1] \in Seq(Chunk)
              /\ p[Len(chunks)] = Append(p[Len(chunks) - 1], chunks[Len(chunks)])
<1>1. PICK L : L = Len(chunks)
  OBVIOUS
<1>2. L \in Nat /\ L \in 0..L /\ (L > 0 => L \in 1..L /\ L - 1 \in 0..L)
  BY <1>1, LenProperties
<1> QED
  BY <1>1, <1>2 DEF Picks

\* x is appended to s, when it is of track t.
Put(s, x, t, of) == IF of = t THEN Append(s, x) ELSE s

Becomes(was, x, t, T, T2) == T = was /\ T2 = Put(T, x, t, x.track)

\* One chunk more.
LEMMA PicksNew ==
  ASSUME NEW chunks \in Seq(Chunk), NEW t, NEW p, Picks(p, chunks, t), NEW c \in Chunk,
         NEW T, NEW T2, Becomes(p[Len(chunks)], c, t, T, T2)
  PROVE  /\ Picks(Grown(p, Len(chunks) + 1, T2), Append(chunks, c), t)
         /\ Grown(p, Len(chunks) + 1, T2)[Len(Append(chunks, c))] = T2
         /\ Append(chunks, c) \in Seq(Chunk) /\ Len(Append(chunks, c)) > 0
         /\ Append(chunks, c)[Len(Append(chunks, c))] = c
<1>0. T = p[Len(chunks)] /\ T2 = Put(T, c, t, c.track)
  BY DEF Becomes
<1>1. PICK L : L = Len(chunks)
  OBVIOUS
<1>2. PICK p2 : p2 = Grown(p, L + 1, T2)
  OBVIOUS
<1>3. PICK e : e = Append(chunks, c)
  OBVIOUS
<1>4. /\ L \in Nat /\ e \in Seq(Chunk) /\ Len(e) = L + 1 /\ e[L + 1] = c
      /\ \A i \in 1..L : e[i] = chunks[i]
  BY <1>1, <1>3, AppendProperties, LenProperties
<1>5. p2[L + 1] = T2 /\ \A i \in 0..L : p2[i] = p[i]
  <2>1. L + 1 \in Nat /\ \A i \in 0..L : i \in Nat /\ i # L + 1
    BY <1>4
  <2> QED
    BY <1>2, <2>1, GrownAt
<1>6. T2 \in Seq(Chunk)
  <2>1. p[L] \in Seq(Chunk)
    BY <1>1, PickedIs
  <2>2. Append(T, c) \in Seq(Chunk) /\ T \in Seq(Chunk)
    BY <1>0, <1>1, <2>1, AppendProperties
  <2> QED
    BY <1>0, <2>1, <2>2 DEF Put
<1>7. p2[0] = << >>
  <2>1. 0 \in 0..L
    BY <1>4
  <2> QED
    BY <1>5, <2>1 DEF Picks
<1>8. ASSUME NEW n \in 0..(L + 1) PROVE p2[n] \in Seq(Chunk)
  <2>1. n \in 0..L \/ n = L + 1
    BY <1>4
  <2> QED
    BY <1>1, <1>5, <1>6, <2>1 DEF Picks
<1>9. ASSUME NEW n \in 1..(L + 1)
      PROVE  p2[n] = IF e[n].track = t THEN Append(p2[n - 1], e[n]) ELSE p2[n - 1]
  <2>1. CASE n = L + 1
    <3>1. n - 1 = L /\ L \in 0..L
      BY <1>4, <2>1
    <3>2. p2[n] = T2 /\ p2[n - 1] = p[L] /\ e[n] = c
      BY <1>4, <1>5, <2>1, <3>1
    <3> QED
      BY <1>0, <1>1, <3>2 DEF Put
  <2>2. CASE n # L + 1
    <3>1. n \in 1..L /\ n \in 0..L /\ n - 1 \in 0..L
      BY <1>4, <2>2
    <3>2. p2[n] = p[n] /\ p2[n - 1] = p[n - 1] /\ e[n] = chunks[n]
      BY <1>4, <1>5, <3>1
    <3>3. p[n] = IF chunks[n].track = t THEN Append(p[n - 1], chunks[n]) ELSE p[n - 1]
      BY <1>1, <3>1 DEF Picks
    <3> QED
      BY <3>2, <3>3
  <2> QED
    BY <2>1, <2>2
<1>10. Picks(p2, e, t)
  BY <1>4, <1>7, <1>8, <1>9 DEF Picks
<1>11. p2[Len(e)] = T2 /\ Len(e) > 0 /\ e[Len(e)] = c
  BY <1>4, <1>5
<1> QED
  BY <1>1, <1>2, <1>3, <1>4, <1>10, <1>11

LastChanges(chunks, p, c, t, chunks2, q, T, T2) ==
  /\ Len(chunks) > 0 /\ c.track = chunks[Len(chunks)].track
  /\ chunks2 = [chunks EXCEPT ![Len(chunks)] = c]
  /\ q = p[Len(chunks) - 1] /\ T = p[Len(chunks)]
  /\ T2 = IF c.track = t THEN Append(q, c) ELSE T

\* Another last chunk, of the same track.
LEMMA PicksMore ==
  ASSUME NEW chunks \in Seq(Chunk), NEW t, NEW p, Picks(p, chunks, t),
         NEW c \in Chunk, NEW chunks2, NEW q, NEW T, NEW T2,
         LastChanges(chunks, p, c, t, chunks2, q, T, T2)
  PROVE  /\ Picks(Grown(p, Len(chunks), T2), chunks2, t)
         /\ Grown(p, Len(chunks), T2)[Len(chunks2)] = T2
         /\ chunks2 \in Seq(Chunk) /\ Len(chunks2) = Len(chunks)
         /\ chunks2[Len(chunks2)] = c
<1>0. /\ Len(chunks) > 0 /\ c.track = chunks[Len(chunks)].track
      /\ chunks2 = [chunks EXCEPT ![Len(chunks)] = c]
      /\ q = p[Len(chunks) - 1] /\ T = p[Len(chunks)]
      /\ T2 = IF c.track = t THEN Append(q, c) ELSE T
  BY DEF LastChanges
<1>1. PICK L : L = Len(chunks)
  OBVIOUS
<1>2. PICK p2 : p2 = Grown(p, L, T2)
  OBVIOUS
<1>3. L \in Nat /\ L >= 1 /\ L \in 1..L /\ L - 1 \in 0..L /\ L \in 0..L
  BY <1>0, <1>1, LenProperties
<1>4. /\ chunks2 \in Seq(Chunk) /\ Len(chunks2) = L /\ chunks2[L] = c
      /\ \A i \in 1..(L - 1) : chunks2[i] = chunks[i]
  <2>1. chunks2 \in Seq(Chunk) /\ Len(chunks2) = L
    BY <1>0, <1>1, <1>3, ExceptSeq
  <2>2. DOMAIN chunks = 1..L
    BY <1>0, <1>1, LenProperties
  <2>3. chunks2[L] = c
    BY <1>0, <1>1, <1>3, <2>2
  <2>4. ASSUME NEW i \in 1..(L - 1) PROVE chunks2[i] = chunks[i]
    <3>1. i \in 1..L /\ i # L
      BY <1>0, <1>3
    <3> QED
      BY <1>0, <1>1, <2>2, <3>1
  <2> QED
    BY <2>1, <2>3, <2>4
<1>5. p2[L] = T2 /\ \A i \in 0..(L - 1) : p2[i] = p[i]
  <2>1. \A i \in 0..(L - 1) : i \in Nat /\ i # L
    BY <1>0, <1>3
  <2> QED
    BY <1>0, <1>2, <1>3, <2>1, GrownAt
<1>6. T2 \in Seq(Chunk)
  <2>1. p[L] \in Seq(Chunk) /\ p[L - 1] \in Seq(Chunk)
    BY <1>0, <1>1, <1>3 DEF Picks
  <2>2. Append(q, c) \in Seq(Chunk)
    BY <1>0, <1>1, <2>1, AppendProperties
  <2> QED
    BY <1>0, <1>1, <2>1, <2>2 DEF Put
<1>7. p2[0] = << >>
  <2>1. 0 \in 0..(L - 1)
    BY <1>0, <1>3
  <2> QED
    BY <1>0, <1>5, <2>1 DEF Picks
<1>8. ASSUME NEW n \in 0..L PROVE p2[n] \in Seq(Chunk)
  <2>1. n \in 0..(L - 1) \/ n = L
    BY <1>0, <1>3
  <2> QED
    BY <1>0, <1>1, <1>5, <1>6, <2>1 DEF Picks
<1>9. ASSUME NEW n \in 1..L
      PROVE  p2[n] = IF chunks2[n].track = t THEN Append(p2[n - 1], chunks2[n]) ELSE p2[n - 1]
  <2>1. CASE n = L
    <3>1. L - 1 \in 0..(L - 1)
      BY <1>0, <1>3
    <3>2. p2[n] = T2 /\ p2[n - 1] = p[L - 1] /\ chunks2[n] = c
      BY <1>0, <1>4, <1>5, <2>1, <3>1
    <3>3. c.track # t => T2 = p[L - 1]
      BY <1>0, <1>1, <1>3 DEF Picks
    <3> QED
      BY <1>0, <1>1, <3>2, <3>3
  <2>2. CASE n # L
    <3>1. n \in 1..(L - 1) /\ n \in 0..(L - 1) /\ n - 1 \in 0..(L - 1)
      BY <1>0, <1>3, <2>2
    <3>2. p2[n] = p[n] /\ p2[n - 1] = p[n - 1] /\ chunks2[n] = chunks[n]
      BY <1>0, <1>4, <1>5, <3>1
    <3>3. p[n] = IF chunks[n].track = t THEN Append(p[n - 1], chunks[n]) ELSE p[n - 1]
      BY <1>0, <1>1 DEF Picks
    <3> QED
      BY <3>2, <3>3
  <2> QED
    BY <2>1, <2>2
<1>10. Picks(p2, chunks2, t)
  BY <1>0, <1>4, <1>7, <1>8, <1>9 DEF Picks
<1> QED
  BY <1>0, <1>1, <1>2, <1>4, <1>5, <1>10

\* The chunks of the two tracks when a chunk begins, and when the last goes on.
LEMMA FiledNew ==
  ASSUME NEW t, NEW chunks \in Seq(Chunk), NEW O \in Seq(Nat), NEW S \in Seq(AnyFrame),
         NEW data \in Seq(AnyFrame), NEW P, Sums(P, data),
         Filed(t, chunks, O, S, data, P),
         NEW f \in AnyFrame, NEW P2, \A i \in 0..Len(data) : P2[i] = P[i],
         NEW c \in Chunk, c.count = 1,
         NEW O2, O2 = Put(O, P[Len(data)], t, c.track),
         NEW S2, S2 = Put(S, f, t, c.track)
  PROVE  Filed(t, Append(chunks, c), O2, S2, Append(data, f), P2)
<1>1. PICK p, first, at : FiledBy(p, first, at, t, chunks, O, S, data, P)
  BY DEF Filed
<1>2. PICK T : T = p[Len(chunks)]
  OBVIOUS
<1>3. Picks(p, chunks, t) /\ Laid(first, at, T, O, S, data, P)
  BY <1>1, <1>2 DEF FiledBy
<1>4. T \in Seq(Chunk)
  BY <1>2, <1>3, PickedIs
<1>5. PICK T2 : T2 = Put(T, c, t, c.track)
  OBVIOUS
<1>6. PICK p2 : p2 = Grown(p, Len(chunks) + 1, T2)
  OBVIOUS
<1>7. PICK chunks2 : chunks2 = Append(chunks, c)
  OBVIOUS
<1>8. /\ Picks(p2, chunks2, t) /\ p2[Len(chunks2)] = T2
      /\ Len(chunks2) > 0 /\ chunks2[Len(chunks2)] = c
  <2>1. /\ Picks(Grown(p, Len(chunks) + 1, T2), Append(chunks, c), t)
        /\ Grown(p, Len(chunks) + 1, T2)[Len(Append(chunks, c))] = T2
        /\ Append(chunks, c) \in Seq(Chunk) /\ Len(Append(chunks, c)) > 0
        /\ Append(chunks, c)[Len(Append(chunks, c))] = c
    <3>1. Becomes(p[Len(chunks)], c, t, T, T2)
      BY <1>2, <1>5 DEF Becomes
    <3> QED
      BY <1>3, <3>1, PicksNew, Zenon
  <2> QED
    BY <2>1, <1>6, <1>7
<1>9. PICK data2 : data2 = Append(data, f)
  OBVIOUS
<1>10. /\ Extends(data2, data) /\ Len(data2) = Len(data) + 1
       /\ Len(data) \in Nat /\ Len(data2) \in Nat /\ Len(S) \in Nat
  <2>1. Len(data2) = Len(data) + 1 /\ Extends(data2, data) /\ Len(data) \in Nat
    BY <1>9, AppendExtends
  <2> QED
    BY <2>1, LenProperties
<1>11. CASE c.track = t
  <2>1. PICK first2 : first2 = Grown(first, Len(T) + 2, Len(S) + 2)
    OBVIOUS
  <2>2. PICK at2 : at2 = Grown(at, Len(T) + 1, Len(data) + 1)
    OBVIOUS
  <2>3. Laid(first2, at2, T2, O2, S2, data2, P2)
    BY <1>3, <1>4, <1>5, <1>9, <1>11, <2>1, <2>2, LaidNew DEF Put
  <2>4. Len(T2) = Len(T) + 1 /\ T2[Len(T) + 1] = c /\ Len(T) \in Nat
    BY <1>4, <1>5, <1>11, AppendProperties, LenProperties DEF Put
  <2>5. at2[Len(T) + 1] = Len(data) + 1
    <3>1. Len(T) + 1 \in Nat
      BY <2>4
    <3> QED
      BY <2>2, <3>1, GrownAt
  <2>6. at2[Len(T2)] + T2[Len(T2)].count = Len(data2) + 1
    BY <1>10, <2>4, <2>5
  <2>7. FiledBy(p2, first2, at2, t, chunks2, O2, S2, data2, P2)
    BY <1>8, <2>3, <2>6 DEF FiledBy
  <2> QED
    BY <1>7, <1>9, <2>7 DEF Filed
<1>12. CASE c.track # t
  <2>1. T2 = T /\ O2 = O /\ S2 = S
    BY <1>5, <1>12 DEF Put
  <2>2. Laid(first, at, T, O, S, data2, P2)
    BY <1>3, <1>10, LaidStays
  <2>3. FiledBy(p2, first, at, t, chunks2, O2, S2, data2, P2)
    BY <1>8, <1>12, <2>1, <2>2 DEF FiledBy
  <2> QED
    BY <1>7, <1>9, <2>3 DEF Filed
<1> QED
  BY <1>11, <1>12

LEMMA FiledMore ==
  ASSUME NEW t, NEW chunks \in Seq(Chunk), Len(chunks) > 0, NEW O, NEW S \in Seq(AnyFrame),
         NEW data \in Seq(AnyFrame), NEW P,
         Filed(t, chunks, O, S, data, P),
         NEW f \in AnyFrame, NEW P2, \A i \in 0..Len(data) : P2[i] = P[i],
         NEW c \in Chunk, c.track = chunks[Len(chunks)].track,
         c.count = chunks[Len(chunks)].count + 1,
         NEW S2, S2 = Put(S, f, t, c.track)
  PROVE  Filed(t, [chunks EXCEPT ![Len(chunks)] = c], O, S2, Append(data, f), P2)
<1>1. PICK p, first, at : FiledBy(p, first, at, t, chunks, O, S, data, P)
  BY DEF Filed
<1>2. PICK T : T = p[Len(chunks)]
  OBVIOUS
<1>3. PICK last : last = chunks[Len(chunks)]
  OBVIOUS
<1>4. /\ Picks(p, chunks, t) /\ Laid(first, at, T, O, S, data, P)
      /\ last.track = t => at[Len(T)] + T[Len(T)].count = Len(data) + 1
  BY <1>1, <1>2, <1>3 DEF FiledBy
<1>5. last \in Chunk
  <2>1. PICK L : L = Len(chunks)
    OBVIOUS
  <2>2. L \in 1..L
    BY <2>1, LenProperties
  <2> QED
    BY <1>3, <2>1, <2>2, ElementOfSeq
<1>6. PICK q : q = p[Len(chunks) - 1]
  OBVIOUS
<1>7. last.track = t => q \in Seq(Chunk) /\ T = Append(q, last)
  BY <1>2, <1>3, <1>4, <1>6, PickedIs
<1>8. PICK T2 : T2 = IF c.track = t THEN Append(q, c) ELSE T
  OBVIOUS
<1>9. PICK p2 : p2 = Grown(p, Len(chunks), T2)
  OBVIOUS
<1>10. PICK chunks2 : chunks2 = [chunks EXCEPT ![Len(chunks)] = c]
  OBVIOUS
<1>11. /\ Picks(p2, chunks2, t) /\ p2[Len(chunks2)] = T2
       /\ Len(chunks2) = Len(chunks) /\ chunks2[Len(chunks2)] = c
  <2>1. /\ Picks(Grown(p, Len(chunks), T2), chunks2, t)
        /\ Grown(p, Len(chunks), T2)[Len(chunks2)] = T2
        /\ chunks2 \in Seq(Chunk) /\ Len(chunks2) = Len(chunks)
        /\ chunks2[Len(chunks2)] = c
    <3>1. LastChanges(chunks, p, c, t, chunks2, q, T, T2)
      BY <1>2, <1>6, <1>8, <1>10 DEF LastChanges
    <3>2. Picks(p, chunks, t)
      BY <1>4
    <3> QED
      BY <3>1, <3>2, PicksMore
  <2> QED
    BY <2>1, <1>9
<1>12. PICK data2 : data2 = Append(data, f)
  OBVIOUS
<1>13. CASE c.track = t
  <2>1. PICK first2 : first2 = Grown(first, Len(T) + 1, Len(S) + 2)
    OBVIOUS
  <2>2. /\ Laid(first2, at, Append(q, c), O, Append(S, f), Append(data, f), P2)
        /\ at[Len(T)] + c.count = Len(Append(data, f)) + 1
        /\ Len(Append(q, c)) = Len(T) /\ Append(q, c)[Len(T)] = c
    <3>1. /\ q \in Seq(Chunk) /\ T = Append(q, last) /\ c.count = last.count + 1
          /\ at[Len(T)] + T[Len(T)].count = Len(data) + 1
      BY <1>3, <1>4, <1>7, <1>13
    <3>2. LastGrows(q, last, c, T, at, Len(data))
      BY <3>1 DEF LastGrows
    <3>3. q \in Seq(Chunk) /\ Laid(first, at, T, O, S, data, P)
      BY <1>4, <3>1
    <3>6. Agree(P2, P, Len(data))
      BY DEF Agree
    <3>4. Laid(Grown(first, Len(T) + 1, Len(S) + 2), at, Append(q, c), O,
               Append(S, f), Append(data, f), P2)
      BY <1>5, <3>2, <3>3, <3>6, LaidMore, ZenonT(30)
    <3>5. /\ at[Len(T)] + c.count = Len(Append(data, f)) + 1
          /\ Len(Append(q, c)) = Len(T) /\ Append(q, c)[Len(T)] = c
      <4>1. LastEnds(at, Append(q, c), c, Len(T), Len(Append(data, f)))
        BY <1>5, <3>2, <3>3, <3>6, LaidMore, ZenonT(30)
      <4> QED
        BY <4>1 DEF LastEnds
    <3> QED
      BY <2>1, <3>4, <3>5
  <2>3. FiledBy(p2, first2, at, t, chunks2, O, S2, data2, P2)
    BY <1>8, <1>11, <1>12, <1>13, <2>2 DEF FiledBy, Put
  <2> QED
    BY <1>10, <1>12, <2>3 DEF Filed
<1>14. CASE c.track # t
  <2>1. /\ Extends(data2, data)
        /\ Len(data) \in Nat /\ Len(data2) \in Nat /\ Len(S) \in Nat
    <3>1. Len(data2) = Len(data) + 1 /\ Extends(data2, data) /\ Len(data) \in Nat
      BY <1>12, AppendExtends
    <3> QED
      BY <3>1, LenProperties
  <2>2. Laid(first, at, T, O, S, data2, P2)
    BY <1>4, <2>1, LaidStays
  <2>3. FiledBy(p2, first, at, t, chunks2, O, S2, data2, P2)
    BY <1>8, <1>11, <1>14, <2>2 DEF FiledBy, Put
  <2> QED
    BY <1>10, <1>12, <2>3 DEF Filed
<1> QED
  BY <1>13, <1>14

\* Nothing is there yet.
LEMMA FiledNothing ==
  ASSUME NEW t, NEW P
  PROVE  Filed(t, << >>, << >>, << >>, << >>, P)
<1>1. PICK g : g = [i \in Nat |-> IF i = 0 THEN << >> ELSE 1]
  OBVIOUS
<1>2. g[0] = << >> /\ g[1] = 1
  BY <1>1
<1>3. Len(<< >>) = 0 /\ << >> \in Seq(Chunk) /\ 0..0 = {0} /\ 1..0 = {}
  OBVIOUS
<1>4. Picks(g, << >>, t)
  BY <1>2, <1>3 DEF Picks
<1>5. Laid(g, g, << >>, << >>, << >>, << >>, P)
  <2>1. g[0 + 1] = 0 + 1 /\ g[1] = 1
    BY <1>2
  <2> QED
    BY <1>3, <2>1 DEF Laid
<1>6. FiledBy(g, g, g, t, << >>, << >>, << >>, << >>, P)
  BY <1>2, <1>3, <1>4, <1>5 DEF FiledBy
<1> QED
  BY <1>6 DEF Filed

-----------------------------------------------------------------------------
(* The file a muxer is making.                                             *)

\* No frame is there twice: the last of each track has its count as number.
Numbered(data, count) ==
  /\ Distinct(data)
  /\ \A i \in 1..Len(data) : data[i].track \in Tracks /\ data[i].number <= count[data[i].track]

Typed(chunks, offset, offsets, samples, data, count) ==
  /\ chunks \in Seq(Chunk) /\ data \in Seq(AnyFrame) /\ offset \in Nat
  /\ DOMAIN samples = Tracks /\ DOMAIN offsets = Tracks
  /\ \A t \in Tracks : samples[t] \in Seq(AnyFrame) /\ offsets[t] \in Seq(Nat)
  /\ count \in [Tracks -> Nat] /\ Numbered(data, count)

\* What is in the data of the two tracks is what their tables will say, and the
\* last chunk ends where the data does.
AllFiled(chunks, offset, offsets, samples, data, P) ==
  /\ Sums(P, data) /\ Len(chunks) > 0
  /\ offset + chunks[Len(chunks)].size = P[Len(data)]
  /\ \A t \in Tracks :
       Filed(t, chunks, Put(offsets[t], offset, t, chunks[Len(chunks)].track),
             samples[t], data, P)

Building(chunks, offset, offsets, samples, data, count) ==
  /\ Typed(chunks, offset, offsets, samples, data, count)
  /\ \E P : AllFiled(chunks, offset, offsets, samples, data, P)

\* f is the next frame of its track.
IsNext(f, count, count2) ==
  /\ f \in AnyFrame /\ f.number = count[f.track] + 1
  /\ count2 = [count EXCEPT ![f.track] = @ + 1]

LEMMA FrameHas ==
  ASSUME NEW f \in AnyFrame
  PROVE  f.track \in Tracks /\ f.number \in Int
BY TheTracks DEF AnyFrame, FrameOf

LEMMA NumberedGrows ==
  ASSUME NEW data \in Seq(AnyFrame), NEW count \in [Tracks -> Nat], Numbered(data, count),
         NEW f, NEW count2, IsNext(f, count, count2)
  PROVE  Numbered(Append(data, f), count2) /\ count2 \in [Tracks -> Nat]
<1>1. f \in AnyFrame /\ f.track \in Tracks /\ f.number \in Int
  BY FrameHas DEF IsNext
<1>2. PICK u : u = f.track
  OBVIOUS
<1>3. /\ u \in Tracks /\ count2 = [count EXCEPT ![u] = @ + 1] /\ f.number = count[u] + 1
  BY <1>1, <1>2 DEF IsNext
<1>4. count2 \in [Tracks -> Nat] /\ count2[u] = count[u] + 1 /\ \A t \in Tracks : count[t] <= count2[t]
  <2>1. count[u] \in Nat
    BY <1>3
  <2>2. ASSUME NEW t \in Tracks PROVE count2[t] \in Nat /\ count[t] <= count2[t]
    BY <1>3, <2>1
  <2> QED
    BY <1>3, <2>1, <2>2
<1>5. PICK D : D = Len(data)
  OBVIOUS
<1>6. PICK e : e = Append(data, f)
  OBVIOUS
<1>7. /\ D \in Nat /\ Len(e) = D + 1 /\ e[D + 1] = f
      /\ \A i \in 1..D : e[i] = data[i]
  BY <1>1, <1>5, <1>6, AppendProperties, LenProperties
<1>8. ASSUME NEW i \in 1..D
      PROVE  /\ e[i].track \in Tracks /\ e[i].number <= count[e[i].track]
             /\ e[i].number <= count2[e[i].track] /\ e[i] # f
  <2>1. data[i] \in AnyFrame
    BY <1>5, ElementOfSeq
  <2>2. PICK x : x = data[i]
    OBVIOUS
  <2>3. PICK v : v = x.track
    OBVIOUS
  <2>4. v \in Tracks /\ x.number \in Int /\ x.number <= count[v]
    BY <1>5, <2>1, <2>2, <2>3, FrameHas DEF Numbered
  <2>5. count[v] \in Nat /\ count2[v] \in Nat /\ count[v] <= count2[v]
    BY <1>4, <2>4
  <2>6. x # f
    <3>1. CASE x = f
      <4>1. v = u
        BY <1>2, <2>3, <3>1
      <4> QED
        BY <1>3, <2>4, <2>5, <3>1, <4>1
    <3> QED
      BY <3>1
  <2>7. e[i] = x
    BY <1>7, <2>2
  <2>8. x.number <= count2[v]
    BY <2>4, <2>5
  <2> QED
    BY <2>3, <2>4, <2>6, <2>7, <2>8
<1>9. ASSUME NEW i \in 1..(D + 1), NEW j \in 1..(D + 1), e[i] = e[j] PROVE i = j
  <2>1. CASE i \in 1..D /\ j \in 1..D
    BY <1>5, <1>7, <1>9, <2>1 DEF Numbered, Distinct
  <2>2. CASE i = D + 1 /\ j \in 1..D
    BY <1>7, <1>8, <1>9, <2>2
  <2>3. CASE j = D + 1 /\ i \in 1..D
    BY <1>7, <1>8, <1>9, <2>3
  <2> QED
    BY <1>7, <2>1, <2>2, <2>3
<1>10. ASSUME NEW i \in 1..(D + 1)
       PROVE  e[i].track \in Tracks /\ e[i].number <= count2[e[i].track]
  <2>1. CASE i \in 1..D
    BY <1>8, <2>1
  <2>2. CASE i = D + 1
    <3>1. e[i] = f
      BY <1>7, <2>2
    <3>2. f.number <= count2[u]
      <4>1. PICK m : m = count2[u]
        OBVIOUS
      <4>2. f.number = m /\ m \in Nat
        BY <1>3, <1>4, <4>1
      <4> QED
        BY <4>1, <4>2
    <3> QED
      BY <1>2, <1>3, <3>1, <3>2
  <2> QED
    BY <1>7, <2>1, <2>2
<1> QED
  BY <1>4, <1>6, <1>7, <1>9, <1>10 DEF Numbered, Distinct

\* Facts about what is being built that the next frame needs.
LEMMA BuildingHas ==
  ASSUME NEW chunks, NEW offset, NEW offsets, NEW samples, NEW data, NEW count,
         Building(chunks, offset, offsets, samples, data, count)
  PROVE  /\ chunks \in Seq(Chunk) /\ data \in Seq(AnyFrame) /\ offset \in Nat
         /\ Len(chunks) \in Nat /\ Len(chunks) > 0 /\ chunks[Len(chunks)] \in Chunk
         /\ DOMAIN samples = Tracks /\ DOMAIN offsets = Tracks
         /\ \A t \in Tracks : samples[t] \in Seq(AnyFrame) /\ offsets[t] \in Seq(Nat)
         /\ count \in [Tracks -> Nat] /\ Numbered(data, count)
<1>1. /\ Typed(chunks, offset, offsets, samples, data, count)
      /\ Len(chunks) > 0
  BY DEF Building, AllFiled
<1>2. chunks \in Seq(Chunk)
  BY <1>1 DEF Typed
<1>3. PICK L : L = Len(chunks)
  OBVIOUS
<1>4. L \in Nat /\ L \in 1..L
  BY <1>1, <1>2, <1>3, LenProperties
<1>5. chunks[L] \in Chunk
  BY <1>2, <1>3, <1>4, ElementOfSeq
<1> QED
  BY <1>1, <1>2, <1>3, <1>4, <1>5 DEF Typed

\* The samples of a track once f has come.
LEMMA SamplesGrow ==
  ASSUME NEW samples, DOMAIN samples = Tracks, \A t \in Tracks : samples[t] \in Seq(AnyFrame),
         NEW f \in AnyFrame, NEW samples2,
         samples2 = [samples EXCEPT ![f.track] = Append(@, f)]
  PROVE  /\ DOMAIN samples2 = Tracks
         /\ \A t \in Tracks : /\ samples2[t] = Put(samples[t], f, t, f.track)
                              /\ samples2[t] \in Seq(AnyFrame)
<1>1. PICK u : u = f.track
  OBVIOUS
<1>2. u \in Tracks /\ samples2 = [samples EXCEPT ![u] = Append(@, f)]
  BY <1>1, FrameHas
<1>3. Append(samples[u], f) \in Seq(AnyFrame)
  BY <1>2, AppendProperties
<1>4. ASSUME NEW t \in Tracks
      PROVE  samples2[t] = Put(samples[t], f, t, u) /\ samples2[t] \in Seq(AnyFrame)
  BY <1>2, <1>3 DEF Put
<1> QED
  BY <1>1, <1>2, <1>4

\* What holds of a chunk that f begins, or goes on with.
Begins(c, f) == c \in Chunk /\ c.track = f.track /\ c.size = Size(f) /\ c.count = 1
Goes(c, last, f) ==
  /\ c \in Chunk /\ c.track = f.track /\ last.track = f.track
  /\ c.size = last.size + Size(f) /\ c.count = last.count + 1

\* The last chunk goes on.
LEMMA BuildMore ==
  ASSUME NEW chunks, NEW offset, NEW offsets, NEW samples, NEW data, NEW count,
         Building(chunks, offset, offsets, samples, data, count),
         NEW f, NEW count2, IsNext(f, count, count2),
         NEW c, Goes(c, chunks[Len(chunks)], f),
         NEW samples2, samples2 = [samples EXCEPT ![f.track] = Append(@, f)]
  PROVE  Building([chunks EXCEPT ![Len(chunks)] = c], offset, offsets, samples2,
                  Append(data, f), count2)
<1>1. f \in AnyFrame /\ f.track \in Tracks
  BY FrameHas DEF IsNext
<1>2. PICK L : L = Len(chunks)
  OBVIOUS
<1>3. PICK last : last = chunks[L]
  OBVIOUS
<1>4. PICK chunks2 : chunks2 = [chunks EXCEPT ![L] = c]
  OBVIOUS
<1>5. PICK data2 : data2 = Append(data, f)
  OBVIOUS
<1>6. /\ chunks \in Seq(Chunk) /\ data \in Seq(AnyFrame) /\ offset \in Nat
      /\ L \in Nat /\ L > 0 /\ last \in Chunk
      /\ DOMAIN samples = Tracks /\ DOMAIN offsets = Tracks
      /\ \A t \in Tracks : samples[t] \in Seq(AnyFrame) /\ offsets[t] \in Seq(Nat)
      /\ count \in [Tracks -> Nat] /\ Numbered(data, count)
  BY <1>2, <1>3, BuildingHas
<1>7. Goes(c, last, f) /\ c \in Chunk
  BY <1>2, <1>3 DEF Goes
<1>8. chunks2 \in Seq(Chunk) /\ Len(chunks2) = L /\ chunks2[L] = c
  <2>1. L \in 1..L
    BY <1>6
  <2>2. chunks2 \in Seq(Chunk) /\ Len(chunks2) = L
    BY <1>2, <1>4, <1>6, <1>7, <2>1, ExceptSeq
  <2>3. DOMAIN chunks = 1..L
    BY <1>2, <1>6, LenProperties
  <2> QED
    BY <1>4, <2>1, <2>2, <2>3
<1>9. Numbered(data2, count2) /\ count2 \in [Tracks -> Nat]
  BY <1>5, <1>6, NumberedGrows
<1>10. /\ data2 \in Seq(AnyFrame) /\ Len(data2) = Len(data) + 1 /\ Len(data) \in Nat
  BY <1>1, <1>5, <1>6, AppendExtends
<1>11. /\ DOMAIN samples2 = Tracks
       /\ \A t \in Tracks : /\ samples2[t] = Put(samples[t], f, t, f.track)
                            /\ samples2[t] \in Seq(AnyFrame)
  BY <1>1, <1>6, SamplesGrow
<1>12. Typed(chunks2, offset, offsets, samples2, data2, count2)
  BY <1>6, <1>8, <1>9, <1>10, <1>11 DEF Typed
<1>13. PICK P : AllFiled(chunks, offset, offsets, samples, data, P)
  BY DEF Building
<1>14. Sums(P, data) /\ offset + last.size = P[Len(data)]
  BY <1>2, <1>3, <1>13 DEF AllFiled
<1>15. PICK D : D = Len(data)
  OBVIOUS
<1>16. PICK x : x = P[D] + Size(f)
  OBVIOUS
<1>17. PICK P2 : P2 = Grown(P, D + 1, x)
  OBVIOUS
<1>18. Sums(P2, data2) /\ Agree(P2, P, D) /\ x \in Nat
  BY <1>1, <1>5, <1>6, <1>14, <1>15, <1>16, <1>17, SumsGrow DEF Agree
<1>19. offset + c.size = P2[Len(data2)]
  <2>1. P2[D + 1] = x
    <3>1. D + 1 \in Nat
      BY <1>10, <1>15
    <3> QED
      BY <1>17, <3>1, GrownAt
  <2>2. PICK a, b, z : a = last.size /\ b = Size(f) /\ z = c.size
    OBVIOUS
  <2>3. a \in Int /\ b \in Nat /\ z = a + b
    BY <1>6, <1>7, <2>2, SizeIsNat DEF Goes, Chunk
  <2>4. x = (offset + a) + b
    BY <1>14, <1>15, <1>16, <2>2
  <2>5. offset + z = x
    BY <1>6, <2>3, <2>4
  <2> QED
    BY <1>10, <1>15, <2>1, <2>2, <2>5
<1>20. ASSUME NEW t \in Tracks
       PROVE  Filed(t, chunks2, Put(offsets[t], offset, t, chunks2[Len(chunks2)].track),
                    samples2[t], data2, P2)
  <2>1. PICK S : S = samples[t]
    OBVIOUS
  <2>2. PICK O : O = Put(offsets[t], offset, t, last.track)
    OBVIOUS
  <2>3. PICK S2 : S2 = Put(S, f, t, c.track)
    OBVIOUS
  <2>4. Filed(t, chunks, O, S, data, P) /\ S \in Seq(AnyFrame)
    BY <1>2, <1>3, <1>6, <1>13, <2>1, <2>2 DEF AllFiled
  <2>5. \A i \in 0..Len(data) : P2[i] = P[i]
    BY <1>15, <1>18 DEF Agree
  <2>6. c.track = chunks[Len(chunks)].track /\ c.count = chunks[Len(chunks)].count + 1
    BY <1>2, <1>3, <1>7 DEF Goes
  <2>7. Filed(t, [chunks EXCEPT ![Len(chunks)] = c], O, S2, Append(data, f), P2)
    BY <1>1, <1>2, <1>6, <1>7, <2>3, <2>4, <2>5, <2>6, FiledMore
  <2>8. samples2[t] = S2 /\ chunks2[Len(chunks2)].track = last.track
    BY <1>7, <1>8, <1>11, <2>1, <2>3 DEF Goes
  <2> QED
    BY <1>2, <1>4, <1>5, <2>2, <2>7, <2>8
<1>21. AllFiled(chunks2, offset, offsets, samples2, data2, P2)
  BY <1>6, <1>8, <1>18, <1>19, <1>20 DEF AllFiled
<1> QED
  BY <1>2, <1>4, <1>5, <1>12, <1>21 DEF Building

\* Another chunk begins.
LEMMA BuildNew ==
  ASSUME NEW chunks, NEW offset, NEW offsets, NEW samples, NEW data, NEW count,
         Building(chunks, offset, offsets, samples, data, count),
         NEW f, NEW count2, IsNext(f, count, count2),
         NEW c, Begins(c, f),
         NEW last, last = chunks[Len(chunks)],
         NEW offsets2, offsets2 = [offsets EXCEPT ![last.track] = Append(@, offset)],
         NEW samples2, samples2 = [samples EXCEPT ![f.track] = Append(@, f)]
  PROVE  Building(Append(chunks, c), offset + last.size, offsets2, samples2,
                  Append(data, f), count2)
<1>1. f \in AnyFrame /\ f.track \in Tracks
  BY FrameHas DEF IsNext
<1>2. PICK L : L = Len(chunks)
  OBVIOUS
<1>3. PICK offset2 : offset2 = offset + last.size
  OBVIOUS
<1>4. PICK chunks2 : chunks2 = Append(chunks, c)
  OBVIOUS
<1>5. PICK data2 : data2 = Append(data, f)
  OBVIOUS
<1>6. /\ chunks \in Seq(Chunk) /\ data \in Seq(AnyFrame) /\ offset \in Nat
      /\ L \in Nat /\ L > 0 /\ last \in Chunk
      /\ DOMAIN samples = Tracks /\ DOMAIN offsets = Tracks
      /\ \A t \in Tracks : samples[t] \in Seq(AnyFrame) /\ offsets[t] \in Seq(Nat)
      /\ count \in [Tracks -> Nat] /\ Numbered(data, count)
  BY <1>2, BuildingHas
<1>7. c \in Chunk /\ c.track = f.track /\ c.size = Size(f) /\ c.count = 1
  BY DEF Begins
<1>8. chunks2 \in Seq(Chunk) /\ Len(chunks2) = L + 1 /\ chunks2[L + 1] = c
  BY <1>2, <1>4, <1>6, <1>7, AppendProperties
<1>9. Numbered(data2, count2) /\ count2 \in [Tracks -> Nat]
  BY <1>5, <1>6, NumberedGrows
<1>10. /\ data2 \in Seq(AnyFrame) /\ Len(data2) = Len(data) + 1 /\ Len(data) \in Nat
  BY <1>1, <1>5, <1>6, AppendExtends
<1>11. /\ DOMAIN samples2 = Tracks
       /\ \A t \in Tracks : /\ samples2[t] = Put(samples[t], f, t, f.track)
                            /\ samples2[t] \in Seq(AnyFrame)
  BY <1>1, <1>6, SamplesGrow
<1>12. PICK P : AllFiled(chunks, offset, offsets, samples, data, P)
  BY DEF Building
<1>13. PICK D : D = Len(data)
  OBVIOUS
<1>14. Sums(P, data) /\ offset2 = P[D] /\ offset2 \in Nat
  <2>1. Sums(P, data) /\ offset + last.size = P[Len(data)]
    BY <1>12 DEF AllFiled
  <2>2. D \in 0..Len(data)
    BY <1>10, <1>13
  <2> QED
    BY <1>3, <1>13, <2>1, <2>2 DEF Sums
<1>15. /\ DOMAIN offsets2 = Tracks
       /\ \A t \in Tracks : /\ offsets2[t] = Put(offsets[t], offset, t, last.track)
                            /\ offsets2[t] \in Seq(Nat)
  <2>1. PICK u : u = last.track
    OBVIOUS
  <2>2. u \in Tracks
    BY <1>6, <2>1 DEF Chunk
  <2>3. Append(offsets[u], offset) \in Seq(Nat)
    BY <1>6, <2>2, AppendProperties
  <2>4. offsets2 = [offsets EXCEPT ![u] = Append(@, offset)]
    BY <2>1
  <2>5. ASSUME NEW t \in Tracks
        PROVE  offsets2[t] = Put(offsets[t], offset, t, u) /\ offsets2[t] \in Seq(Nat)
    BY <1>6, <2>2, <2>3, <2>4 DEF Put
  <2> QED
    BY <1>6, <2>1, <2>4, <2>5
<1>16. Typed(chunks2, offset2, offsets2, samples2, data2, count2)
  BY <1>6, <1>8, <1>9, <1>10, <1>11, <1>14, <1>15 DEF Typed
<1>17. PICK x : x = P[D] + Size(f)
  OBVIOUS
<1>18. PICK P2 : P2 = Grown(P, D + 1, x)
  OBVIOUS
<1>19. Sums(P2, data2) /\ Agree(P2, P, D)
  BY <1>1, <1>5, <1>6, <1>13, <1>14, <1>17, <1>18, SumsGrow DEF Agree
<1>20. offset2 + c.size = P2[Len(data2)]
  <2>1. D + 1 \in Nat
    BY <1>10, <1>13
  <2>2. P2[D + 1] = x
    BY <1>18, <2>1, GrownAt
  <2> QED
    BY <1>7, <1>10, <1>13, <1>14, <1>17, <2>2
<1>21. ASSUME NEW t \in Tracks
       PROVE  Filed(t, chunks2, Put(offsets2[t], offset2, t, chunks2[Len(chunks2)].track),
                    samples2[t], data2, P2)
  <2>1. PICK S : S = samples[t]
    OBVIOUS
  <2>2. PICK O : O = offsets2[t]
    OBVIOUS
  <2>3. PICK S2 : S2 = Put(S, f, t, c.track)
    OBVIOUS
  <2>4. PICK O2 : O2 = Put(O, P[Len(data)], t, c.track)
    OBVIOUS
  <2>5. Filed(t, chunks, O, S, data, P) /\ S \in Seq(AnyFrame) /\ O \in Seq(Nat)
    BY <1>6, <1>12, <1>15, <2>1, <2>2 DEF AllFiled
  <2>6. \A i \in 0..Len(data) : P2[i] = P[i]
    BY <1>13, <1>19 DEF Agree
  <2>7. Filed(t, Append(chunks, c), O2, S2, Append(data, f), P2)
    BY <1>1, <1>6, <1>7, <1>14, <2>3, <2>4, <2>5, <2>6, FiledNew
  <2>8. samples2[t] = S2 /\ chunks2[Len(chunks2)].track = c.track
    BY <1>7, <1>8, <1>11, <2>1, <2>3
  <2> QED
    BY <1>4, <1>5, <1>13, <1>14, <2>2, <2>4, <2>7, <2>8
<1>22. AllFiled(chunks2, offset2, offsets2, samples2, data2, P2)
  <2>1. Len(chunks2) > 0 /\ chunks2[Len(chunks2)] = c
    BY <1>6, <1>8
  <2> QED
    BY <1>19, <1>20, <1>21, <2>1 DEF AllFiled
<1> QED
  BY <1>3, <1>4, <1>5, <1>16, <1>22 DEF Building

\* The first chunk of a file.
LEMMA BuildFirst ==
  ASSUME NEW f, f.track = "video", NEW count \in [Tracks -> Nat], NEW count2,
         IsNext(f, count, count2), NEW c, Begins(c, f)
  PROVE  Building(<<c>>, 0, NoSamples, [NoSamples EXCEPT !["video"] = <<f>>], <<f>>, count2)
<1>1. f \in AnyFrame /\ f.track \in Tracks
  BY FrameHas DEF IsNext
<1>2. c \in Chunk /\ c.track = f.track /\ c.size = Size(f) /\ c.count = 1
  BY DEF Begins
<1>3. PICK samples2 : samples2 = [NoSamples EXCEPT !["video"] = <<f>>]
  OBVIOUS
<1>4. /\ DOMAIN NoSamples = Tracks /\ \A t \in Tracks : NoSamples[t] = << >>
  BY DEF NoSamples
<1>5. /\ Append(<< >>, f) = <<f>> /\ Append(<< >>, c) = <<c>> /\ Len(<<c>>) = 1 /\ <<c>>[1] = c
      /\ Len(<<f>>) = 1 /\ Len(<< >>) = 0 /\ Append(<< >>, 0) = <<0>>
  OBVIOUS
<1>6. << >> \in Seq(Chunk) /\ << >> \in Seq(AnyFrame) /\ << >> \in Seq(Nat)
  OBVIOUS
<1>7. Numbered(<< >>, count)
  BY <1>5 DEF Numbered, Distinct
<1>8. Numbered(<<f>>, count2) /\ count2 \in [Tracks -> Nat]
  BY <1>5, <1>6, <1>7, NumberedGrows
<1>9. /\ DOMAIN samples2 = Tracks
      /\ \A t \in Tracks : samples2[t] = Put(<< >>, f, t, f.track) /\ samples2[t] \in Seq(AnyFrame)
  <2>1. <<f>> \in Seq(AnyFrame)
    BY <1>1
  <2>2. ASSUME NEW t \in Tracks
        PROVE  samples2[t] = Put(<< >>, f, t, f.track) /\ samples2[t] \in Seq(AnyFrame)
    BY <1>3, <1>4, <1>5, <1>6, <2>1, TheTracks DEF Put
  <2> QED
    BY <1>3, <1>4, <2>2
<1>10. Typed(<<c>>, 0, NoSamples, samples2, <<f>>, count2)
  <2>1. <<c>> \in Seq(Chunk) /\ <<f>> \in Seq(AnyFrame)
    BY <1>1, <1>2
  <2> QED
    BY <1>4, <1>6, <1>8, <1>9, <2>1 DEF Typed
<1>11. PICK P : P = [n \in Nat |-> 0]
  OBVIOUS
<1>12. Sums(P, << >>) /\ P[0] = 0
  BY <1>5, <1>11 DEF Sums
<1>13. PICK P2 : P2 = Grown(P, 1, Size(f))
  OBVIOUS
<1>14. Sums(P2, <<f>>) /\ Agree(P2, P, 0)
  <2>1. P[0] + Size(f) = Size(f)
    BY <1>12, SizeIsNat
  <2>2. PICK e : e = << >>
    OBVIOUS
  <2>3. /\ Sums(Grown(P, Len(e) + 1, P[Len(e)] + Size(f)), Append(e, f))
        /\ \A i \in 0..Len(e) : Grown(P, Len(e) + 1, P[Len(e)] + Size(f))[i] = P[i]
    BY <1>1, <1>6, <1>12, <2>2, SumsGrow
  <2>4. Len(e) = 0 /\ Len(e) + 1 = 1 /\ Append(e, f) = <<f>>
    BY <1>5, <2>2
  <2> QED
    BY <1>13, <2>1, <2>3, <2>4 DEF Agree
<1>15. 0 + c.size = P2[1]
  <2>1. P2[1] = Size(f)
    BY <1>13, GrownAt
  <2> QED
    BY <1>2, <2>1, SizeIsNat
<1>16. ASSUME NEW t \in Tracks
       PROVE  Filed(t, <<c>>, Put(NoSamples[t], 0, t, c.track), samples2[t], <<f>>, P2)
  <2>1. PICK S2 : S2 = Put(<< >>, f, t, c.track)
    OBVIOUS
  <2>2. PICK O2 : O2 = Put(<< >>, P[Len(<< >>)], t, c.track)
    OBVIOUS
  <2>3. Filed(t, << >>, << >>, << >>, << >>, P)
    BY FiledNothing
  <2>4. \A i \in 0..Len(<< >>) : P2[i] = P[i]
    BY <1>5, <1>14 DEF Agree
  <2>5. Filed(t, Append(<< >>, c), O2, S2, Append(<< >>, f), P2)
    BY <1>1, <1>2, <1>6, <1>12, <2>1, <2>2, <2>3, <2>4, FiledNew
  <2> QED
    BY <1>2, <1>4, <1>5, <1>9, <1>12, <2>1, <2>2, <2>5
<1>17. AllFiled(<<c>>, 0, NoSamples, samples2, <<f>>, P2)
  BY <1>5, <1>14, <1>15, <1>16 DEF AllFiled
<1> QED
  BY <1>3, <1>10, <1>17 DEF Building

-----------------------------------------------------------------------------
(* The state.                                                              *)

\* The chunks of a track are what is picked of all, as TotalIs says of sums.
LEMMA ChunksOfIs ==
  ASSUME NEW t, chunk_ \in Seq(Chunk), NEW p, Picks(p, chunk_, t)
  PROVE  ChunksOf(t) = p[Len(chunk_)]
<1> DEFINE tmp[n \in 0 .. Len(chunk_)] ==
             IF n = 0 THEN <<>>
             ELSE IF chunk_[n].track = t THEN Append(tmp[n - 1], chunk_[n]) ELSE tmp[n - 1]
           h == [n \in 0..Len(chunk_) |-> p[n]]
           IsPick(f) == f = [n \in 0..Len(chunk_) |->
                              IF n = 0 THEN <<>>
                              ELSE IF chunk_[n].track = t THEN Append(f[n - 1], chunk_[n])
                              ELSE f[n - 1]]
<1>0. Len(chunk_) \in Nat
  BY LenProperties
<1>1. IsPick(h)
  <2> SUFFICES ASSUME NEW n \in 0..Len(chunk_)
               PROVE  h[n] = IF n = 0 THEN <<>>
                             ELSE IF chunk_[n].track = t THEN Append(h[n - 1], chunk_[n])
                             ELSE h[n - 1]
    OBVIOUS
  <2>1. n # 0 => n \in 1..Len(chunk_) /\ n - 1 \in 0..Len(chunk_)
    BY <1>0
  <2> QED
    BY <2>1 DEF Picks
<1>2. IsPick(tmp)
  BY <1>1
<1>3. \A n \in 0..Len(chunk_) :
        tmp[n] = (IF n = 0 THEN <<>>
                  ELSE IF chunk_[n].track = t THEN Append(tmp[n - 1], chunk_[n])
                  ELSE tmp[n - 1])
  BY <1>2
<1>4. ChunksOf(t) = tmp[Len(chunk_)]
  BY DEF ChunksOf
<1> HIDE DEF tmp, h
<1>5. ASSUME tmp[Len(chunk_)] # p[Len(chunk_)] PROVE FALSE
  <2> DEFINE T == {n \in 0..Len(chunk_) : tmp[n] # p[n]}
  <2>1. T \subseteq Nat /\ T # {}
    BY <1>0, <1>5
  <2>2. PICK m \in T : \A n \in T : m <= n
    BY <2>1, LeastOf
  <2>3. m # 0
    BY <1>0, <1>3 DEF Picks
  <2>4. m - 1 \in 0..Len(chunk_) /\ m \in 1..Len(chunk_) /\ ~(m <= m - 1)
    BY <1>0, <2>3
  <2>5. tmp[m - 1] = p[m - 1]
    BY <2>2, <2>4
  <2>6. p[m] = IF chunk_[m].track = t THEN Append(p[m - 1], chunk_[m]) ELSE p[m - 1]
    BY <2>4 DEF Picks
  <2> QED
    BY <1>3, <2>3, <2>4, <2>5, <2>6
<1> QED
  BY <1>4, <1>5

FileBuilding ==
  Building(chunk_, chunk_offset_, track_offset_, mp4_samples_, mp4_mdat_, sent)

\* What Flush writes of what has been built.
LEMMA FileSays ==
  ASSUME FileBuilding, NEW t \in Tracks
  PROVE  Addressable(mp4_mdat_, MovieBox.tracks[t].stbl)
<1>1. /\ chunk_ \in Seq(Chunk) /\ mp4_mdat_ \in Seq(AnyFrame) /\ Len(chunk_) > 0
      /\ DOMAIN track_offset_ = Tracks /\ mp4_samples_[t] \in Seq(AnyFrame)
      /\ Numbered(mp4_mdat_, sent) /\ chunk_[Len(chunk_)] \in Chunk
  BY BuildingHas DEF FileBuilding
<1>2. PICK P : AllFiled(chunk_, chunk_offset_, track_offset_, mp4_samples_, mp4_mdat_, P)
  BY DEF FileBuilding, Building
<1>3. PICK O : O = Noted[t]
  OBVIOUS
<1>4. O = Put(track_offset_[t], chunk_offset_, t, chunk_[Len(chunk_)].track)
  <2>1. chunk_ # << >>
    BY <1>1
  <2>2. PICK u : u = chunk_[Len(chunk_)].track
    OBVIOUS
  <2>3. Noted = [track_offset_ EXCEPT ![u] = Append(@, chunk_offset_)]
    BY <2>1, <2>2 DEF Noted, LastChunk, Last
  <2>4. u \in Tracks
    BY <1>1, <2>2 DEF Chunk
  <2> QED
    BY <1>1, <1>3, <2>2, <2>3, <2>4 DEF Put
<1>5. PICK S : S = mp4_samples_[t]
  OBVIOUS
<1>6. Sums(P, mp4_mdat_) /\ Filed(t, chunk_, O, S, mp4_mdat_, P)
  BY <1>2, <1>4, <1>5 DEF AllFiled
<1>7. PICK p, first, at : FiledBy(p, first, at, t, chunk_, O, S, mp4_mdat_, P)
  BY <1>6 DEF Filed
<1>8. PICK T : T = p[Len(chunk_)]
  OBVIOUS
<1>9. Picks(p, chunk_, t) /\ Laid(first, at, T, O, S, mp4_mdat_, P)
  BY <1>7, <1>8 DEF FiledBy
<1>10. T \in Seq(Chunk)
  BY <1>1, <1>8, <1>9, PickedIs
<1>11. ChunksOf(t) = T
  BY <1>1, <1>8, <1>9, ChunksOfIs
<1>12. PICK table : table = SampleTables(t)
  OBVIOUS
<1>13. /\ table.stsc = Counts(T) /\ table.stsz = Sizes(S) /\ table.stco = Offsets(O)
       /\ table.samples = S
  <2>1. SampleToChunk(t) = Counts(T)
    BY <1>11 DEF SampleToChunk, Counts
  <2>2. SampleSize(t) = Sizes(S)
    BY <1>5 DEF SampleSize, Sizes
  <2>3. ChunkOffset(t) = Offsets(O)
    BY <1>3 DEF ChunkOffset, Offsets
  <2> QED
    BY <1>5, <1>12, <2>1, <2>2, <2>3 DEF SampleTables
<1>14. Distinct(mp4_mdat_)
  BY <1>1 DEF Numbered
<1>15. S \in Seq(AnyFrame)
  BY <1>1, <1>5
<1>16. Addressable(mp4_mdat_, table)
  BY <1>1, <1>6, <1>9, <1>10, <1>13, <1>14, <1>15, TablesSay
<1>17. MovieBox.tracks[t].stbl = table
  <2>1. MovieBox.tracks = [x \in Tracks |-> TrackBox(x)]
    BY DEF MovieBox
  <2>2. MovieBox.tracks[t] = TrackBox(t)
    BY <2>1
  <2>3. TrackBox(t).stbl = SampleTables(t)
    BY DEF TrackBox
  <2> QED
    BY <1>12, <2>2, <2>3
<1> QED
  BY <1>16, <1>17

LEMMA TracksDiffer ==
  MovieBox.tracks["video"].trak.tkhd.id # MovieBox.tracks["audio"].trak.tkhd.id
<1>1. \A t \in Tracks : MovieBox.tracks[t] = TrackBox(t)
  BY DEF MovieBox
<1>2. \A t : TrackBox(t).trak = Track(FALSE, t, mp4_samples_[t], mp4_header_[t])
  BY DEF TrackBox
<1>3. \A t : Track(FALSE, t, mp4_samples_[t], mp4_header_[t]).tkhd.id =
               IF t = "video" THEN 1 ELSE 2
  BY DEF Track, TrackHeader
<1>4. \A t \in Tracks : MovieBox.tracks[t].trak.tkhd.id = IF t = "video" THEN 1 ELSE 2
  <2> TAKE t \in Tracks
  <2>1. MovieBox.tracks[t] = TrackBox(t)
    BY <1>1
  <2>2. TrackBox(t).trak = Track(FALSE, t, mp4_samples_[t], mp4_header_[t])
    BY <1>2
  <2> QED
    BY <1>3, <2>1, <2>2
<1> QED
  BY <1>4, TheTracks

\* A frame that is not the first of a file.
LEMMA CollectBuilds ==
  ASSUME FileBuilding, NEW f, IsNext(f, sent, sent'), NEW u, u = f.track,
         CalChunk(u, Size(f)),
         mp4_samples_' = [mp4_samples_ EXCEPT ![u] = Append(@, f)],
         mp4_mdat_' = Append(mp4_mdat_, f)
  PROVE  FileBuilding'
<1>1. Building(chunk_, chunk_offset_, track_offset_, mp4_samples_, mp4_mdat_, sent)
  BY DEF FileBuilding
<1>2. chunk_ \in Seq(Chunk) /\ Len(chunk_) > 0 /\ Len(chunk_) \in Nat
  BY <1>1, BuildingHas
<1>3. PICK last : last = chunk_[Len(chunk_)]
  OBVIOUS
<1>4. last \in Chunk /\ LastChunk = last /\ chunk_ # << >>
  BY <1>1, <1>2, <1>3, BuildingHas DEF LastChunk, Last
<1>5. u \in Tracks
  BY FrameHas DEF IsNext
<1>6. Size(f) \in Nat
  BY SizeIsNat
<1>7. CASE Fits(u, Size(f))
  <2>1. PICK c : c = [track |-> last.track, size |-> last.size + Size(f),
                      count |-> last.count + 1]
    OBVIOUS
  <2>2. Goes(c, last, f)
    <3>1. last.track = u
      BY <1>4, <1>7 DEF Fits
    <3>2. c \in Chunk
      BY <1>4, <1>6, <2>1 DEF Chunk
    <3> QED
      BY <2>1, <3>1, <3>2 DEF Goes
  <2>3. chunk_' = [chunk_ EXCEPT ![Len(chunk_)] = c]
    <3>1. chunk_' = [chunk_ EXCEPT ![Len(chunk_)].size = @ + Size(f),
                                   ![Len(chunk_)].count = @ + 1]
      BY <1>7 DEF CalChunk
    <3>2. [[last EXCEPT !.size = @ + Size(f)] EXCEPT !.count = @ + 1] = c
      <4>1. PICK v, a, b : v = last.track /\ a = last.size /\ b = last.count
        OBVIOUS
      <4>2. last = [track |-> v, size |-> a, count |-> b]
        BY <1>4, <4>1 DEF Chunk
      <4>3. c = [track |-> v, size |-> a + Size(f), count |-> b + 1]
        BY <2>1, <4>1
      <4>4. PICK w : w = [last EXCEPT !.size = @ + Size(f)]
        OBVIOUS
      <4>5. w = [track |-> v, size |-> a + Size(f), count |-> b]
        BY <4>2, <4>4
      <4>6. [w EXCEPT !.count = @ + 1] = c
        BY <4>3, <4>5
      <4> QED
        BY <4>4, <4>6
    <3>3. PICK L : L = Len(chunk_)
      OBVIOUS
    <3>4. DOMAIN chunk_ = 1..L /\ L \in 1..L
      BY <1>2, <3>3, LenProperties
    <3> QED
      BY <1>3, <3>1, <3>2, <3>3, <3>4
  <2>4. UNCHANGED <<chunk_offset_, track_offset_>>
    BY <1>7 DEF CalChunk
  <2>5. Building([chunk_ EXCEPT ![Len(chunk_)] = c], chunk_offset_, track_offset_,
                 mp4_samples_', mp4_mdat_', sent')
    BY <1>1, <1>3, <2>2, BuildMore
  <2> QED
    BY <2>3, <2>4, <2>5 DEF FileBuilding
<1>8. CASE ~Fits(u, Size(f))
  <2>1. PICK c : c = NewChunk(u, Size(f))
    OBVIOUS
  <2>2. Begins(c, f)
    <3>1. c = [track |-> u, size |-> Size(f), count |-> 1]
      BY <2>1 DEF NewChunk
    <3>2. c \in Chunk
      BY <1>5, <1>6, <3>1 DEF Chunk
    <3> QED
      BY <3>1, <3>2 DEF Begins
  <2>3. /\ chunk_' = Append(chunk_, c)
        /\ track_offset_' = [track_offset_ EXCEPT ![last.track] = Append(@, chunk_offset_)]
        /\ chunk_offset_' = chunk_offset_ + last.size
    BY <1>4, <1>8, <2>1 DEF CalChunk, Noted
  <2>4. Building(Append(chunk_, c), chunk_offset_ + last.size, track_offset_',
                 mp4_samples_', mp4_mdat_', sent')
    BY <1>1, <1>3, <2>2, <2>3, BuildNew
  <2> QED
    BY <2>3, <2>4 DEF FileBuilding
<1> QED
  BY <1>7, <1>8

\* Once a key frame has begun a file, what is being built of it is in step.
FileInv == (began => FileBuilding) /\ SamplesWhereTablesSay

LEMMA IsTheNext ==
  ASSUME FilesInv, NEW t \in Tracks, NEW f \in FrameOf(t, Headers), f.number = sent[t] + 1,
         sent' = [sent EXCEPT ![t] = @ + 1]
  PROVE  IsNext(f, sent, sent') /\ f.track = t
<1>1. f.track = t /\ f \in AnyFrame
  BY TheTracks DEF FrameOf, AnyFrame, Headers
<1> QED
  BY <1>1 DEF IsNext

LEMMA TablesStay ==
  ASSUME SamplesWhereTablesSay, file' = file
  PROVE  SamplesWhereTablesSay'
BY DEF SamplesWhereTablesSay

LEMMA WriteSays ==
  ASSUME FileInv, WriteFile
  PROVE  SamplesWhereTablesSay'
<1>1. CASE mp4_samples_ = NoSamples
  BY <1>1, TablesStay DEF WriteFile, FileInv
<1>2. CASE mp4_samples_ # NoSamples
  <2>1. /\ file'.data = mp4_mdat_ /\ file'.movie = MovieBox /\ file'.began = began
    BY <1>2 DEF WriteFile
  <2>2. ASSUME began
        PROVE  /\ \A t \in Tracks : Addressable(mp4_mdat_, MovieBox.tracks[t].stbl)
               /\ MovieBox.tracks["video"].trak.tkhd.id # MovieBox.tracks["audio"].trak.tkhd.id
    BY <2>2, FileSays, TracksDiffer DEF FileInv
  <2> QED
    BY <2>1, <2>2 DEF SamplesWhereTablesSay
<1> QED
  BY <1>1, <1>2

LEMMA VideoKeepsFile ==
  ASSUME FilesInv, FileInv, NEW key \in BOOLEAN, NEW step \in Nat, OnVideo(key, step)
  PROVE  FileInv'
<1>1. PICK f \in FrameOf("video", Headers) :
        /\ f = Frame("video", sent'["video"], clock', key, header_["video"])
        /\ f.number = sent["video"] + 1
  BY VideoFrame
<1>2. sent' = [sent EXCEPT !["video"] = @ + 1] /\ Mp4OnVideo(f)
  BY <1>1 DEF OnVideo
<1>3. IsNext(f, sent, sent') /\ f.track = "video"
  BY <1>1, <1>2, IsTheNext, TheTracks
<1>4. CASE f.key
  <2>1. NextFile(f)
    BY <1>2, <1>4 DEF Mp4OnVideo
  <2>2. SamplesWhereTablesSay'
    BY <2>1, WriteSays DEF NextFile
  <2>3. PICK c : c = NewChunk("video", Size(f))
    OBVIOUS
  <2>4. Begins(c, f)
    <3>1. c = [track |-> "video", size |-> Size(f), count |-> 1]
      BY <2>3 DEF NewChunk
    <3>2. c \in Chunk
      BY <3>1, SizeIsNat, TheTracks DEF Chunk
    <3> QED
      BY <1>3, <3>1, <3>2 DEF Begins
  <2>5. sent \in [Tracks -> Nat]
    BY DEF FilesInv
  <2>6. Building(<<c>>, 0, NoSamples, [NoSamples EXCEPT !["video"] = <<f>>], <<f>>, sent')
    BY <1>3, <2>4, <2>5, BuildFirst
  <2>7. FileBuilding'
    BY <2>1, <2>3, <2>6 DEF NextFile, FileBuilding
  <2> QED
    BY <2>2, <2>7 DEF FileInv
<1>5. CASE ~f.key
  <2>1. /\ mp4_samples_' = [mp4_samples_ EXCEPT !["video"] = Append(@, f)]
        /\ mp4_mdat_' = Append(mp4_mdat_, f) /\ CalChunk("video", Size(f))
        /\ began' = began /\ file' = file
    BY <1>2, <1>5 DEF Mp4OnVideo
  <2>2. began => FileBuilding'
    BY <1>3, <2>1, CollectBuilds DEF FileInv
  <2> QED
    BY <2>1, <2>2, TablesStay DEF FileInv
<1> QED
  BY <1>4, <1>5

LEMMA AudioKeepsFile ==
  ASSUME FilesInv, FileInv, OnAudio
  PROVE  FileInv'
<1>1. PICK f \in FrameOf("audio", Headers) :
        /\ f = Frame("audio", sent'["audio"], clock, FALSE, header_["audio"])
        /\ f.number = sent["audio"] + 1
  BY AudioFrame
<1>2. sent' = [sent EXCEPT !["audio"] = @ + 1] /\ Mp4OnAudio(f)
  BY <1>1 DEF OnAudio
<1>3. IsNext(f, sent, sent') /\ f.track = "audio"
  BY <1>1, <1>2, IsTheNext, TheTracks
<1>4. /\ mp4_samples_' = [mp4_samples_ EXCEPT !["audio"] = Append(@, f)]
      /\ mp4_mdat_' = Append(mp4_mdat_, f) /\ CalChunk("audio", Size(f))
      /\ began' = began /\ file' = file
  BY <1>2 DEF Mp4OnAudio
<1>5. began => FileBuilding'
  BY <1>3, <1>4, CollectBuilds DEF FileInv
<1> QED
  BY <1>4, <1>5, TablesStay DEF FileInv

LEMMA StillKeepsFile ==
  ASSUME FileInv,
         UNCHANGED <<chunk_, chunk_offset_, track_offset_, mp4_samples_, mp4_mdat_, sent>>,
         UNCHANGED <<began, file>>
  PROVE  FileInv'
<1>1. began' => FileBuilding'
  BY DEF FileInv, FileBuilding
<1> QED
  BY <1>1, TablesStay DEF FileInv

LEMMA NextKeepsFile ==
  ASSUME FilesInv, FileInv, [Next]_vars
  PROVE  FileInv'
<1>1. CASE OnVideo(FALSE, 1)
  BY <1>1, VideoKeepsFile
<1>2. ASSUME NEW step \in Steps, OnVideo(TRUE, step) PROVE FileInv'
  <2>1. step \in Nat
    BY StepsAssumption
  <2> QED
    BY <1>2, <2>1, VideoKeepsFile
<1>3. CASE OnAudio
  BY <1>3, AudioKeepsFile
<1>4. ASSUME NEW t \in Tracks, OnHeader(t) PROVE FileInv'
  <2>1. PICK h : Mp4OnHeader(t, h)
    BY <1>4 DEF OnHeader
  <2> QED
    BY <1>4, <2>1, StillKeepsFile DEF OnHeader, Mp4OnHeader
<1>5. CASE Leave
  <2>1. began' = FALSE /\ file'.began = FALSE
    BY <1>5 DEF Leave, Mp4New, NoFile
  <2> QED
    BY <2>1 DEF FileInv, SamplesWhereTablesSay
<1>6. CASE SetClockBack \/ Return \/ GetMpd \/ GetM4s
  BY <1>6, StillKeepsFile DEF SetClockBack, Return, GetMpd, GetM4s, mp4Vars
<1>7. CASE UNCHANGED vars
  BY <1>7, StillKeepsFile DEF vars, mp4Vars, environment
<1> QED
  BY <1>1, <1>2, <1>3, <1>4, <1>5, <1>6, <1>7 DEF Next

\* Every sample of a file is where the tables of its track say it is, and the
\* tables miss none: CalChunk notes where a chunk starts only when the next one
\* begins, and Flush the last one's.
THEOREM SamplesFound == Spec => []SamplesWhereTablesSay
<1>1. Init => FileInv
  <2> SUFFICES ASSUME Init PROVE FileInv
    OBVIOUS
  <2>1. began = FALSE /\ file.began = FALSE
    BY DEF Init, Mp4Init, NoFile
  <2> QED
    BY <2>1 DEF FileInv, SamplesWhereTablesSay
<1>2. FilesInv /\ FileInv /\ [Next]_vars => FileInv'
  BY NextKeepsFile
<1>3. FileInv => SamplesWhereTablesSay
  BY DEF FileInv
<1> QED
  BY <1>1, <1>2, <1>3, FilesHold, PTL DEF Spec
=============================================================================
