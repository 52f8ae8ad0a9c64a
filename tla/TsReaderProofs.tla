--------------------------- MODULE TsReaderProofs ---------------------------
(***************************************************************************)
(* Proofs about src/src/ts_reader.cpp: of TsReader's invariants, for any   *)
(* shapes of units, any order of packets and any losses, and of the loop   *)
(* of NalSplit, for byte streams of any length.                            *)
(*                                                                         *)
(* The pieces of a PID stand in one line, in the order of sending: those   *)
(* heard, those of the message under way, those not sent yet (Line).  What *)
(* the reader has collected is the end of what was heard, back to the last *)
(* piece that starts a unit (Collected).  So when a unit ends what is      *)
(* collected, it is followed by no more pieces of it: every frame is made  *)
(* of units that are over (Closed), which keeps what is known of calls     *)
(* made earlier true when more is heard.  On this rest Stamped, that a     *)
(* frame has the time stamp of its unit; SetsLed, that a key picture is    *)
(* led by its parameter sets; and Intact, that a unit heard from end to    *)
(* end was passed on, frame by frame.                                      *)
(*                                                                         *)
(* The NAL loop comes last.  It is about 00 00 01 and does not know that   *)
(* start codes have four bytes, so its invariant does not either: nal      *)
(* stands behind the last start code before i, and each entry reaches from *)
(* one start code to the byte before the next.  That this is the zero the  *)
(* condition puts there comes at the end.                                  *)
(***************************************************************************)
EXTENDS TsReader, NalSplit, Integers, SequenceTheorems, FiniteSetTheorems, TLAPS

-----------------------------------------------------------------------------
(* Pieces and the order in which they are sent.                            *)

Words == ParameterSets \cup {"idr", "slice", "other", "rest", "adts", "section"}

LEMMA PieceIs ==
  ASSUME NEW q \in Piece
  PROVE  q.unit \in Nat /\ q.unit \in 0..MaxUnits /\ q.shape \in Shape /\ q.n \in Nat \ {0}
BY BoundsAssumption DEF Piece

Before(q, r) == q.unit < r.unit \/ (q.unit = r.unit /\ q.shape = r.shape /\ q.n < r.n)

Fit(q, shapes) == q.shape \in shapes /\ q.n <= Len(q.shape)

Sorted(H) == \A j, k \in 1..Len(H) : j < k => Before(H[j], H[k])

\* What is collected is all that was heard since the last piece that starts a
\* unit; if there was none, all that was heard.
Collected(H, pes) ==
  /\ Len(pes) <= Len(H)
  /\ \A j \in 1..Len(pes) : pes[j] = H[(Len(H) - Len(pes)) + j]
  /\ \A k \in 1..Len(H) : Starts(H[k]) => k <= (Len(H) - Len(pes)) + 1
  /\ Len(pes) = Len(H) \/ (Len(pes) > 0 /\ Starts(pes[1]))

LEMMA BeforeStart ==
  ASSUME NEW q \in Piece, NEW r \in Piece, Before(q, r), Starts(r)
  PROVE  q.unit < r.unit
BY PieceIs DEF Before, Starts

LEMMA BeforeIs ==
  ASSUME NEW q \in Piece, NEW r \in Piece, Before(q, r)
  PROVE  q.unit <= r.unit
BY PieceIs DEF Before

-----------------------------------------------------------------------------
(* What InOrder gives.                                                     *)

\* Each element of a finite set of numbers has its place in the sequence.
LEMMA EachHasAPlace ==
  ASSUME NEW S, S \subseteq Int, IsFiniteSet(S), NEW at \in InOrder(S)
  PROVE  /\ Cardinality(S) \in Nat /\ at \in [1..Cardinality(S) -> S]
         /\ \A j, k \in 1..Cardinality(S) : j < k => at[j] < at[k]
         /\ \A x \in S : \E k \in 1..Cardinality(S) : at[k] = x
<1>1. PICK N : N = Cardinality(S)
  OBVIOUS
<1>2. N \in Nat
  BY <1>1, FS_CardinalityType
<1>3. at \in [1..N -> S] /\ \A j, k \in 1..N : j < k => at[j] < at[k]
  BY <1>1 DEF InOrder
<1>4. at \in Injection(1..N, S)
  <2>1. ASSUME NEW j \in 1..N, NEW k \in 1..N, at[j] = at[k] PROVE j = k
    <3>0. at[j] \in S /\ at[k] \in S
      BY <1>3, <2>1
    <3>4. at[j] \in Int /\ at[k] \in Int
      BY <3>0
    <3>1. j \in Int /\ k \in Int
      BY <1>2, <2>1
    <3>2. ~(j < k) /\ ~(k < j)
      BY <1>3, <2>1, <3>1, <3>4
    <3> QED
      BY <3>1, <3>2
  <2> QED
    BY <1>3, <2>1 DEF Injection, IsInjective
<1>5. IsFiniteSet(1..N) /\ Cardinality(1..N) = N
  BY <1>2, FS_Interval
<1>6. at \in Surjection(1..N, S)
  BY <1>1, <1>4, <1>5, FS_Injection
<1>7. \A x \in S : \E k \in 1..N : at[k] = x
  BY <1>6 DEF Surjection
<1> QED
  BY <1>1, <1>2, <1>3, <1>7

LEMMA SomeOfInterval ==
  ASSUME NEW a \in Int, NEW b \in Int, NEW S, S \subseteq a..b
  PROVE  IsFiniteSet(S)
<1>1. IsFiniteSet(a..b)
  BY FS_Interval
<1> QED
  BY <1>1, FS_Subset

-----------------------------------------------------------------------------
(* What a parse may lead to.                                               *)

\* A frame is made of what was collected.
MadeOf(c, pid, pes) ==
  c.what = "frame" =>
    /\ Len(pes) > 0 /\ Starts(pes[1])
    /\ c.pid = pid /\ c.stamp = ReadStamp(StampOf(pes[1].unit))
    /\ \A q \in c.pieces : \E j \in 1..Len(pes) : q = pes[j]

AllMadeOf(parsed, pid, pes) ==
  /\ parsed \in Seq(Calls)
  /\ \A k \in 1..Len(parsed) : MadeOf(parsed[k], pid, pes)

LEMMA NoneIsMade ==
  ASSUME NEW pid, NEW pes
  PROVE  AllMadeOf(<< >>, pid, pes)
BY DEF AllMadeOf

LEMMA JunkIsCall == Junk \in Calls /\ Junk.what = "junk"
BY DEF Junk, Call, Calls

LEMMA JunkIsMade ==
  ASSUME NEW pid, NEW pes
  PROVE  AllMadeOf(<<Junk>>, pid, pes)
<1>1. <<Junk>> \in Seq(Calls) /\ Len(<<Junk>>) = 1 /\ <<Junk>>[1] = Junk
  BY JunkIsCall
<1>2. MadeOf(Junk, pid, pes)
  BY JunkIsCall DEF MadeOf
<1>3. ASSUME NEW k \in 1..Len(<<Junk>>) PROVE MadeOf(<<Junk>>[k], pid, pes)
  <2>1. k = 1
    BY <1>1
  <2> QED
    BY <1>1, <1>2, <2>1
<1> QED
  BY <1>1, <1>3 DEF AllMadeOf

LEMMA AppendIsMade ==
  ASSUME NEW pid, NEW pes, NEW parsed, AllMadeOf(parsed, pid, pes)
  PROVE  AllMadeOf(Append(parsed, Junk), pid, pes)
<1>1. PICK s : s = Append(parsed, Junk)
  OBVIOUS
<1>2. parsed \in Seq(Calls) /\ Len(parsed) \in Nat
  BY LenProperties DEF AllMadeOf
<1>3. /\ s \in Seq(Calls) /\ Len(s) = Len(parsed) + 1
      /\ s[Len(parsed) + 1] = Junk /\ \A k \in 1..Len(parsed) : s[k] = parsed[k]
  BY <1>1, <1>2, JunkIsCall, AppendProperties
<1>4. ASSUME NEW k \in 1..Len(s) PROVE MadeOf(s[k], pid, pes)
  <2>1. CASE k \in 1..Len(parsed)
    BY <1>3, <2>1 DEF AllMadeOf
  <2>2. CASE k = Len(parsed) + 1
    BY <1>3, <2>2, JunkIsCall DEF MadeOf
  <2> QED
    BY <1>2, <1>3, <2>1, <2>2
<1> QED
  BY <1>1, <1>3, <1>4 DEF AllMadeOf

Dispatch(pes, stamp, x) ==
  IF IsFrame(pes, x) THEN Call("frame", Video, stamp, Nal(pes, x))
  ELSE Call("header", Video, NoStamp, Header(pes, x))

VideoPlaces(pes) == {x \in DOMAIN pes : IsFrame(pes, x) \/ HeaderComplete(pes, x)}

\* The places of NALs are those of some pieces, and finite.
LEMMA VideoPlacesAre ==
  ASSUME NEW pes \in Seq(Piece)
  PROVE  /\ VideoPlaces(pes) \subseteq 1..Len(pes) /\ VideoPlaces(pes) \subseteq Int
         /\ IsFiniteSet(VideoPlaces(pes)) /\ Len(pes) \in Nat
<1>1. Len(pes) \in Nat /\ VideoPlaces(pes) \subseteq 1..Len(pes)
  BY LenProperties DEF VideoPlaces
<1>2. IsFiniteSet(VideoPlaces(pes))
  BY <1>1, SomeOfInterval
<1> QED
  BY <1>1, <1>2

LEMMA DispatchedIs ==
  ASSUME NEW pes, NEW stamp, NEW parsed \in Dispatched(pes, stamp)
  PROVE  \E at \in InOrder(VideoPlaces(pes)) :
           parsed = [k \in DOMAIN at |-> Dispatch(pes, stamp, at[k])]
BY DEF Dispatched, VideoPlaces, Dispatch

LEMMA DispatchIsMade ==
  ASSUME NEW pes \in Seq(Piece), Len(pes) > 0, Starts(pes[1]),
         NEW stamp, stamp = ReadStamp(StampOf(pes[1].unit)), stamp \in Nat,
         NEW x \in 1..Len(pes)
  PROVE  Dispatch(pes, stamp, x) \in Calls /\ MadeOf(Dispatch(pes, stamp, x), Video, pes)
<1>1. \A j \in 1..Len(pes) : pes[j] \in Piece
  BY ElementOfSeq
<1>2. Nal(pes, x) \subseteq Piece /\ \A q \in Nal(pes, x) : \E j \in 1..Len(pes) : q = pes[j]
  <2>1. Len(pes) \in Nat
    BY LenProperties
  <2>2. \A j \in x..Len(pes) : j \in 1..Len(pes)
    BY <2>1
  <2> QED
    BY <1>1, <2>2 DEF Nal
<1>3. Header(pes, x) \subseteq Piece
  <2>1. Len(pes) \in Nat
    BY LenProperties
  <2>2. \A j \in 1..x : j \in 1..Len(pes)
    BY <2>1
  <2> QED
    BY <1>1, <2>2 DEF Header
<1>4. PICK f : f = Call("frame", Video, stamp, Nal(pes, x))
  OBVIOUS
<1>5. PICK h : h = Call("header", Video, NoStamp, Header(pes, x))
  OBVIOUS
<1>6. Video \in Elementary
  BY DEF Elementary
<1>7. f \in Calls /\ f.what = "frame" /\ f.pid = Video /\ f.stamp = stamp /\ f.pieces = Nal(pes, x)
  BY <1>2, <1>4, <1>6 DEF Call, Calls
<1>8. h \in Calls /\ h.what = "header"
  BY <1>3, <1>5, <1>6 DEF Call, Calls
<1>9. MadeOf(f, Video, pes)
  BY <1>2, <1>7 DEF MadeOf
<1>10. MadeOf(h, Video, pes)
  BY <1>8 DEF MadeOf
<1> QED
  BY <1>4, <1>5, <1>7, <1>8, <1>9, <1>10 DEF Dispatch

LEMMA DispatchedIsMade ==
  ASSUME NEW pes \in Seq(Piece), Len(pes) > 0, Starts(pes[1]),
         NEW stamp, stamp = ReadStamp(StampOf(pes[1].unit)), stamp \in Nat,
         NEW parsed \in Dispatched(pes, stamp)
  PROVE  AllMadeOf(parsed, Video, pes)
<1>1. PICK at \in InOrder(VideoPlaces(pes)) :
        parsed = [k \in DOMAIN at |-> Dispatch(pes, stamp, at[k])]
  BY DispatchedIs
<1>2. PICK N : N = Cardinality(VideoPlaces(pes))
  OBVIOUS
<1>3. N \in Nat /\ at \in [1..N -> VideoPlaces(pes)] /\ VideoPlaces(pes) \subseteq 1..Len(pes)
  BY <1>2, VideoPlacesAre, EachHasAPlace
<1>4. ASSUME NEW k \in 1..N
      PROVE  parsed[k] \in Calls /\ MadeOf(parsed[k], Video, pes)
  <2>1. at[k] \in 1..Len(pes) /\ parsed[k] = Dispatch(pes, stamp, at[k])
    BY <1>1, <1>3
  <2> QED
    BY <2>1, DispatchIsMade
<1>5. DOMAIN parsed = 1..N
  BY <1>1, <1>3
<1>6. parsed = [k \in 1..N |-> parsed[k]]
  BY <1>1, <1>5
<1>7. parsed \in Seq(Calls) /\ Len(parsed) = N
  <2>1. parsed \in [1..N -> Calls]
    BY <1>4, <1>6
  <2> QED
    BY <1>3, <2>1, SeqDef, LenProperties, <1>5
<1> QED
  BY <1>4, <1>7 DEF AllMadeOf

HeadersOf(pes) == {h \in InSync(pes) : pes[1].shape[h] = "adts"}
FramesOf(pes) == {h \in HeadersOf(pes) : Adts(pes[1].shape, h) \subseteq InSync(pes)}
AudioPlaces(pes) == {2 * h : h \in HeadersOf(pes)} \cup {2 * h + 1 : h \in FramesOf(pes)}

AudioCall(pes, stamp, x) ==
  IF x % 2 = 0 THEN Call("header", Audio, NoStamp, {pes[x \div 2]})
  ELSE Call("frame", Audio, stamp, {pes[j] : j \in Adts(pes[1].shape, x \div 2)})

AudioRead(pes, stamp) ==
  {[k \in DOMAIN at |-> AudioCall(pes, stamp, at[k])] : at \in InOrder(AudioPlaces(pes))}

LEMMA OnAudioIs ==
  ASSUME NEW pes, NEW stamp
  PROVE  OnAudio(pes, stamp) =
           IF InSync(pes) = DOMAIN pes THEN AudioRead(pes, stamp)
           ELSE AudioRead(pes, stamp) \cup {Append(c, Junk) : c \in AudioRead(pes, stamp)}
BY DEF OnAudio, AudioRead, AudioCall, AudioPlaces, FramesOf, HeadersOf

LEMMA InSyncIs ==
  ASSUME NEW pes \in Seq(Piece)
  PROVE  InSync(pes) \subseteq 1..Len(pes) /\ Len(pes) \in Nat
BY LenProperties DEF InSync

LEMMA AudioPlacesAre ==
  ASSUME NEW pes \in Seq(Piece)
  PROVE  /\ AudioPlaces(pes) \subseteq Int /\ IsFiniteSet(AudioPlaces(pes))
         /\ \A x \in AudioPlaces(pes) :
              \/ \E h \in HeadersOf(pes) : x = 2 * h
              \/ \E h \in FramesOf(pes) : x = 2 * h + 1
<1>1. PICK M : M = Len(pes)
  OBVIOUS
<1>2. M \in Nat /\ HeadersOf(pes) \subseteq 1..M /\ FramesOf(pes) \subseteq 1..M
  BY <1>1, InSyncIs DEF HeadersOf, FramesOf
<1>3. AudioPlaces(pes) \subseteq 2..(2 * M + 1)
  <2> SUFFICES ASSUME NEW x \in AudioPlaces(pes) PROVE x \in 2..(2 * M + 1)
    OBVIOUS
  <2>1. PICK h \in 1..M : x = 2 * h \/ x = 2 * h + 1
    BY <1>2 DEF AudioPlaces
  <2> QED
    BY <1>2, <2>1
<1>4. 2 \in Int /\ 2 * M + 1 \in Int
  BY <1>2
<1>5. IsFiniteSet(AudioPlaces(pes))
  BY <1>3, <1>4, SomeOfInterval
<1>6. AudioPlaces(pes) \subseteq Int
  BY <1>3, <1>4
<1> QED
  BY <1>5, <1>6 DEF AudioPlaces

LEMMA HeaderCallIs ==
  ASSUME NEW h \in Nat, NEW pes, NEW stamp, NEW x, x = 2 * h
  PROVE  AudioCall(pes, stamp, x) = Call("header", Audio, NoStamp, {pes[h]})
<1>1. x \div 2 = h /\ x % 2 = 0
  OBVIOUS
<1> QED
  BY <1>1 DEF AudioCall

LEMMA FrameCallIs ==
  ASSUME NEW h \in Nat, NEW pes, NEW stamp, NEW x, x = 2 * h + 1
  PROVE  AudioCall(pes, stamp, x) = Call("frame", Audio, stamp, {pes[j] : j \in Adts(pes[1].shape, h)})
<1>1. x \div 2 = h /\ x % 2 # 0
  OBVIOUS
<1> QED
  BY <1>1 DEF AudioCall

LEMMA AudioCallIsMade ==
  ASSUME NEW pes \in Seq(Piece), Len(pes) > 0, Starts(pes[1]),
         NEW stamp, stamp = ReadStamp(StampOf(pes[1].unit)), stamp \in Nat,
         NEW x \in AudioPlaces(pes)
  PROVE  AudioCall(pes, stamp, x) \in Calls /\ MadeOf(AudioCall(pes, stamp, x), Audio, pes)
<1>1. \A j \in 1..Len(pes) : pes[j] \in Piece
  BY ElementOfSeq
<1>2. Audio \in Elementary
  BY DEF Elementary
<1>3. HeadersOf(pes) \subseteq 1..Len(pes) /\ Len(pes) \in Nat
  BY InSyncIs DEF HeadersOf
<1>4. ASSUME NEW h \in HeadersOf(pes), x = 2 * h
      PROVE  AudioCall(pes, stamp, x) \in Calls /\ MadeOf(AudioCall(pes, stamp, x), Audio, pes)
  <2>1. h \in Nat /\ pes[h] \in Piece
    BY <1>1, <1>3, <1>4
  <2>2. AudioCall(pes, stamp, x) = Call("header", Audio, NoStamp, {pes[h]})
    BY <1>4, <2>1, HeaderCallIs
  <2>3. {pes[h]} \subseteq Piece
    BY <2>1
  <2>4. PICK s : s = {pes[h]}
    OBVIOUS
  <2>5. Call("header", Audio, NoStamp, s) \in Calls
    BY <1>2, <2>3, <2>4 DEF Call, Calls
  <2>6. MadeOf(Call("header", Audio, NoStamp, s), Audio, pes)
    BY DEF MadeOf, Call
  <2> QED
    BY <2>2, <2>4, <2>5, <2>6
<1>5. ASSUME NEW h \in FramesOf(pes), x = 2 * h + 1
      PROVE  AudioCall(pes, stamp, x) \in Calls /\ MadeOf(AudioCall(pes, stamp, x), Audio, pes)
  <2>1. h \in Nat /\ Adts(pes[1].shape, h) \subseteq 1..Len(pes)
    BY <1>3, <1>5, InSyncIs DEF FramesOf
  <2>2. PICK s : s = {pes[j] : j \in Adts(pes[1].shape, h)}
    OBVIOUS
  <2>3. AudioCall(pes, stamp, x) = Call("frame", Audio, stamp, s)
    <3>1. AudioCall(pes, stamp, x) = Call("frame", Audio, stamp, {pes[j] : j \in Adts(pes[1].shape, h)})
      BY <1>5, <2>1, FrameCallIs
    <3> QED
      BY <2>2, <3>1
  <2>4. s \subseteq Piece /\ \A q \in s : \E j \in 1..Len(pes) : q = pes[j]
    BY <1>1, <2>1, <2>2
  <2>5. PICK f : f = Call("frame", Audio, stamp, s)
    OBVIOUS
  <2>6. f \in Calls /\ f.pid = Audio /\ f.stamp = stamp /\ f.pieces = s
    BY <1>2, <2>4, <2>5 DEF Call, Calls
  <2>7. MadeOf(f, Audio, pes)
    BY <2>4, <2>6 DEF MadeOf
  <2> QED
    BY <2>3, <2>5, <2>6, <2>7
<1> QED
  BY <1>4, <1>5, AudioPlacesAre

LEMMA AudioReadIsMade ==
  ASSUME NEW pes \in Seq(Piece), Len(pes) > 0, Starts(pes[1]),
         NEW stamp, stamp = ReadStamp(StampOf(pes[1].unit)), stamp \in Nat,
         NEW parsed \in AudioRead(pes, stamp)
  PROVE  AllMadeOf(parsed, Audio, pes)
<1>1. PICK at \in InOrder(AudioPlaces(pes)) :
        parsed = [k \in DOMAIN at |-> AudioCall(pes, stamp, at[k])]
  BY DEF AudioRead
<1>2. PICK N : N = Cardinality(AudioPlaces(pes))
  OBVIOUS
<1>3. N \in Nat /\ at \in [1..N -> AudioPlaces(pes)]
  BY <1>2, AudioPlacesAre, EachHasAPlace
<1>4. ASSUME NEW k \in 1..N
      PROVE  parsed[k] \in Calls /\ MadeOf(parsed[k], Audio, pes)
  <2>1. at[k] \in AudioPlaces(pes) /\ parsed[k] = AudioCall(pes, stamp, at[k])
    BY <1>1, <1>3
  <2> QED
    BY <2>1, AudioCallIsMade
<1>5. DOMAIN parsed = 1..N
  BY <1>1, <1>3
<1>6. parsed = [k \in 1..N |-> parsed[k]]
  BY <1>1, <1>5
<1>7. parsed \in Seq(Calls) /\ Len(parsed) = N
  <2>1. parsed \in [1..N -> Calls]
    BY <1>4, <1>6
  <2> QED
    BY <1>3, <2>1, SeqDef, LenProperties, <1>5
<1> QED
  BY <1>4, <1>7 DEF AllMadeOf

-----------------------------------------------------------------------------
(* Time stamps.                                                            *)

\* Below Wrap a time stamp is read as it is.
LEMMA ReadStampIs ==
  ASSUME NEW t \in Nat
  PROVE  ReadStamp(t) \in Nat /\ (t < Wrap => ReadStamp(t) = t)
<1>1. PICK half : half = Wrap \div 2
  OBVIOUS
<1>2. Wrap \in Nat /\ half \in Nat /\ half > 0 /\ Wrap = 2 * half
  BY <1>1, BoundsAssumption
<1>3. PICK high, low : high = t \div Wrap /\ low = t % Wrap
  OBVIOUS
<1>4. high \in Nat /\ low \in Nat /\ low < Wrap
  BY <1>2, <1>3
<1>5. PICK shared : shared = IF high % 2 = 1 \/ low >= half THEN half ELSE 0
  OBVIOUS
<1>6. PICK rest : rest = low % half
  OBVIOUS
<1>7. ReadStamp(t) = (((high \div 2) * Wrap) + shared) + rest
  BY <1>1, <1>3, <1>5, <1>6 DEF ReadStamp
<1>8. rest \in Nat /\ shared \in Nat
  BY <1>2, <1>4, <1>5, <1>6
<1>9. high \div 2 \in Nat /\ (high \div 2) * Wrap \in Nat
  BY <1>2, <1>4
<1>10. ASSUME t < Wrap PROVE ReadStamp(t) = t
  <2>1. high = 0 /\ low = t
    BY <1>2, <1>3, <1>10
  <2>2. high \div 2 = 0 /\ high % 2 = 0
    BY <2>1
  <2>3. 0 * Wrap = 0
    BY <1>2
  <2>4. shared + rest = low
    <3>1. CASE low >= half
      <4>1. rest = low - half
        BY <1>2, <1>4, <1>6, <3>1
      <4> QED
        BY <1>2, <1>4, <1>5, <3>1, <4>1
    <3>2. CASE low < half
      BY <1>2, <1>4, <1>5, <1>6, <2>2, <3>2
    <3> QED
      BY <1>2, <1>4, <3>1, <3>2
  <2> QED
    BY <1>7, <1>8, <2>1, <2>2, <2>3, <2>4
<1> QED
  BY <1>7, <1>8, <1>9, <1>10

LEMMA ParsedIsMade ==
  ASSUME NEW pid \in Elementary, NEW pes \in Seq(Piece), NEW parsed \in ParsePES(pid, pes),
         video_stream_type_ \in Codecs \cup {"other"}
  PROVE  AllMadeOf(parsed, pid, pes)
<1>1. CASE pes = << >> \/ pid \in Tables
  <2>1. parsed = << >>
    BY <1>1 DEF ParsePES
  <2> QED
    BY <2>1, NoneIsMade
<1>2. CASE pes # << >> /\ pid \notin Tables /\ ~Starts(pes[1])
  <2>1. parsed = << >> \/ parsed = <<Junk>>
    BY <1>2 DEF ParsePES
  <2> QED
    BY <2>1, NoneIsMade, JunkIsMade
<1>3. CASE pes # << >> /\ pid \notin Tables /\ Starts(pes[1])
  <2>1. Len(pes) > 0 /\ 1 \in 1..Len(pes)
    BY <1>3, LenProperties, EmptySeq
  <2>2. pes[1] \in Piece
    BY <2>1, ElementOfSeq
  <2>3. PICK stamp : stamp = ReadStamp(StampOf(pes[1].unit))
    OBVIOUS
  <2>4. stamp \in Nat
    <3>1. StampOf(pes[1].unit) \in Nat
      BY <2>2, PieceIs, BoundsAssumption DEF StampOf
    <3> QED
      BY <2>3, <3>1, ReadStampIs
  <2>5. parsed \in IF pid = Video THEN OnVideo(pes, stamp) ELSE OnAudio(pes, stamp)
    BY <1>3, <2>3 DEF ParsePES
  <2>6. CASE pid = Video
    <3>1. parsed \in OnVideo(pes, stamp)
      BY <2>5, <2>6
    <3>2. parsed \in Dispatched(pes, stamp) \/ parsed = << >> \/ parsed = <<Junk>>
      <4>1. CASE video_stream_type_ = "h264"
        BY <3>1, <4>1 DEF OnVideo, OnH264Video
      <4>2. CASE video_stream_type_ = "h265"
        BY <3>1, <4>2 DEF OnVideo, OnH265Video
      <4>3. CASE video_stream_type_ = "other"
        BY <3>1, <4>3 DEF OnVideo
      <4> QED
        BY <4>1, <4>2, <4>3 DEF Codecs
    <3> QED
      BY <1>3, <2>1, <2>3, <2>4, <2>6, <3>2, DispatchedIsMade, NoneIsMade, JunkIsMade
  <2>7. CASE pid # Video
    <3>1. pid = Audio
      BY <2>7 DEF Elementary
    <3>2. parsed \in OnAudio(pes, stamp)
      BY <2>5, <2>7
    <3>3. \/ parsed \in AudioRead(pes, stamp)
          \/ \E c \in AudioRead(pes, stamp) : parsed = Append(c, Junk)
      BY <3>2, OnAudioIs
    <3>4. \A c \in AudioRead(pes, stamp) : AllMadeOf(c, Audio, pes)
      BY <1>3, <2>1, <2>3, <2>4, AudioReadIsMade
    <3> QED
      BY <3>1, <3>3, <3>4, AppendIsMade
  <2> QED
    BY <2>6, <2>7
<1> QED
  BY <1>1, <1>2, <1>3

-----------------------------------------------------------------------------
(* What is collected.                                                      *)

\* The next piece of a PID is collected.
LEMMA CollectedGrows ==
  ASSUME NEW H \in Seq(Piece), NEW pes \in Seq(Piece), Collected(H, pes), NEW r \in Piece
  PROVE  Collected(Append(H, r), IF Starts(r) THEN <<r>> ELSE Append(pes, r))
<1>1. PICK L, M : L = Len(H) /\ M = Len(pes)
  OBVIOUS
<1>2. /\ L \in Nat /\ M \in Nat /\ M <= L
      /\ \A j \in 1..M : pes[j] = H[(L - M) + j]
      /\ \A k \in 1..L : Starts(H[k]) => k <= (L - M) + 1
      /\ M = L \/ (M > 0 /\ Starts(pes[1]))
  BY <1>1, LenProperties DEF Collected
<1>3. PICK H2 : H2 = Append(H, r)
  OBVIOUS
<1>4. Len(H2) = L + 1 /\ H2[L + 1] = r /\ \A k \in 1..L : H2[k] = H[k]
  BY <1>1, <1>3, AppendProperties
<1>5. CASE Starts(r)
  <2>1. Len(<<r>>) = 1 /\ <<r>>[1] = r
    OBVIOUS
  <2>2. \A j \in 1..1 : <<r>>[j] = H2[((L + 1) - 1) + j]
    <3> TAKE j \in 1..1
    <3>1. j = 1 /\ ((L + 1) - 1) + 1 = L + 1
      BY <1>2
    <3> QED
      BY <1>4, <2>1, <3>1
  <2>3. \A k \in 1..(L + 1) : k <= ((L + 1) - 1) + 1
    BY <1>2
  <2>4. Collected(H2, <<r>>)
    BY <1>2, <1>4, <1>5, <2>1, <2>2, <2>3 DEF Collected
  <2> QED
    BY <1>3, <1>5, <2>4
<1>6. CASE ~Starts(r)
  <2>1. PICK pes2 : pes2 = Append(pes, r)
    OBVIOUS
  <2>2. Len(pes2) = M + 1 /\ pes2[M + 1] = r /\ \A k \in 1..M : pes2[k] = pes[k]
    BY <1>1, <2>1, AppendProperties
  <2>3. (L + 1) - (M + 1) = L - M
    BY <1>2
  <2>4. ASSUME NEW j \in 1..(M + 1) PROVE pes2[j] = H2[(L - M) + j]
    <3>1. CASE j \in 1..M
      <4>1. (L - M) + j \in 1..L
        BY <1>2, <3>1
      <4> QED
        BY <1>2, <1>4, <2>2, <3>1, <4>1
    <3>2. CASE j = M + 1
      <4>1. (L - M) + (M + 1) = L + 1
        BY <1>2
      <4> QED
        BY <1>4, <2>2, <3>2, <4>1
    <3> QED
      BY <1>2, <3>1, <3>2
  <2>5. ASSUME NEW k \in 1..(L + 1), Starts(H2[k]) PROVE k <= (L - M) + 1
    <3>1. k # L + 1
      BY <1>4, <1>6, <2>5
    <3>2. k \in 1..L
      BY <1>2, <3>1
    <3> QED
      BY <1>2, <1>4, <2>5, <3>2
  <2>6. M + 1 = L + 1 \/ (M + 1 > 0 /\ Starts(pes2[1]))
    <3>1. M > 0 => 1 \in 1..M
      BY <1>2
    <3> QED
      BY <1>2, <2>2, <3>1
  <2>7. Collected(H2, pes2)
    BY <1>2, <1>4, <2>2, <2>3, <2>4, <2>5, <2>6 DEF Collected
  <2> QED
    BY <1>3, <1>6, <2>1, <2>7
<1> QED
  BY <1>5, <1>6

-----------------------------------------------------------------------------
(* The line of an elementary stream: what was heard of it, what is under    *)
(* way, and what is left of the unit that is being sent.                    *)

Within(q, shapes, u) == Fit(q, shapes) /\ q.unit < u

Queued(H, Q, pid, shapes, u) ==
  \A k \in 1..Len(Q) : Q[k].pid = pid =>
    /\ Within(Q[k].piece, shapes, u)
    /\ \A j \in 1..Len(H) : Before(H[j], Q[k].piece)
    /\ \A l \in 1..(k - 1) : Q[l].pid = pid => Before(Q[l].piece, Q[k].piece)

Kept(H, Q, R, pid, shapes, u) ==
  \A m \in 1..Len(R) :
    /\ Within(R[m], shapes, u) /\ ~Starts(R[m])
    /\ \A j \in 1..Len(H) : Before(H[j], R[m])
    /\ \A k \in 1..Len(Q) : Q[k].pid = pid => Before(Q[k].piece, R[m])
    /\ \A l \in 1..(m - 1) : Before(R[l], R[m])

Line(H, Q, R, pid, shapes, u) ==
  /\ Sorted(H)
  /\ \A j \in 1..Len(H) : Within(H[j], shapes, u)
  /\ Queued(H, Q, pid, shapes, u)
  /\ Kept(H, Q, R, pid, shapes, u)

\* Nothing under way is a line too.
LEMMA LineAlone ==
  ASSUME NEW H \in Seq(Piece), NEW Q \in Seq(PacketType), NEW R \in Seq(Piece),
         NEW pid, NEW shapes, NEW u \in Nat, Line(H, Q, R, pid, shapes, u)
  PROVE  Line(H, << >>, R, pid, shapes, u)
<1>1. Queued(H, << >>, pid, shapes, u)
  BY DEF Queued
<1>2. Kept(H, << >>, R, pid, shapes, u)
  BY DEF Line, Kept
<1> QED
  BY <1>1, <1>2 DEF Line

\* A packet of another PID is taken.
LEMMA LineSkips ==
  ASSUME NEW H \in Seq(Piece), NEW Q \in Seq(PacketType), NEW R \in Seq(Piece),
         NEW pid, NEW shapes, NEW u \in Nat, Line(H, Q, R, pid, shapes, u), Q # << >>
  PROVE  Line(H, Tail(Q), R, pid, shapes, u)
<1>1. PICK Z : Z = Tail(Q)
  OBVIOUS
<1>2. Len(Z) = Len(Q) - 1 /\ Len(Q) \in Nat /\ \A k \in 1..Len(Z) : Z[k] = Q[k + 1]
  BY <1>1, HeadTailProperties, LenProperties
<1>3. \A k \in 1..Len(Z) : k + 1 \in 1..Len(Q)
  BY <1>2
<1>4. ASSUME NEW k \in 1..Len(Z), Z[k].pid = pid
      PROVE  /\ Within(Z[k].piece, shapes, u)
             /\ \A j \in 1..Len(H) : Before(H[j], Z[k].piece)
             /\ \A l \in 1..(k - 1) : Z[l].pid = pid => Before(Z[l].piece, Z[k].piece)
  <2>1. k + 1 \in 1..Len(Q) /\ Z[k] = Q[k + 1]
    BY <1>2, <1>3
  <2>2. /\ Within(Q[k + 1].piece, shapes, u)
        /\ \A j \in 1..Len(H) : Before(H[j], Q[k + 1].piece)
        /\ \A l \in 1..((k + 1) - 1) : Q[l].pid = pid => Before(Q[l].piece, Q[k + 1].piece)
    BY <1>4, <2>1 DEF Line, Queued
  <2>3. ASSUME NEW l \in 1..(k - 1), Z[l].pid = pid PROVE Before(Z[l].piece, Z[k].piece)
    <3>1. l \in 1..Len(Z) /\ l + 1 \in 1..((k + 1) - 1)
      BY <1>2
    <3>2. Z[l] = Q[l + 1]
      BY <1>2, <3>1
    <3> QED
      BY <2>1, <2>2, <2>3, <3>1, <3>2
  <2> QED
    BY <2>1, <2>2, <2>3
<1>5. Queued(H, Z, pid, shapes, u)
  BY <1>4 DEF Queued
<1>6. Kept(H, Z, R, pid, shapes, u)
  <2>1. \A m \in 1..Len(R), k \in 1..Len(Q) : Q[k].pid = pid => Before(Q[k].piece, R[m])
    BY DEF Line, Kept
  <2>2. \A m \in 1..Len(R), k \in 1..Len(Z) : Z[k].pid = pid => Before(Z[k].piece, R[m])
    BY <1>2, <1>3, <2>1
  <2> QED
    BY <2>2 DEF Line, Kept
<1> QED
  BY <1>1, <1>5, <1>6 DEF Line

\* A packet of the PID itself is taken.
LEMMA LineTakes ==
  ASSUME NEW H \in Seq(Piece), NEW Q \in Seq(PacketType), NEW R \in Seq(Piece),
         NEW pid, NEW shapes, NEW u \in Nat, Line(H, Q, R, pid, shapes, u), Q # << >>,
         NEW r \in Piece, r = Head(Q).piece, Head(Q).pid = pid
  PROVE  Line(Append(H, r), Tail(Q), R, pid, shapes, u)
<1>1. PICK Z, G : Z = Tail(Q) /\ G = Append(H, r)
  OBVIOUS
<1>2. /\ Len(Z) = Len(Q) - 1 /\ Len(Q) \in Nat /\ Len(Q) > 0 /\ \A k \in 1..Len(Z) : Z[k] = Q[k + 1]
      /\ Head(Q) = Q[1]
  BY <1>1, HeadTailProperties, LenProperties, EmptySeq
<1>3. /\ Len(H) \in Nat /\ Len(G) = Len(H) + 1 /\ G[Len(H) + 1] = r
      /\ \A j \in 1..Len(H) : G[j] = H[j]
  BY <1>1, AppendProperties, LenProperties
<1>4. \A j \in 1..Len(G) : j \in 1..Len(H) \/ j = Len(H) + 1
  BY <1>3
<1>5. 1 \in 1..Len(Q) /\ Q[1].pid = pid /\ Q[1].piece = r
  BY <1>2
<1>6. Within(r, shapes, u) /\ \A j \in 1..Len(H) : Before(H[j], r)
  BY <1>5 DEF Line, Queued
<1>7. Line(H, Z, R, pid, shapes, u)
  BY <1>1, LineSkips
<1>8. Sorted(G)
  <2> SUFFICES ASSUME NEW j \in 1..Len(G), NEW k \in 1..Len(G), j < k PROVE Before(G[j], G[k])
    BY DEF Sorted
  <2>1. j \in 1..Len(H)
    BY <1>3
  <2>2. CASE k \in 1..Len(H)
    BY <1>3, <2>1, <2>2 DEF Line, Sorted
  <2>3. CASE k = Len(H) + 1
    BY <1>3, <1>6, <2>1, <2>3
  <2> QED
    BY <1>4, <2>2, <2>3
<1>9. \A j \in 1..Len(G) : Within(G[j], shapes, u)
  BY <1>3, <1>4, <1>6 DEF Line
<1>10. Queued(G, Z, pid, shapes, u)
  <2>1. ASSUME NEW k \in 1..Len(Z), Z[k].pid = pid PROVE Before(r, Z[k].piece)
    <3>1. k + 1 \in 1..Len(Q) /\ 1 \in 1..((k + 1) - 1) /\ Z[k] = Q[k + 1]
      BY <1>2
    <3> QED
      BY <1>5, <2>1, <3>1 DEF Line, Queued
  <2>2. ASSUME NEW k \in 1..Len(Z), Z[k].pid = pid, NEW j \in 1..Len(G) PROVE Before(G[j], Z[k].piece)
    BY <1>3, <1>4, <1>7, <2>1, <2>2 DEF Line, Queued
  <2> QED
    BY <1>7, <2>2 DEF Line, Queued
<1>11. Kept(G, Z, R, pid, shapes, u)
  <2>1. ASSUME NEW m \in 1..Len(R), NEW j \in 1..Len(G) PROVE Before(G[j], R[m])
    <3>1. Before(r, R[m])
      BY <1>5 DEF Line, Kept
    <3> QED
      BY <1>3, <1>4, <3>1 DEF Line, Kept
  <2> QED
    BY <1>7, <2>1 DEF Line, Kept
<1> QED
  BY <1>1, <1>8, <1>9, <1>10, <1>11 DEF Line

\* A packet of another PID is sent.
LEMMA LineIgnores ==
  ASSUME NEW H \in Seq(Piece), NEW Q \in Seq(PacketType), NEW R \in Seq(Piece),
         NEW pid, NEW shapes, NEW u \in Nat, Line(H, Q, R, pid, shapes, u),
         NEW packet \in PacketType, packet.pid # pid
  PROVE  Line(H, Append(Q, packet), R, pid, shapes, u)
<1>1. PICK Z : Z = Append(Q, packet)
  OBVIOUS
<1>2. /\ Len(Q) \in Nat /\ Len(Z) = Len(Q) + 1 /\ Z[Len(Q) + 1] = packet
      /\ \A k \in 1..Len(Q) : Z[k] = Q[k]
  BY <1>1, AppendProperties, LenProperties
<1>3. ASSUME NEW k \in 1..Len(Z), Z[k].pid = pid PROVE k \in 1..Len(Q)
  <2>1. k # Len(Q) + 1
    BY <1>2, <1>3
  <2> QED
    BY <1>2, <2>1
<1>4. \A k \in 1..Len(Q) : \A l \in 1..(k - 1) : l \in 1..Len(Q)
  BY <1>2
<1>5. Queued(H, Z, pid, shapes, u)
  BY <1>2, <1>3, <1>4 DEF Line, Queued
<1>6. Kept(H, Z, R, pid, shapes, u)
  BY <1>2, <1>3 DEF Line, Kept
<1> QED
  BY <1>1, <1>5, <1>6 DEF Line

\* A piece of the PID itself is sent, and pieces S are left of its unit.
LEMMA LineSends ==
  ASSUME NEW H \in Seq(Piece), NEW Q \in Seq(PacketType), NEW R \in Seq(Piece),
         NEW pid, NEW shapes, NEW u \in Nat, Line(H, Q, R, pid, shapes, u),
         NEW r \in Piece, NEW S \in Seq(Piece), NEW v \in Nat, u <= v,
         Within(r, shapes, v),
         \A j \in 1..Len(H) : Before(H[j], r),
         \A k \in 1..Len(Q) : Q[k].pid = pid => Before(Q[k].piece, r),
         Kept(H, Append(Q, Packet(pid, r)), S, pid, shapes, v)
  PROVE  Line(H, Append(Q, Packet(pid, r)), S, pid, shapes, v)
<1>1. PICK Z : Z = Append(Q, Packet(pid, r))
  OBVIOUS
<1>2. /\ Len(Q) \in Nat /\ Len(Z) = Len(Q) + 1
      /\ Z[Len(Q) + 1].pid = pid /\ Z[Len(Q) + 1].piece = r
      /\ \A k \in 1..Len(Q) : Z[k] = Q[k]
  BY <1>1, AppendProperties, LenProperties DEF Packet
<1>3. \A q \in Piece : Within(q, shapes, u) => Within(q, shapes, v)
  BY PieceIs DEF Within
<1>4. \A j \in 1..Len(H) : H[j] \in Piece
  BY ElementOfSeq
<1>5. \A k \in 1..Len(Q) : Q[k].piece \in Piece
  <2>1. \A k \in 1..Len(Q) : Q[k] \in PacketType
    BY ElementOfSeq
  <2> QED
    BY <2>1 DEF PacketType
<1>6. ASSUME NEW k \in 1..Len(Z), Z[k].pid = pid
      PROVE  /\ Within(Z[k].piece, shapes, v)
             /\ \A j \in 1..Len(H) : Before(H[j], Z[k].piece)
             /\ \A l \in 1..(k - 1) : Z[l].pid = pid => Before(Z[l].piece, Z[k].piece)
  <2>1. CASE k \in 1..Len(Q)
    <3>1. \A l \in 1..(k - 1) : l \in 1..Len(Q)
      BY <1>2, <2>1
    <3>2. Z[k] = Q[k]
      BY <1>2, <2>1
    <3>3. /\ Within(Q[k].piece, shapes, u)
          /\ \A j \in 1..Len(H) : Before(H[j], Q[k].piece)
          /\ \A l \in 1..(k - 1) : Q[l].pid = pid => Before(Q[l].piece, Q[k].piece)
      BY <1>6, <2>1, <3>2 DEF Line, Queued
    <3>4. Within(Q[k].piece, shapes, v)
      BY <1>3, <1>5, <2>1, <3>3
    <3> QED
      BY <1>2, <3>1, <3>2, <3>3, <3>4
  <2>2. CASE k = Len(Q) + 1
    <3>1. \A l \in 1..(k - 1) : l \in 1..Len(Q)
      BY <1>2, <2>2
    <3> QED
      BY <1>2, <2>2, <3>1
  <2> QED
    BY <1>2, <2>1, <2>2
<1>7. Queued(H, Z, pid, shapes, v)
  BY <1>6 DEF Queued
<1>8. \A j \in 1..Len(H) : Within(H[j], shapes, v)
  BY <1>3, <1>4 DEF Line
<1> QED
  BY <1>1, <1>7, <1>8 DEF Line

\* The first piece of what is left of a unit is sent.
LEMMA LineSendsOn ==
  ASSUME NEW H \in Seq(Piece), NEW Q \in Seq(PacketType), NEW R \in Seq(Piece),
         NEW pid, NEW shapes, NEW u \in Nat, Line(H, Q, R, pid, shapes, u), R # << >>,
         NEW r \in Piece, r = Head(R)
  PROVE  Line(H, Append(Q, Packet(pid, r)), Tail(R), pid, shapes, u)
<1>1. PICK S, Z : S = Tail(R) /\ Z = Append(Q, Packet(pid, r))
  OBVIOUS
<1>2. /\ S \in Seq(Piece) /\ Len(S) = Len(R) - 1 /\ Len(R) \in Nat /\ Len(R) > 0
      /\ \A m \in 1..Len(S) : S[m] = R[m + 1]
      /\ Head(R) = R[1]
  BY <1>1, HeadTailProperties, LenProperties, EmptySeq
<1>3. /\ Len(Q) \in Nat /\ Len(Z) = Len(Q) + 1
      /\ Z[Len(Q) + 1].piece = r
      /\ \A k \in 1..Len(Q) : Z[k] = Q[k]
  BY <1>1, AppendProperties, LenProperties DEF Packet
<1>4. 1 \in 1..Len(R) /\ R[1] = r
  BY <1>2
<1>5. /\ Within(r, shapes, u) /\ \A j \in 1..Len(H) : Before(H[j], r)
      /\ \A k \in 1..Len(Q) : Q[k].pid = pid => Before(Q[k].piece, r)
  BY <1>4 DEF Line, Kept
<1>6. ASSUME NEW m \in 1..Len(S)
      PROVE  /\ Within(S[m], shapes, u) /\ ~Starts(S[m])
             /\ \A j \in 1..Len(H) : Before(H[j], S[m])
             /\ \A k \in 1..Len(Z) : Z[k].pid = pid => Before(Z[k].piece, S[m])
             /\ \A l \in 1..(m - 1) : Before(S[l], S[m])
  <2>1. m + 1 \in 1..Len(R) /\ S[m] = R[m + 1] /\ 1 \in 1..((m + 1) - 1)
    BY <1>2
  <2>2. /\ Within(R[m + 1], shapes, u) /\ ~Starts(R[m + 1])
        /\ \A j \in 1..Len(H) : Before(H[j], R[m + 1])
        /\ \A k \in 1..Len(Q) : Q[k].pid = pid => Before(Q[k].piece, R[m + 1])
        /\ \A l \in 1..((m + 1) - 1) : Before(R[l], R[m + 1])
    BY <2>1 DEF Line, Kept
  <2>3. \A k \in 1..Len(Z) : k \in 1..Len(Q) \/ k = Len(Q) + 1
    BY <1>3
  <2>4. Before(r, S[m])
    BY <1>4, <2>1, <2>2
  <2>5. \A k \in 1..Len(Z) : Z[k].pid = pid => Before(Z[k].piece, S[m])
    BY <1>3, <2>1, <2>2, <2>3, <2>4
  <2>6. ASSUME NEW l \in 1..(m - 1) PROVE Before(S[l], S[m])
    <3>1. l \in 1..Len(S) /\ l + 1 \in 1..((m + 1) - 1)
      BY <1>2
    <3> QED
      BY <1>2, <2>1, <2>2, <3>1
  <2> QED
    BY <2>1, <2>2, <2>5, <2>6
<1>7. Kept(H, Z, S, pid, shapes, u)
  BY <1>6 DEF Kept
<1>8. u <= u
  OBVIOUS
<1> QED
  BY <1>1, <1>2, <1>5, <1>7, <1>8, LineSends

\* A unit starts.
LEMMA LineStarts ==
  ASSUME NEW H \in Seq(Piece), NEW Q \in Seq(PacketType), NEW R \in Seq(Piece),
         NEW pid, NEW shapes, NEW u \in 0..MaxUnits, Line(H, Q, R, pid, shapes, u), u + 1 \in 0..MaxUnits,
         NEW shape \in shapes, shape \in Shape, shape \in Seq(Words), shape # << >>,
         NEW unit, unit = [n \in DOMAIN shape |-> [unit |-> u, shape |-> shape, n |-> n]]
  PROVE  /\ unit[1] \in Piece /\ Tail(unit) \in Seq(Piece)
         /\ Line(H, Append(Q, Packet(pid, unit[1])), Tail(unit), pid, shapes, u + 1)
<1>1. PICK N : N = Len(shape)
  OBVIOUS
<1>2. N \in Nat /\ N > 0 /\ DOMAIN shape = 1..N
  BY <1>1, LenProperties, EmptySeq
<1>3. ASSUME NEW m \in 1..N PROVE unit[m] \in Piece /\ unit[m].unit = u /\ unit[m].shape = shape /\ unit[m].n = m
  BY <1>2 DEF Piece
<1>4. unit \in Seq(Piece) /\ Len(unit) = N
  <2>1. unit \in [1..N -> Piece]
    BY <1>2, <1>3
  <2> QED
    BY <1>2, <2>1, SeqDef, LenProperties
<1>5. unit # << >> /\ 1 \in 1..N
  <2>1. Len(<< >>) = 0
    OBVIOUS
  <2> QED
    BY <1>2, <1>4, <2>1
<1>6. PICK S, r, Z : S = Tail(unit) /\ r = unit[1] /\ Z = Append(Q, Packet(pid, r))
  OBVIOUS
<1>7. S \in Seq(Piece) /\ Len(S) = N - 1 /\ \A m \in 1..Len(S) : S[m] = unit[m + 1]
  BY <1>4, <1>5, <1>6, HeadTailProperties
<1>8. /\ Len(Q) \in Nat /\ Len(Z) = Len(Q) + 1
      /\ Z[Len(Q) + 1].piece = r
      /\ \A k \in 1..Len(Q) : Z[k] = Q[k]
  BY <1>6, AppendProperties, LenProperties DEF Packet
<1>9. u \in Nat /\ u < u + 1 /\ u + 1 \in Nat
  BY BoundsAssumption
<1>10. \A q \in Piece : Within(q, shapes, u) => \A m \in 1..N : Before(q, unit[m])
  BY <1>3, PieceIs DEF Within, Before
<1>11. \A m \in 1..N : Within(unit[m], shapes, u + 1)
  BY <1>1, <1>3, <1>9 DEF Within, Fit
<1>12. \A j \in 1..Len(H) : H[j] \in Piece /\ Within(H[j], shapes, u)
  BY ElementOfSeq DEF Line
<1>13. \A k \in 1..Len(Q) : Q[k].pid = pid => Q[k].piece \in Piece /\ Within(Q[k].piece, shapes, u)
  <2>1. \A k \in 1..Len(Q) : Q[k] \in PacketType
    BY ElementOfSeq
  <2> QED
    BY <2>1 DEF Line, Queued, PacketType
<1>14. ASSUME NEW m \in 1..Len(S)
       PROVE  /\ Within(S[m], shapes, u + 1) /\ ~Starts(S[m])
              /\ \A j \in 1..Len(H) : Before(H[j], S[m])
              /\ \A k \in 1..Len(Z) : Z[k].pid = pid => Before(Z[k].piece, S[m])
              /\ \A l \in 1..(m - 1) : Before(S[l], S[m])
  <2>0. m \in 1..(N - 1)
    BY <1>7
  <2>1. m + 1 \in 1..N /\ m \in Nat /\ m > 0
    BY <1>2, <2>0
  <2>9. S[m] = unit[m + 1]
    BY <1>7
  <2>2. ~Starts(S[m])
    BY <1>3, <2>1, <2>9 DEF Starts
  <2>3. \A k \in 1..Len(Z) : k \in 1..Len(Q) \/ k = Len(Q) + 1
    <3>1. Len(Z) = Len(Q) + 1 /\ Len(Q) \in Nat
      BY <1>8
    <3> QED
      BY <3>1
  <2>4. Before(r, S[m])
    BY <1>3, <1>5, <1>6, <2>1, <2>9 DEF Before
  <2>5. \A k \in 1..Len(Z) : Z[k].pid = pid => Before(Z[k].piece, S[m])
    BY <1>8, <1>10, <1>13, <2>1, <2>3, <2>4, <2>9
  <2>6. ASSUME NEW l \in 1..(m - 1) PROVE Before(S[l], S[m])
    <3>1. l \in 1..Len(S) /\ l + 1 \in 1..N /\ l + 1 < m + 1
      BY <1>2, <1>7, <2>0
    <3>2. unit[l + 1].unit = u /\ unit[l + 1].shape = shape /\ unit[l + 1].n = l + 1
      BY <1>3, <3>1
    <3>3. unit[m + 1].unit = u /\ unit[m + 1].shape = shape /\ unit[m + 1].n = m + 1
      BY <1>3, <2>1
    <3>4. S[l] = unit[l + 1]
      BY <1>7, <3>1
    <3> QED
      BY <2>9, <3>1, <3>2, <3>3, <3>4 DEF Before
  <2>7. \A j \in 1..Len(H) : Before(H[j], S[m])
    BY <1>10, <1>12, <2>1, <2>9
  <2>8. Within(S[m], shapes, u + 1)
    BY <1>11, <2>1, <2>9
  <2> QED
    BY <2>2, <2>5, <2>6, <2>7, <2>8
<1>15. Kept(H, Z, S, pid, shapes, u + 1)
  BY <1>14 DEF Kept
<1>16. /\ Within(r, shapes, u + 1) /\ r \in Piece
       /\ \A j \in 1..Len(H) : Before(H[j], r)
       /\ \A k \in 1..Len(Q) : Q[k].pid = pid => Before(Q[k].piece, r)
  BY <1>3, <1>5, <1>6, <1>10, <1>11, <1>12, <1>13
<1>17. Line(H, Z, S, pid, shapes, u + 1)
  <2>1. u + 1 \in Nat /\ u <= u + 1 /\ u \in Nat
    BY <1>9
  <2> QED
    BY <1>6, <1>7, <1>15, <1>16, <2>1, LineSends
<1> QED
  BY <1>6, <1>7, <1>16, <1>17

-----------------------------------------------------------------------------
(* The types and the lines are kept.                                       *)

LEMMA ShapesAre ==
  ASSUME codec \in Codecs, NEW pid \in Elementary, NEW shape \in Shapes(pid)
  PROVE  shape \in Shape /\ shape \in Seq(Words) /\ shape # << >>
<1>1. Shapes(pid) = (IF pid = Video THEN VideoShapes[codec] ELSE AudioShapes)
  BY PidsAssumption DEF Shapes, Elementary
<1>2. CASE pid = Video
  <2>1. shape \in VideoShapes[codec]
    BY <1>1, <1>2
  <2>2. shape \in Seq(ParameterSets \cup {"idr", "slice", "other", "rest"}) \ {<< >>}
    BY <2>1, ShapesAssumption
  <2>3. shape \in Seq(Words)
    <3>1. (ParameterSets \cup {"idr", "slice", "other", "rest"}) \subseteq Words
      BY DEF Words
    <3> QED
      BY <2>2, <3>1
  <2>4. shape \in Shape
    BY <2>1 DEF Shape, Codecs
  <2> QED
    BY <2>2, <2>3, <2>4
<1>3. CASE pid # Video
  <2>1. shape \in AudioShapes
    BY <1>1, <1>3
  <2>2. shape \in Seq({"adts", "rest"}) \ {<< >>}
    BY <2>1, ShapesAssumption
  <2>3. shape \in Seq(Words)
    <3>1. {"adts", "rest"} \subseteq Words
      BY DEF Words
    <3> QED
      BY <2>2, <3>1
  <2>4. shape \in Shape
    BY <2>1 DEF Shape
  <2> QED
    BY <2>2, <2>3, <2>4
<1> QED
  BY <1>2, <1>3

LEMMA SectionIsPiece == Section \in Piece
<1>1. 0 \in 0..MaxUnits /\ 1 \in Nat \ {0}
  BY BoundsAssumption
<1>2. Section.shape \in Shape
  BY DEF Shape
<1> QED
  BY <1>1, <1>2 DEF Section, Piece

LEMMA InitTypeOK == Init => TypeOK
<1> SUFFICES ASSUME Init PROVE TypeOK
  OBVIOUS
<1> USE DEF Init
<1>1. ASSUME NEW x \in Pids, NEW k \in 2..Len(pes_[x]) PROVE FALSE
  <2>1. Len(pes_[x]) = 0
    BY <1>1
  <2> QED
    BY <1>1, <2>1
<1>2. pes_ \in [Pids -> Seq(Piece)] /\ heard \in [Pids -> Seq(Piece)]
  OBVIOUS
<1>3. pending \in [Elementary -> Seq(Piece)]
  OBVIOUS
<1>4. units \in [Elementary -> 0..MaxUnits] /\ sent \in 0..MaxPackets
  BY BoundsAssumption
<1>5. calls \in Seq(Calls) /\ message \in Seq(PacketType) /\ outgoing \in Seq(PacketType)
  OBVIOUS
<1> QED
  BY <1>1, <1>2, <1>3, <1>4, <1>5 DEF TypeOK

\* What a packet of an elementary stream, or a table taken for one, leads to.
LEMMA CollectTypes ==
  ASSUME TypeOK, NEW packet \in PacketType, CollectPacket(packet)
  PROVE  /\ calls' \in Seq(Calls)
         /\ pes_' \in [Pids -> Seq(Piece)] /\ heard' \in [Pids -> Seq(Piece)]
         /\ \A x \in Pids : \A k \in 2..Len(pes_'[x]) : ~Starts(pes_'[x][k])
<1>1. PICK pid, r : pid = packet.pid /\ r = packet.piece
  OBVIOUS
<1>2. pid \in Pids /\ r \in Piece
  BY <1>1 DEF PacketType
<1>3. PICK parsed \in IF Starts(r) THEN ParsePES(pid, pes_[pid]) ELSE {<< >>} : calls' = calls \o parsed
  BY <1>1 DEF CollectPacket
<1>4. /\ pes_[pid] \in Seq(Piece) /\ heard[pid] \in Seq(Piece) /\ calls \in Seq(Calls)
      /\ video_stream_type_ \in Codecs \cup {"other"}
  BY <1>2 DEF TypeOK
<1>5. parsed \in Seq(Calls)
  <2>1. CASE Starts(r) /\ pid \in Elementary
    <3>1. parsed \in ParsePES(pid, pes_[pid])
      BY <1>3, <2>1
    <3>2. AllMadeOf(parsed, pid, pes_[pid])
      BY <1>4, <2>1, <3>1, ParsedIsMade
    <3> QED
      BY <3>2 DEF AllMadeOf
  <2>2. CASE Starts(r) /\ pid \notin Elementary
    <3>1. pid \in Tables
      BY <1>2, <2>2 DEF Pids
    <3>2. parsed = << >>
      BY <1>3, <2>2, <3>1 DEF ParsePES
    <3> QED
      BY <3>2
  <2>3. CASE ~Starts(r)
    BY <1>3, <2>3
  <2> QED
    BY <2>1, <2>2, <2>3
<1>6. calls' \in Seq(Calls)
  BY <1>3, <1>4, <1>5, ConcatProperties
<1>7. PICK g : g = IF Starts(r) THEN <<r>> ELSE Append(pes_[pid], r)
  OBVIOUS
<1>8. pes_' = [pes_ EXCEPT ![pid] = g]
  BY <1>1, <1>7 DEF CollectPacket, CollectPES
<1>9. g \in Seq(Piece)
  BY <1>2, <1>4, <1>7, AppendProperties
<1>10. pes_' \in [Pids -> Seq(Piece)]
  BY <1>8, <1>9 DEF TypeOK
<1>11. heard' \in [Pids -> Seq(Piece)]
  <2>1. Append(heard[pid], r) \in Seq(Piece)
    BY <1>2, <1>4, AppendProperties
  <2> QED
    BY <1>1, <2>1 DEF CollectPacket, TypeOK
<1>12. ASSUME NEW x \in Pids, NEW k \in 2..Len(pes_'[x]) PROVE ~Starts(pes_'[x][k])
  <2>1. CASE x = pid
    <3>1. pes_'[x] = g
      BY <1>2, <1>8, <2>1 DEF TypeOK
    <3>2. CASE Starts(r)
      <4>1. Len(g) = 1
        BY <1>7, <3>2
      <4> QED
        BY <1>12, <3>1, <4>1
    <3>3. CASE ~Starts(r)
      <4>1. g = Append(pes_[pid], r)
        BY <1>7, <3>3
      <4>2. /\ Len(g) = Len(pes_[pid]) + 1 /\ g[Len(pes_[pid]) + 1] = r /\ Len(pes_[pid]) \in Nat
            /\ \A j \in 1..Len(pes_[pid]) : g[j] = pes_[pid][j]
        BY <1>2, <1>4, <4>1, AppendProperties, LenProperties
      <4>3. CASE k = Len(pes_[pid]) + 1
        BY <3>1, <3>3, <4>2, <4>3
      <4>4. CASE k \in 2..Len(pes_[pid])
        <5>1. ~Starts(pes_[pid][k])
          BY <1>2, <4>4 DEF TypeOK
        <5>2. k \in 1..Len(pes_[pid])
          BY <4>2, <4>4
        <5> QED
          BY <3>1, <4>2, <5>1, <5>2
      <4> QED
        BY <1>12, <3>1, <4>2, <4>3, <4>4
    <3> QED
      BY <3>2, <3>3
  <2>2. CASE x # pid
    <3>1. pes_'[x] = pes_[x]
      BY <1>8, <2>2 DEF TypeOK
    <3> QED
      BY <1>12, <3>1 DEF TypeOK
  <2> QED
    BY <2>1, <2>2
<1> QED
  BY <1>6, <1>10, <1>11, <1>12

LEMMA ParseTypes == TypeOK /\ ParseTsSegment => TypeOK'
<1> SUFFICES ASSUME TypeOK, ParseTsSegment PROVE TypeOK'
  OBVIOUS
<1>1. PICK packet : packet = Head(message)
  OBVIOUS
<1>2. packet \in PacketType /\ Tail(message) \in Seq(PacketType)
  BY <1>1, HeadTailProperties DEF ParseTsSegment, TypeOK
<1>3. /\ UNCHANGED sender
      /\ announced' = IF packet.pid = Video /\ Starts(packet.piece) /\ video_stream_type_ = codec
                      THEN announced \cup {packet.piece.unit} ELSE announced
      /\ ParsePAT \/ ParsePMT \/ CollectPacket(packet)
  BY <1>1 DEF ParseTsSegment
<1>4. announced' \subseteq 0..MaxUnits
  <2>1. packet.piece.unit \in 0..MaxUnits
    BY <1>2, PieceIs DEF PacketType
  <2> QED
    BY <1>3, <2>1 DEF TypeOK
<1>5. CASE ParsePAT
  BY <1>2, <1>3, <1>4, <1>5 DEF ParsePAT, TypeOK, sender
<1>6. CASE ParsePMT
  BY <1>2, <1>3, <1>4, <1>6 DEF ParsePMT, TypeOK, sender
<1>7. CASE CollectPacket(packet)
  <2>1. /\ message' = Tail(message) /\ pmt_known' = pmt_known /\ video_stream_type_' = video_stream_type_
    BY <1>7 DEF CollectPacket
  <2>2. /\ calls' \in Seq(Calls)
        /\ pes_' \in [Pids -> Seq(Piece)] /\ heard' \in [Pids -> Seq(Piece)]
        /\ \A x \in Pids : \A k \in 2..Len(pes_'[x]) : ~Starts(pes_'[x][k])
    BY <1>2, <1>7, CollectTypes
  <2> QED
    BY <1>2, <1>3, <1>4, <2>1, <2>2 DEF TypeOK, sender
<1> QED
  BY <1>3, <1>5, <1>6, <1>7

\* What Fill does, whatever the packet.
LEMMA FillTypes ==
  ASSUME TypeOK, NEW packet \in PacketType, Fill(packet)
  PROVE  /\ sent' \in 0..MaxPackets /\ outgoing' \in Seq(PacketType)
         /\ UNCHANGED <<pmt_known, video_stream_type_, pes_, calls, message, heard, announced, codec, described>>
<1>1. sent' \in 0..MaxPackets
  BY BoundsAssumption DEF Fill, TypeOK
<1>2. outgoing' \in Seq(PacketType)
  BY AppendProperties DEF Fill, TypeOK
<1> QED
  BY <1>1, <1>2 DEF Fill, reader, history

LEMMA SendTypes == TypeOK /\ (\E x \in Tables : SendTable(x)) => TypeOK'
<1> SUFFICES ASSUME TypeOK, NEW x \in Tables, SendTable(x) PROVE TypeOK'
  OBVIOUS
<1>1. Packet(x, Section) \in PacketType
  BY SectionIsPiece DEF Packet, PacketType, Pids
<1>2. /\ sent' \in 0..MaxPackets /\ outgoing' \in Seq(PacketType)
      /\ UNCHANGED <<pmt_known, video_stream_type_, pes_, calls, message, heard, announced, codec, described>>
  BY <1>1, FillTypes DEF SendTable
<1> QED
  BY <1>2 DEF SendTable, TypeOK

LEMMA MoveTypes == TypeOK /\ (Arrive \/ Lose \/ UNCHANGED vars) => TypeOK'
<1> SUFFICES ASSUME TypeOK, Arrive \/ Lose \/ UNCHANGED vars PROVE TypeOK'
  OBVIOUS
<1>1. CASE Arrive
  BY <1>1 DEF Arrive, TypeOK, reader, history
<1>2. CASE Lose
  BY <1>2 DEF Lose, TypeOK, reader, history
<1>3. CASE UNCHANGED vars
  BY <1>3 DEF vars, TypeOK, reader, history, sender
<1> QED
  BY <1>1, <1>2, <1>3

\* What starting a unit does.
LEMMA SendStartIs ==
  ASSUME TypeOK, NEW pid \in Elementary, SendStart(pid)
  PROVE  \E shape \in Shapes(pid) :
           LET unit == [n \in DOMAIN shape |-> [unit |-> units[pid], shape |-> shape, n |-> n]] IN
             /\ Fill(Packet(pid, unit[1]))
             /\ pending' = [pending EXCEPT ![pid] = Tail(unit)]
             /\ units' = [units EXCEPT ![pid] = @ + 1]
             /\ pending[pid] = << >>
             /\ shape \in Shape /\ shape \in Seq(Words) /\ shape # << >>
             /\ units[pid] \in 0..MaxUnits /\ units[pid] + 1 \in 0..MaxUnits
<1>1. codec \in Codecs /\ units[pid] \in 0..MaxUnits /\ units[pid] < MaxUnits
  BY DEF TypeOK, SendStart
<1>2. units[pid] + 1 \in 0..MaxUnits
  BY <1>1, BoundsAssumption
<1>3. \A shape \in Shapes(pid) : shape \in Shape /\ shape \in Seq(Words) /\ shape # << >>
  BY <1>1, ShapesAre
<1> QED
  BY <1>1, <1>2, <1>3 DEF SendStart

\* Nothing is sent while a message is parsed.  In the stream of either PID the
\* pieces are in order, and what is collected is the end of what was heard.
Lines ==
  /\ message = << >> \/ outgoing = << >>
  /\ \A x \in Elementary :
       /\ Line(heard[x], message, pending[x], x, Shapes(x), units[x])
       /\ Line(heard[x], outgoing, pending[x], x, Shapes(x), units[x])
       /\ Collected(heard[x], pes_[x])

LEMMA TypesOf ==
  ASSUME TypeOK, NEW x \in Elementary
  PROVE  /\ heard[x] \in Seq(Piece) /\ pes_[x] \in Seq(Piece) /\ pending[x] \in Seq(Piece)
         /\ units[x] \in Nat /\ units[x] \in 0..MaxUnits
         /\ message \in Seq(PacketType) /\ outgoing \in Seq(PacketType)
<1>1. x \in Pids
  BY DEF Pids
<1>2. units[x] \in 0..MaxUnits
  BY DEF TypeOK
<1>3. units[x] \in Nat
  BY <1>2, BoundsAssumption
<1> QED
  BY <1>1, <1>2, <1>3 DEF TypeOK

LEMMA InitLines == Init => Lines
<1> SUFFICES ASSUME Init PROVE Lines
  OBVIOUS
<1>1. message = << >> /\ outgoing = << >>
  BY DEF Init
<1>2. ASSUME NEW x \in Elementary
      PROVE  heard[x] = << >> /\ pes_[x] = << >> /\ pending[x] = << >>
  BY DEF Init, Pids
<1>3. ASSUME NEW shapes, NEW u, NEW x PROVE Line(<< >>, << >>, << >>, x, shapes, u)
  BY DEF Line, Sorted, Queued, Kept
<1>4. Collected(<< >>, << >>)
  BY DEF Collected
<1> QED
  BY <1>1, <1>2, <1>3, <1>4 DEF Lines

\* Filling a packet in, when it goes on with every line.
LEMMA FillKeeps ==
  ASSUME TypeOK, Lines, NEW packet \in PacketType, Fill(packet),
         pending' \in [Elementary -> Seq(Piece)], units' \in [Elementary -> 0..MaxUnits],
         \A x \in Elementary : Line(heard[x], Append(outgoing, packet), pending'[x], x, Shapes(x), units'[x])
  PROVE  TypeOK' /\ Lines'
<1>1. /\ sent' \in 0..MaxPackets /\ outgoing' \in Seq(PacketType)
      /\ UNCHANGED <<pmt_known, video_stream_type_, pes_, calls, message, heard, announced, codec, described>>
  BY FillTypes
<1>2. message = << >> /\ outgoing' = Append(outgoing, packet)
  BY DEF Fill
<1>3. TypeOK'
  BY <1>1 DEF TypeOK
<1>4. ASSUME NEW x \in Elementary
      PROVE  /\ Line(heard[x], message, pending'[x], x, Shapes(x), units'[x])
             /\ Line(heard[x], outgoing', pending'[x], x, Shapes(x), units'[x])
  <2>1. PICK H, Q, R, u : H = heard[x] /\ Q = outgoing' /\ R = pending'[x] /\ u = units'[x]
    OBVIOUS
  <2>2. H \in Seq(Piece) /\ Q \in Seq(PacketType) /\ R \in Seq(Piece) /\ u \in Nat
    <3>1. H \in Seq(Piece)
      BY <2>1, TypesOf
    <3>2. u \in 0..MaxUnits
      BY <2>1
    <3> QED
      BY <1>1, <2>1, <3>1, <3>2, BoundsAssumption
  <2>3. Line(H, Q, R, x, Shapes(x), u)
    BY <1>2, <2>1
  <2>4. Line(H, << >>, R, x, Shapes(x), u)
    BY <2>2, <2>3, LineAlone
  <2> QED
    BY <1>2, <2>1, <2>3, <2>4
<1>5. ASSUME NEW x \in Elementary PROVE Shapes(x)' = Shapes(x)
  BY <1>1 DEF Shapes
<1>6. ASSUME NEW x \in Elementary PROVE Collected(heard[x], pes_[x])
  BY DEF Lines
<1>7. ASSUME NEW x \in Elementary
      PROVE  /\ Line(heard'[x], message', pending'[x], x, Shapes(x)', units'[x])
             /\ Line(heard'[x], outgoing', pending'[x], x, Shapes(x)', units'[x])
             /\ Collected(heard'[x], pes_'[x])
  <2>1. heard' = heard /\ message' = message /\ pes_' = pes_
    BY <1>1
  <2> QED
    BY <1>4, <1>5, <1>6, <2>1
<1>8. message' = << >>
  BY <1>1, <1>2
<1> QED
  BY <1>3, <1>7, <1>8 DEF Lines

LEMMA StartKeeps ==
  ASSUME TypeOK, Lines, NEW pid \in Elementary, SendStart(pid)
  PROVE  TypeOK' /\ Lines'
<1>1. PICK shape \in Shapes(pid) :
           LET unit == [n \in DOMAIN shape |-> [unit |-> units[pid], shape |-> shape, n |-> n]] IN
             /\ Fill(Packet(pid, unit[1]))
             /\ pending' = [pending EXCEPT ![pid] = Tail(unit)]
             /\ units' = [units EXCEPT ![pid] = @ + 1]
             /\ pending[pid] = << >>
             /\ shape \in Shape /\ shape \in Seq(Words) /\ shape # << >>
             /\ units[pid] \in 0..MaxUnits /\ units[pid] + 1 \in 0..MaxUnits
  BY SendStartIs
<1>2. PICK unit : unit = [n \in DOMAIN shape |-> [unit |-> units[pid], shape |-> shape, n |-> n]]
  OBVIOUS
<1>3. PICK r, S, u : r = unit[1] /\ S = Tail(unit) /\ u = units[pid]
  OBVIOUS
<1>4. /\ Fill(Packet(pid, r))
      /\ pending' = [pending EXCEPT ![pid] = S]
      /\ units' = [units EXCEPT ![pid] = u + 1]
      /\ shape \in Shape /\ shape \in Seq(Words) /\ shape # << >>
      /\ u \in 0..MaxUnits /\ u + 1 \in 0..MaxUnits
  BY <1>1, <1>2, <1>3
<1>5. unit = [n \in DOMAIN shape |-> [unit |-> u, shape |-> shape, n |-> n]]
  BY <1>2, <1>3
<1> HIDE <1>1, <1>2
<1>6. /\ r \in Piece /\ S \in Seq(Piece)
      /\ Line(heard[pid], Append(outgoing, Packet(pid, r)), S, pid, Shapes(pid), u + 1)
  <2>1. PICK H, Q, R : H = heard[pid] /\ Q = outgoing /\ R = pending[pid]
    OBVIOUS
  <2>2. H \in Seq(Piece) /\ Q \in Seq(PacketType) /\ R \in Seq(Piece)
    BY <2>1, TypesOf
  <2>3. Line(H, Q, R, pid, Shapes(pid), u)
    BY <1>3, <2>1 DEF Lines
  <2>4. /\ unit[1] \in Piece /\ Tail(unit) \in Seq(Piece)
        /\ Line(H, Append(Q, Packet(pid, unit[1])), Tail(unit), pid, Shapes(pid), u + 1)
    BY <1>4, <1>5, <2>2, <2>3, LineStarts
  <2> QED
    BY <1>3, <2>1, <2>4
<1>7. Packet(pid, r) \in PacketType /\ Packet(pid, r).pid = pid
  BY <1>6 DEF Packet, PacketType, Pids
<1>8. pending' \in [Elementary -> Seq(Piece)] /\ units' \in [Elementary -> 0..MaxUnits]
  BY <1>4, <1>6 DEF TypeOK
<1>9. ASSUME NEW x \in Elementary
      PROVE  Line(heard[x], Append(outgoing, Packet(pid, r)), pending'[x], x, Shapes(x), units'[x])
  <2>1. CASE x = pid
    <3>1. pending'[x] = S /\ units'[x] = u + 1
      BY <1>4, <2>1 DEF TypeOK
    <3> QED
      BY <1>6, <2>1, <3>1
  <2>2. CASE x # pid
    <3>1. pending'[x] = pending[x] /\ units'[x] = units[x]
      BY <1>4, <2>2 DEF TypeOK
    <3>2. Line(heard[x], outgoing, pending[x], x, Shapes(x), units[x])
      BY DEF Lines
    <3>3. Line(heard[x], Append(outgoing, Packet(pid, r)), pending[x], x, Shapes(x), units[x])
      BY <1>7, <2>2, <3>2, LineIgnores, TypesOf
    <3> QED
      BY <3>1, <3>3
  <2> QED
    BY <2>1, <2>2
<1> QED
  BY <1>4, <1>7, <1>8, <1>9, FillKeeps

LEMMA RestKeeps ==
  ASSUME TypeOK, Lines, NEW pid \in Elementary, SendRest(pid)
  PROVE  TypeOK' /\ Lines'
<1>1. PICK R, r : R = pending[pid] /\ r = Head(R)
  OBVIOUS
<1>2. /\ Fill(Packet(pid, r)) /\ R # << >>
      /\ pending' = [pending EXCEPT ![pid] = Tail(R)] /\ units' = units
  BY <1>1 DEF SendRest
<1>3. R \in Seq(Piece)
  BY <1>1, TypesOf
<1>4. r \in Piece /\ Tail(R) \in Seq(Piece)
  BY <1>1, <1>2, <1>3, HeadTailProperties
<1>5. Line(heard[pid], Append(outgoing, Packet(pid, r)), Tail(R), pid, Shapes(pid), units[pid])
  <2>1. Line(heard[pid], outgoing, R, pid, Shapes(pid), units[pid])
    BY <1>1 DEF Lines
  <2> QED
    BY <1>1, <1>2, <1>3, <1>4, <2>1, LineSendsOn, TypesOf
<1>6. Packet(pid, r) \in PacketType /\ Packet(pid, r).pid = pid
  BY <1>4 DEF Packet, PacketType, Pids
<1>7. pending' \in [Elementary -> Seq(Piece)] /\ units' \in [Elementary -> 0..MaxUnits]
  BY <1>2, <1>4 DEF TypeOK
<1>8. ASSUME NEW x \in Elementary
      PROVE  Line(heard[x], Append(outgoing, Packet(pid, r)), pending'[x], x, Shapes(x), units'[x])
  <2>1. CASE x = pid
    <3>1. pending'[x] = Tail(R) /\ units'[x] = units[pid]
      BY <1>2, <2>1 DEF TypeOK
    <3> QED
      BY <1>5, <2>1, <3>1
  <2>2. CASE x # pid
    <3>1. pending'[x] = pending[x] /\ units'[x] = units[x]
      BY <1>2, <2>2 DEF TypeOK
    <3>2. Line(heard[x], outgoing, pending[x], x, Shapes(x), units[x])
      BY DEF Lines
    <3>3. Line(heard[x], Append(outgoing, Packet(pid, r)), pending[x], x, Shapes(x), units[x])
      BY <1>6, <2>2, <3>2, LineIgnores, TypesOf
    <3> QED
      BY <3>1, <3>3
  <2> QED
    BY <2>1, <2>2
<1> QED
  BY <1>2, <1>6, <1>7, <1>8, FillKeeps

LEMMA TableKeeps ==
  ASSUME TypeOK, Lines, NEW t \in Tables, SendTable(t)
  PROVE  TypeOK' /\ Lines'
<1>1. PICK packet : packet = Packet(t, Section)
  OBVIOUS
<1>2. packet \in PacketType /\ packet.pid = t
  BY <1>1, SectionIsPiece DEF Packet, PacketType, Pids
<1>3. Fill(packet) /\ pending' = pending /\ units' = units
  BY <1>1 DEF SendTable
<1>4. ASSUME NEW x \in Elementary
      PROVE  Line(heard[x], Append(outgoing, packet), pending'[x], x, Shapes(x), units'[x])
  <2>1. packet.pid # x
    BY <1>2, PidsAssumption
  <2>2. Line(heard[x], outgoing, pending[x], x, Shapes(x), units[x])
    BY DEF Lines
  <2>3. Line(heard[x], Append(outgoing, packet), pending[x], x, Shapes(x), units[x])
    BY <1>2, <2>1, <2>2, LineIgnores, TypesOf
  <2> QED
    BY <1>3, <2>3
<1>5. pending' \in [Elementary -> Seq(Piece)] /\ units' \in [Elementary -> 0..MaxUnits]
  BY <1>3 DEF TypeOK
<1> QED
  BY <1>2, <1>3, <1>4, <1>5, FillKeeps

LEMMA MoveKeeps ==
  ASSUME TypeOK, Lines, Arrive \/ Lose \/ UNCHANGED vars
  PROVE  TypeOK' /\ Lines'
<1>1. TypeOK'
  BY MoveTypes
<1>2. /\ UNCHANGED <<pes_, heard, codec, pending, units>>
      /\ \/ message' = outgoing /\ outgoing' = << >>
         \/ message' = message /\ outgoing' = << >>
         \/ message' = message /\ outgoing' = outgoing
  BY DEF Arrive, Lose, vars, reader, history, sender
<1>3. message' = << >> \/ outgoing' = << >>
  BY <1>2 DEF Lines
<1>4. ASSUME NEW x \in Elementary
      PROVE  /\ Line(heard[x], message', pending[x], x, Shapes(x), units[x])
             /\ Line(heard[x], outgoing', pending[x], x, Shapes(x), units[x])
             /\ Collected(heard[x], pes_[x])
  <2>1. /\ Line(heard[x], message, pending[x], x, Shapes(x), units[x])
        /\ Line(heard[x], outgoing, pending[x], x, Shapes(x), units[x])
        /\ Collected(heard[x], pes_[x])
    BY DEF Lines
  <2>2. Line(heard[x], << >>, pending[x], x, Shapes(x), units[x])
    BY <2>1, LineAlone, TypesOf
  <2> QED
    BY <1>2, <2>1, <2>2
<1>5. ASSUME NEW x \in Elementary
      PROVE  /\ Line(heard'[x], message', pending'[x], x, Shapes(x)', units'[x])
             /\ Line(heard'[x], outgoing', pending'[x], x, Shapes(x)', units'[x])
             /\ Collected(heard'[x], pes_'[x])
  <2>1. Shapes(x)' = Shapes(x)
    BY <1>2 DEF Shapes
  <2> QED
    BY <1>2, <1>4, <2>1
<1> QED
  BY <1>1, <1>3, <1>5 DEF Lines

\* What ParseTs makes of a packet, in the streams of the two PIDs.
LEMMA ParseIs ==
  ASSUME TypeOK, ParseTsSegment, NEW packet, packet = Head(message)
  PROVE  /\ packet \in PacketType /\ packet.piece \in Piece
         /\ message # << >> /\ message' \in {Tail(message), << >>}
         /\ UNCHANGED <<outgoing, pending, units, codec>>
         /\ \A x \in Elementary :
              /\ heard'[x] = IF packet.pid = x THEN Append(heard[x], packet.piece) ELSE heard[x]
              /\ pes_'[x] = IF packet.pid # x THEN pes_[x]
                            ELSE IF Starts(packet.piece) THEN <<packet.piece>>
                            ELSE Append(pes_[x], packet.piece)
         /\ \E parsed \in IF packet.pid \in Elementary /\ Starts(packet.piece)
                          THEN ParsePES(packet.pid, pes_[packet.pid]) ELSE {<< >>} :
              calls' = calls \o parsed
         /\ video_stream_type_' \in {video_stream_type_, codec}
         /\ announced' = IF packet.pid = Video /\ Starts(packet.piece) /\ video_stream_type_ = codec
                         THEN announced \cup {packet.piece.unit} ELSE announced
<1>1. message # << >> /\ message \in Seq(PacketType)
  BY DEF ParseTsSegment, TypeOK
<1>2. packet \in PacketType
  BY <1>1, HeadTailProperties
<1>3. packet.piece \in Piece /\ packet.pid \in Pids
  BY <1>2 DEF PacketType
<1>4. /\ UNCHANGED <<outgoing, pending, units, codec>>
      /\ announced' = IF packet.pid = Video /\ Starts(packet.piece) /\ video_stream_type_ = codec
                      THEN announced \cup {packet.piece.unit} ELSE announced
  BY DEF ParseTsSegment, sender
<1>5. \/ packet.pid = Pat /\ ParsePAT
      \/ packet.pid = Pmt /\ ParsePMT
      \/ packet.pid \in Elementary /\ CollectPacket(packet)
      \/ packet.pid = Pmt /\ CollectPacket(packet)
  BY DEF ParseTsSegment
<1>6. CASE (packet.pid = Pat /\ ParsePAT) \/ (packet.pid = Pmt /\ ParsePMT)
  <2>1. packet.pid \notin Elementary
    BY <1>6, PidsAssumption DEF Tables
  <2>2. heard' = heard /\ pes_' = pes_ /\ calls' = calls /\ message' \in {Tail(message), << >>}
    BY <1>6 DEF ParsePAT, ParsePMT
  <2>3. video_stream_type_' \in {video_stream_type_, codec}
    BY <1>6 DEF ParsePAT, ParsePMT
  <2>4. calls' = calls \o << >>
    BY <2>2, ConcatEmptySeq DEF TypeOK
  <2> QED
    BY <1>1, <1>2, <1>3, <1>4, <2>1, <2>2, <2>3, <2>4
<1>7. CASE packet.pid \in Elementary /\ CollectPacket(packet)
  <2>1. \A x \in Elementary :
          heard'[x] = IF packet.pid = x THEN Append(heard[x], packet.piece) ELSE heard[x]
    BY <1>7 DEF CollectPacket, TypeOK, Pids
  <2>2. PICK g : g = IF Starts(packet.piece) THEN <<packet.piece>> ELSE Append(pes_[packet.pid], packet.piece)
    OBVIOUS
  <2>3. pes_' = [pes_ EXCEPT ![packet.pid] = g]
    BY <1>7, <2>2 DEF CollectPacket, CollectPES
  <2>4. \A x \in Elementary : pes_'[x] = IF packet.pid # x THEN pes_[x] ELSE g
    BY <2>3 DEF TypeOK, Pids
  <2>5. message' = Tail(message) /\ video_stream_type_' = video_stream_type_
    BY <1>7 DEF CollectPacket
  <2>6. \E parsed \in IF packet.pid \in Elementary /\ Starts(packet.piece)
                      THEN ParsePES(packet.pid, pes_[packet.pid]) ELSE {<< >>} :
          calls' = calls \o parsed
    BY <1>7 DEF CollectPacket
  <2>7. \A x \in Elementary :
          pes_'[x] = IF packet.pid # x THEN pes_[x]
                     ELSE IF Starts(packet.piece) THEN <<packet.piece>>
                     ELSE Append(pes_[x], packet.piece)
    BY <2>2, <2>4
  <2> QED
    BY <1>1, <1>2, <1>3, <1>4, <2>1, <2>5, <2>6, <2>7
<1>8. CASE packet.pid = Pmt /\ CollectPacket(packet)
  <2>1. packet.pid \notin Elementary /\ packet.pid \in Tables
    BY <1>8, PidsAssumption DEF Tables
  <2>2. \A x \in Elementary : heard'[x] = heard[x] /\ pes_'[x] = pes_[x]
    BY <1>8, <2>1 DEF CollectPacket, CollectPES, TypeOK, Pids
  <2>3. message' = Tail(message) /\ video_stream_type_' = video_stream_type_
    BY <1>8 DEF CollectPacket
  <2>4. calls' = calls \o << >>
    BY <1>8, <2>1 DEF CollectPacket, ParsePES
  <2> QED
    BY <1>1, <1>2, <1>3, <1>4, <2>1, <2>2, <2>3, <2>4
<1> QED
  BY <1>5, <1>6, <1>7, <1>8

LEMMA ParseKeeps ==
  ASSUME TypeOK, Lines, ParseTsSegment
  PROVE  TypeOK' /\ Lines'
<1>1. PICK packet : packet = Head(message)
  OBVIOUS
<1>2. PICK r : r = packet.piece
  OBVIOUS
<1>3. /\ packet \in PacketType /\ r \in Piece
      /\ message # << >> /\ message' \in {Tail(message), << >>}
      /\ UNCHANGED <<outgoing, pending, units, codec>>
      /\ \A x \in Elementary :
           /\ heard'[x] = IF packet.pid = x THEN Append(heard[x], r) ELSE heard[x]
           /\ pes_'[x] = IF packet.pid # x THEN pes_[x]
                         ELSE IF Starts(r) THEN <<r>> ELSE Append(pes_[x], r)
  BY <1>1, <1>2, ParseIs
<1>4. TypeOK'
  BY ParseTypes
<1>5. outgoing = << >> /\ outgoing' = << >>
  BY <1>3 DEF Lines
<1>6. ASSUME NEW x \in Elementary
      PROVE  /\ Line(heard'[x], message', pending[x], x, Shapes(x), units[x])
             /\ Line(heard'[x], << >>, pending[x], x, Shapes(x), units[x])
  <2>1. PICK H, R, u : H = heard'[x] /\ R = pending[x] /\ u = units[x]
    OBVIOUS
  <2>2. /\ R \in Seq(Piece) /\ u \in Nat /\ message \in Seq(PacketType) /\ heard[x] \in Seq(Piece)
    BY <2>1, TypesOf
  <2>3. Line(heard[x], message, R, x, Shapes(x), u)
    BY <2>1 DEF Lines
  <2>4. H = IF packet.pid = x THEN Append(heard[x], r) ELSE heard[x]
    BY <1>3, <2>1
  <2>5. H \in Seq(Piece)
    BY <1>3, <2>2, <2>4, AppendProperties
  <2>6. Line(H, Tail(message), R, x, Shapes(x), u)
    <3>1. CASE packet.pid = x
      BY <1>1, <1>2, <1>3, <2>2, <2>3, <2>4, <3>1, LineTakes
    <3>2. CASE packet.pid # x
      BY <1>3, <2>2, <2>3, <2>4, <3>2, LineSkips
    <3> QED
      BY <3>1, <3>2
  <2>7. Tail(message) \in Seq(PacketType)
    BY <1>3, <2>2, HeadTailProperties
  <2>8. Line(H, << >>, R, x, Shapes(x), u)
    BY <2>2, <2>5, <2>6, <2>7, LineAlone
  <2> QED
    BY <1>3, <2>1, <2>6, <2>8
<1>7. ASSUME NEW x \in Elementary PROVE Collected(heard'[x], pes_'[x])
  <2>1. heard[x] \in Seq(Piece) /\ pes_[x] \in Seq(Piece) /\ Collected(heard[x], pes_[x])
    BY TypesOf DEF Lines
  <2>2. CASE packet.pid = x
    <3>1. Collected(Append(heard[x], r), IF Starts(r) THEN <<r>> ELSE Append(pes_[x], r))
      BY <1>3, <2>1, CollectedGrows
    <3>2. heard'[x] = Append(heard[x], r) /\ pes_'[x] = IF Starts(r) THEN <<r>> ELSE Append(pes_[x], r)
      BY <1>3, <2>2
    <3> QED
      BY <3>1, <3>2
  <2>3. CASE packet.pid # x
    <3>1. heard'[x] = heard[x] /\ pes_'[x] = pes_[x]
      BY <1>3, <2>3
    <3> QED
      BY <2>1, <3>1
  <2> QED
    BY <2>2, <2>3
<1>8. ASSUME NEW x \in Elementary
      PROVE  /\ Line(heard'[x], message', pending'[x], x, Shapes(x)', units'[x])
             /\ Line(heard'[x], outgoing', pending'[x], x, Shapes(x)', units'[x])
             /\ Collected(heard'[x], pes_'[x])
  <2>1. Shapes(x)' = Shapes(x)
    BY <1>3 DEF Shapes
  <2>2. outgoing' = << >> /\ pending' = pending /\ units' = units
    BY <1>3, <1>5
  <2> QED
    BY <1>6, <1>7, <2>1, <2>2
<1> QED
  BY <1>4, <1>5, <1>8 DEF Lines

LEMMA NextKeepsLines ==
  ASSUME TypeOK, Lines, [Next]_vars
  PROVE  TypeOK' /\ Lines'
<1>1. CASE ParseTsSegment
  BY <1>1, ParseKeeps
<1>2. ASSUME NEW x \in Elementary, SendStart(x) PROVE TypeOK' /\ Lines'
  BY <1>2, StartKeeps
<1>3. ASSUME NEW x \in Elementary, SendRest(x) PROVE TypeOK' /\ Lines'
  BY <1>3, RestKeeps
<1>4. ASSUME NEW x \in Tables, SendTable(x) PROVE TypeOK' /\ Lines'
  BY <1>4, TableKeeps
<1>5. CASE Arrive \/ Lose \/ UNCHANGED vars
  BY <1>5, MoveKeeps
<1> QED
  BY <1>1, <1>2, <1>3, <1>4, <1>5 DEF Next

\* What the other steps leave alone.
LEMMA OthersLeave ==
  ASSUME [Next]_vars, ~ParseTsSegment
  PROVE  UNCHANGED <<pmt_known, video_stream_type_, pes_, calls, heard, announced, codec>>
<1>1. ASSUME NEW packet, Fill(packet)
      PROVE UNCHANGED <<pmt_known, video_stream_type_, pes_, calls, heard, announced, codec>>
  BY <1>1 DEF Fill, reader, history
<1>2. CASE \E x \in Elementary : SendStart(x) \/ SendRest(x)
  BY <1>1, <1>2 DEF SendStart, SendRest
<1>3. CASE \E x \in Tables : SendTable(x)
  BY <1>1, <1>3 DEF SendTable
<1>4. CASE Arrive \/ Lose \/ UNCHANGED vars
  BY <1>4 DEF Arrive, Lose, vars, reader, history, sender
<1> QED
  BY <1>2, <1>3, <1>4 DEF Next

\* The packet that is parsed is the next of its line.
LEMMA ParsedIsNext ==
  ASSUME TypeOK, Lines, message # << >>, Head(message).pid \in Elementary
  PROVE  LET x == Head(message).pid
             r == Head(message).piece
         IN  /\ r \in Piece /\ Within(r, Shapes(x), units[x])
             /\ \A j \in 1..Len(heard[x]) : Before(heard[x][j], r)
<1>1. PICK x, r : x = Head(message).pid /\ r = Head(message).piece
  OBVIOUS
<1>2. message \in Seq(PacketType)
  BY DEF TypeOK
<1>3. 1 \in 1..Len(message) /\ Head(message) = message[1] /\ message[1] \in PacketType
  BY <1>2, HeadTailProperties, LenProperties, EmptySeq, ElementOfSeq
<1>4. Line(heard[x], message, pending[x], x, Shapes(x), units[x])
  BY <1>1 DEF Lines
<1>5. Within(r, Shapes(x), units[x]) /\ \A j \in 1..Len(heard[x]) : Before(heard[x][j], r)
  BY <1>1, <1>3, <1>4 DEF Line, Queued
<1>6. r \in Piece
  BY <1>1, <1>3 DEF PacketType
<1> QED
  BY <1>1, <1>5, <1>6

-----------------------------------------------------------------------------
(* OwnTimestamp.                                                           *)

\* Something of a later unit was heard.
Closed(q, H) == \E k \in 1..Len(H) : q.unit < H[k].unit

Unstarted(q, H) == \A k \in 1..Len(H) : H[k].unit = q.unit => ~Starts(H[k])

FrameStamped(c, H) ==
  \A q \in c.pieces :
    /\ q \in Piece /\ Closed(q, H)
    /\ \/ c.stamp = StampOf(q.unit) \/ StampOf(q.unit) >= Wrap
       \/ Unstarted(q, H)

\* OwnTimestamp, for pieces of units that are over.
Stamped ==
  \A k \in 1..Len(calls) : calls[k].what = "frame" =>
    calls[k].pid \in Elementary /\ FrameStamped(calls[k], heard[calls[k].pid])

LEMMA ClosedStays ==
  ASSUME NEW H \in Seq(Piece), NEW r \in Piece, NEW q \in Piece, Closed(q, H),
         \A j \in 1..Len(H) : Before(H[j], r)
  PROVE  Closed(q, Append(H, r)) /\ q.unit < r.unit
<1>1. PICK G : G = Append(H, r)
  OBVIOUS
<1>2. Len(G) = Len(H) + 1 /\ Len(H) \in Nat /\ \A j \in 1..Len(H) : G[j] = H[j]
  BY <1>1, AppendProperties, LenProperties
<1>3. PICK k \in 1..Len(H) : q.unit < H[k].unit
  BY DEF Closed
<1>4. H[k] \in Piece /\ H[k].unit <= r.unit
  BY BeforeIs, ElementOfSeq
<1>5. q.unit < r.unit
  BY <1>3, <1>4, PieceIs
<1>6. k \in 1..Len(G)
  BY <1>2
<1> QED
  BY <1>1, <1>2, <1>3, <1>5, <1>6 DEF Closed

LEMMA StampedStays ==
  ASSUME NEW H \in Seq(Piece), NEW r \in Piece, NEW c, FrameStamped(c, H),
         \A j \in 1..Len(H) : Before(H[j], r)
  PROVE  FrameStamped(c, Append(H, r))
<1>1. PICK G : G = Append(H, r)
  OBVIOUS
<1>2. /\ Len(G) = Len(H) + 1 /\ Len(H) \in Nat /\ G[Len(H) + 1] = r
      /\ \A j \in 1..Len(H) : G[j] = H[j]
  BY <1>1, AppendProperties, LenProperties
<1>3. ASSUME NEW q \in c.pieces
      PROVE  /\ q \in Piece /\ Closed(q, G)
             /\ Unstarted(q, H) => Unstarted(q, G)
  <2>1. q \in Piece /\ Closed(q, H)
    BY DEF FrameStamped
  <2>2. Closed(q, G) /\ q.unit < r.unit
    BY <1>1, <2>1, ClosedStays
  <2>3. q.unit # r.unit
    BY <2>1, <2>2, PieceIs
  <2>4. ASSUME Unstarted(q, H), NEW k \in 1..Len(G), G[k].unit = q.unit PROVE ~Starts(G[k])
    <3>1. k # Len(H) + 1
      BY <1>2, <2>3, <2>4
    <3>2. k \in 1..Len(H)
      BY <1>2, <3>1
    <3> QED
      BY <1>2, <2>4, <3>2 DEF Unstarted
  <2> QED
    BY <2>1, <2>2, <2>4 DEF Unstarted
<1>4. FrameStamped(c, G)
  BY <1>3 DEF FrameStamped
<1> QED
  BY <1>1, <1>4

\* What was collected, in what was heard.
LEMMA CollectedIs ==
  ASSUME NEW H \in Seq(Piece), NEW pes \in Seq(Piece), Collected(H, pes), Sorted(H)
  PROVE  /\ Len(H) - Len(pes) \in Nat
         /\ \A j \in 1..Len(pes) : /\ (Len(H) - Len(pes)) + j \in 1..Len(H)
                                   /\ pes[j] = H[(Len(H) - Len(pes)) + j] /\ pes[j] \in Piece
         /\ \A j, k \in 1..Len(pes) : j < k => Before(pes[j], pes[k])
<1>1. PICK D : D = Len(H) - Len(pes)
  OBVIOUS
<1>2. Len(H) \in Nat /\ Len(pes) \in Nat /\ D \in Nat
  BY <1>1, LenProperties DEF Collected
<1>3. ASSUME NEW j \in 1..Len(pes) PROVE D + j \in 1..Len(H) /\ pes[j] = H[D + j] /\ pes[j] \in Piece
  <2>1. D + j \in 1..Len(H)
    BY <1>1, <1>2
  <2>2. pes[j] \in Piece
    BY ElementOfSeq
  <2> QED
    BY <1>1, <2>1, <2>2 DEF Collected
<1>4. ASSUME NEW j \in 1..Len(pes), NEW k \in 1..Len(pes), j < k PROVE Before(pes[j], pes[k])
  <2>1. D + j < D + k
    BY <1>2, <1>4
  <2> QED
    BY <1>3, <2>1 DEF Sorted
<1> QED
  BY <1>1, <1>2, <1>3, <1>4

\* What the first piece collected does not start, nothing that was heard starts.
LEMMA NotStartedBefore ==
  ASSUME NEW H \in Seq(Piece), NEW pes \in Seq(Piece), Collected(H, pes), Sorted(H),
         Len(pes) > 0, NEW j \in 1..Len(pes), pes[j].unit # pes[1].unit,
         NEW k \in 1..Len(H), H[k].unit = pes[j].unit
  PROVE  ~Starts(H[k])
<1>1. PICK D : D = Len(H) - Len(pes)
  OBVIOUS
<1>2. Len(H) \in Nat /\ Len(pes) \in Nat /\ D \in Nat /\ 1 \in 1..Len(pes)
  BY <1>1, LenProperties, CollectedIs
<1>3. /\ D + 1 \in 1..Len(H) /\ pes[1] = H[D + 1] /\ pes[1] \in Piece /\ pes[j] \in Piece
      /\ (1 < j => Before(pes[1], pes[j]))
  BY <1>1, <1>2, CollectedIs
<1>4. pes[1].unit < pes[j].unit
  <2>1. 1 < j
    BY <1>2
  <2> QED
    BY <1>3, <2>1, BeforeIs, PieceIs
<1>5. ASSUME Starts(H[k]) PROVE FALSE
  <2>1. k <= D + 1
    BY <1>1, <1>5 DEF Collected
  <2>2. k # D + 1
    BY <1>3
  <2>3. k < D + 1 /\ D + 1 \in 1..Len(H)
    BY <1>2, <1>3, <2>1, <2>2
  <2>4. Before(H[k], pes[1]) /\ H[k] \in Piece
    BY <1>3, <2>3, ElementOfSeq DEF Sorted
  <2>5. H[k].unit <= pes[1].unit
    BY <1>3, <2>4, BeforeIs
  <2> QED
    BY <1>3, <1>4, <2>4, <2>5, PieceIs
<1> QED
  BY <1>5

LEMMA StampedNew ==
  ASSUME NEW H \in Seq(Piece), NEW pes \in Seq(Piece), Collected(H, pes), Sorted(H),
         NEW r \in Piece, Starts(r), \A j \in 1..Len(H) : Before(H[j], r),
         NEW c, NEW pid, c.what = "frame", MadeOf(c, pid, pes)
  PROVE  FrameStamped(c, Append(H, r))
<1>1. PICK G : G = Append(H, r)
  OBVIOUS
<1>2. /\ Len(G) = Len(H) + 1 /\ Len(H) \in Nat /\ G[Len(H) + 1] = r
      /\ \A j \in 1..Len(H) : G[j] = H[j]
  BY <1>1, AppendProperties, LenProperties
<1>3. Len(pes) > 0 /\ c.stamp = ReadStamp(StampOf(pes[1].unit)) /\ 1 \in 1..Len(pes)
  BY LenProperties DEF MadeOf
<1>4. ASSUME NEW q \in c.pieces
      PROVE  /\ q \in Piece /\ Closed(q, G)
             /\ \/ c.stamp = StampOf(q.unit) \/ StampOf(q.unit) >= Wrap
                \/ Unstarted(q, G)
  <2>1. PICK j \in 1..Len(pes) : q = pes[j]
    BY DEF MadeOf
  <2>2. q \in Piece /\ q.unit < r.unit
    <3>1. PICK x \in 1..Len(H) : q = H[x]
      BY <2>1, CollectedIs
    <3>2. H[x] \in Piece
      BY ElementOfSeq
    <3> QED
      BY <3>1, <3>2, BeforeStart
  <2>3. Closed(q, G)
    <3>1. Len(H) + 1 \in 1..Len(G)
      BY <1>2
    <3> QED
      BY <1>2, <2>2, <3>1 DEF Closed
  <2>4. CASE q.unit = pes[1].unit
    <3>1. StampOf(q.unit) \in Nat
      BY <2>2, PieceIs, BoundsAssumption DEF StampOf
    <3>2. StampOf(q.unit) < Wrap => c.stamp = StampOf(q.unit)
      BY <1>3, <2>4, <3>1, ReadStampIs
    <3>3. StampOf(q.unit) < Wrap \/ StampOf(q.unit) >= Wrap
      BY <3>1, BoundsAssumption
    <3> QED
      BY <2>2, <2>3, <3>2, <3>3
  <2>5. CASE q.unit # pes[1].unit
    <3>1. ASSUME NEW k \in 1..Len(G), G[k].unit = q.unit PROVE ~Starts(G[k])
      <4>1. k # Len(H) + 1
        BY <1>2, <2>2, <3>1, PieceIs
      <4>2. k \in 1..Len(H) /\ G[k] = H[k]
        BY <1>2, <4>1
      <4> QED
        BY <1>3, <2>1, <2>5, <3>1, <4>2, NotStartedBefore
    <3> QED
      BY <2>2, <2>3, <3>1 DEF Unstarted
  <2> QED
    BY <2>4, <2>5
<1>5. FrameStamped(c, G)
  BY <1>4 DEF FrameStamped
<1> QED
  BY <1>1, <1>5

Joined(all, old, new) ==
  /\ \A k \in 1..Len(old) : all[k] = old[k]
  /\ \A k \in 1..Len(new) : all[Len(old) + k] = new[k]
  /\ \A k \in 1..Len(all) : k \in 1..Len(old) \/ \E j \in 1..Len(new) : k = Len(old) + j

\* The calls after the packet was parsed: the ones before, and those parsed.
LEMMA CallsAfter ==
  ASSUME NEW old \in Seq(Calls), NEW new \in Seq(Calls), NEW all, all = old \o new
  PROVE  Joined(all, old, new)
<1>1. Len(old) \in Nat /\ Len(new) \in Nat
  BY LenProperties
<1>2. /\ all \in Seq(Calls) /\ Len(all) = Len(old) + Len(new)
      /\ \A k \in 1..Len(all) : all[k] = IF k <= Len(old) THEN old[k] ELSE new[k - Len(old)]
  BY ConcatProperties
<1>3. ASSUME NEW k \in 1..Len(new) PROVE all[Len(old) + k] = new[k]
  <2>1. Len(old) + k \in 1..Len(all) /\ ~(Len(old) + k <= Len(old)) /\ (Len(old) + k) - Len(old) = k
    BY <1>1, <1>2
  <2> QED
    BY <1>2, <2>1
<1>4. ASSUME NEW k \in 1..Len(all), k \notin 1..Len(old) PROVE \E j \in 1..Len(new) : k = Len(old) + j
  <2>1. k - Len(old) \in 1..Len(new) /\ k = Len(old) + (k - Len(old))
    BY <1>1, <1>2, <1>4
  <2> QED
    BY <2>1
<1>5. \A k \in 1..Len(old) : k \in 1..Len(all) /\ k <= Len(old)
  BY <1>1, <1>2
<1> QED
  BY <1>1, <1>2, <1>3, <1>4, <1>5 DEF Joined

LEMMA ParseKeepsStamped ==
  ASSUME TypeOK, Lines, Stamped, ParseTsSegment
  PROVE  Stamped'
<1>1. PICK packet : packet = Head(message)
  OBVIOUS
<1>2. PICK x, r : x = packet.pid /\ r = packet.piece
  OBVIOUS
<1>3. /\ r \in Piece /\ message # << >>
      /\ \A y \in Elementary : heard'[y] = IF x = y THEN Append(heard[y], r) ELSE heard[y]
      /\ \E parsed \in IF x \in Elementary /\ Starts(r) THEN ParsePES(x, pes_[x]) ELSE {<< >>} :
           calls' = calls \o parsed
  BY <1>1, <1>2, ParseIs
<1>4. calls \in Seq(Calls)
  BY DEF TypeOK
<1>5. x \in Elementary => \A j \in 1..Len(heard[x]) : Before(heard[x][j], r)
  BY <1>1, <1>2, <1>3, ParsedIsNext
<1>6. \A y \in Elementary : heard[y] \in Seq(Piece) /\ pes_[y] \in Seq(Piece)
  BY TypesOf
<1>7. ASSUME NEW k \in 1..Len(calls), calls[k].what = "frame"
      PROVE  calls[k].pid \in Elementary /\ FrameStamped(calls[k], heard'[calls[k].pid])
  <2>1. PICK c, y : c = calls[k] /\ y = c.pid
    OBVIOUS
  <2>2. y \in Elementary /\ FrameStamped(c, heard[y])
    BY <1>7, <2>1 DEF Stamped
  <2>3. FrameStamped(c, heard'[y])
    <3>1. CASE x = y
      <4>1. heard'[y] = Append(heard[y], r)
        BY <1>3, <2>2, <3>1
      <4>2. FrameStamped(c, Append(heard[y], r))
        BY <1>3, <1>5, <1>6, <2>2, <3>1, StampedStays
      <4> QED
        BY <4>1, <4>2
    <3>2. CASE x # y
      <4>1. heard'[y] = heard[y]
        BY <1>3, <2>2, <3>2
      <4> QED
        BY <2>2, <4>1
    <3> QED
      BY <3>1, <3>2
  <2> QED
    BY <2>1, <2>2, <2>3
<1>8. CASE x \in Elementary /\ Starts(r)
  <2>1. PICK parsed \in ParsePES(x, pes_[x]) : calls' = calls \o parsed
    BY <1>3, <1>8
  <2>2. AllMadeOf(parsed, x, pes_[x])
    BY <1>6, <1>8, <2>1, ParsedIsMade DEF TypeOK
  <2>3. parsed \in Seq(Calls)
    BY <2>2 DEF AllMadeOf
  <2>4. heard'[x] = Append(heard[x], r)
    BY <1>3, <1>8
  <2>5. Collected(heard[x], pes_[x]) /\ Sorted(heard[x])
    BY <1>8 DEF Lines, Line
  <2>6. ASSUME NEW j \in 1..Len(parsed), parsed[j].what = "frame"
        PROVE  parsed[j].pid = x /\ FrameStamped(parsed[j], heard'[x])
    <3>1. MadeOf(parsed[j], x, pes_[x])
      BY <2>2 DEF AllMadeOf
    <3>2. FrameStamped(parsed[j], Append(heard[x], r))
      BY <1>3, <1>5, <1>6, <1>8, <2>5, <2>6, <3>1, StampedNew
    <3> QED
      BY <2>4, <2>6, <3>1, <3>2 DEF MadeOf
  <2>7. PICK all : all = calls' /\ all = calls \o parsed
    BY <2>1
  <2>8. /\ \A k \in 1..Len(calls) : all[k] = calls[k]
        /\ \A k \in 1..Len(parsed) : all[Len(calls) + k] = parsed[k]
        /\ \A k \in 1..Len(all) : k \in 1..Len(calls) \/ \E j \in 1..Len(parsed) : k = Len(calls) + j
    <3>1. Joined(all, calls, parsed)
      BY <1>4, <2>3, <2>7, CallsAfter
    <3> QED
      BY <3>1 DEF Joined
  <2>9. ASSUME NEW k \in 1..Len(all), all[k].what = "frame"
        PROVE  all[k].pid \in Elementary /\ FrameStamped(all[k], heard'[all[k].pid])
    <3>1. CASE k \in 1..Len(calls)
      BY <1>7, <2>8, <2>9, <3>1
    <3>2. CASE \E j \in 1..Len(parsed) : k = Len(calls) + j
      <4>1. PICK j \in 1..Len(parsed) : k = Len(calls) + j
        BY <3>2
      <4>2. all[k] = parsed[j]
        BY <2>8, <4>1
      <4> QED
        BY <1>8, <2>6, <2>9, <4>2
    <3> QED
      BY <2>8, <3>1, <3>2
  <2> QED
    BY <2>7, <2>9 DEF Stamped
<1>9. CASE ~(x \in Elementary /\ Starts(r))
  <2>1. calls' = calls \o << >>
    BY <1>3, <1>9
  <2>2. calls' = calls
    BY <1>4, <2>1, ConcatEmptySeq
  <2> QED
    BY <1>7, <2>2 DEF Stamped
<1> QED
  BY <1>8, <1>9

LEMMA NextKeepsStamped ==
  ASSUME TypeOK, Lines, Stamped, [Next]_vars
  PROVE  Stamped'
<1>1. CASE ParseTsSegment
  BY <1>1, ParseKeepsStamped
<1>2. CASE ~ParseTsSegment
  <2>1. calls' = calls /\ heard' = heard
    BY <1>2, OthersLeave
  <2> QED
    BY <2>1 DEF Stamped
<1> QED
  BY <1>1, <1>2

LEMMA InitStamped == Init => Stamped
BY DEF Init, Stamped

LEMMA StampedIsOwn ==
  ASSUME TypeOK, Stamped
  PROVE  OwnTimestamp
<1>1. DOMAIN calls = 1..Len(calls)
  BY DEF TypeOK
<1> SUFFICES ASSUME NEW k \in 1..Len(calls), calls[k].what = "frame", NEW q \in calls[k].pieces
             PROVE  \/ calls[k].stamp = StampOf(q.unit)
                    \/ StampOf(q.unit) >= Wrap
                    \/ \A n \in DOMAIN heard[calls[k].pid] :
                         heard[calls[k].pid][n].unit = q.unit => ~Starts(heard[calls[k].pid][n])
  BY <1>1 DEF OwnTimestamp
<1>2. calls[k].pid \in Elementary /\ FrameStamped(calls[k], heard[calls[k].pid])
  BY DEF Stamped
<1>3. DOMAIN heard[calls[k].pid] = 1..Len(heard[calls[k].pid])
  BY <1>2, TypesOf
<1> QED
  BY <1>2, <1>3 DEF FrameStamped, Unstarted

-----------------------------------------------------------------------------
(* ParameterSetsFirst.                                                     *)

SetsOf(q) == {[q EXCEPT !.n = n] : n \in {n \in DOMAIN q.shape : q.shape[n] \in ParameterSets}}

SetsHeard(q, H) == \A s \in SetsOf(q) : \E k \in 1..Len(H) : H[k] = s

KeyPictures(shapes) ==
  \A shape \in shapes : (\E n \in DOMAIN shape : shape[n] = "idr") => KeyPicture(shape)

Announces(c, q) == c.what = "header" /\ c.pieces = SetsOf(q)

\* ParameterSetsFirst, and that only video has key pictures.
SetsLed ==
  \A k \in 1..Len(calls) : calls[k].what = "frame" =>
    \A q \in calls[k].pieces : Kind(q) = "idr" =>
      /\ calls[k].pid = Video
      /\ SetsHeard(q, heard[Video]) => \E j \in 1..(k - 1) : Announces(calls[j], q)

LEMMA SetOf ==
  ASSUME NEW q \in Piece, NEW n \in DOMAIN q.shape, NEW s, s = [q EXCEPT !.n = n]
  PROVE  s.unit = q.unit /\ s.shape = q.shape /\ s.n = n
BY DEF Piece

LEMMA SetsHeardBefore ==
  ASSUME NEW H \in Seq(Piece), NEW r \in Piece, NEW q \in Piece, Closed(q, H),
         \A j \in 1..Len(H) : Before(H[j], r), SetsHeard(q, Append(H, r))
  PROVE  SetsHeard(q, H)
<1>1. PICK G : G = Append(H, r)
  OBVIOUS
<1>2. /\ Len(G) = Len(H) + 1 /\ Len(H) \in Nat /\ G[Len(H) + 1] = r
      /\ \A j \in 1..Len(H) : G[j] = H[j]
  BY <1>1, AppendProperties, LenProperties
<1>3. q.unit < r.unit
  BY ClosedStays
<1>4. ASSUME NEW s \in SetsOf(q) PROVE \E k \in 1..Len(H) : H[k] = s
  <2>1. PICK k \in 1..Len(G) : G[k] = s
    BY <1>1 DEF SetsHeard
  <2>2. s.unit = q.unit
    BY SetOf DEF SetsOf
  <2>3. k # Len(H) + 1
    BY <1>2, <1>3, <2>1, <2>2, PieceIs
  <2> QED
    BY <1>2, <2>1, <2>3
<1> QED
  BY <1>4 DEF SetsHeard

\* A NAL that has a piece of a key picture's slice starts with it.
LEMMA NalOfKey ==
  ASSUME NEW pes \in Seq(Piece), NEW y \in 1..Len(pes), NEW q \in Nal(pes, y), Kind(q) = "idr"
  PROVE  q = pes[y]
<1>1. PICK j \in y..Len(pes) : q = pes[j] /\ \A k \in (y + 1)..j : Kind(pes[k]) = "rest"
  BY DEF Nal
<1>2. Len(pes) \in Nat
  BY LenProperties
<1>3. j # y => j \in (y + 1)..j
  BY <1>2
<1> QED
  BY <1>1, <1>3

\* A key picture whose parameter sets were heard: they were collected, and are
\* announced at the last of them, before the slice.
LEMMA KeyIsAnnounced ==
  ASSUME NEW H \in Seq(Piece), NEW pes \in Seq(Piece), Collected(H, pes), Sorted(H),
         NEW shapes, NEW u, \A j \in 1..Len(H) : Within(H[j], shapes, u), KeyPictures(shapes),
         \A shape \in shapes : DOMAIN shape = 1..Len(shape) /\ Len(shape) \in Nat,
         Len(pes) > 0, Starts(pes[1]),
         NEW y \in 1..Len(pes), Kind(pes[y]) = "idr", SetsHeard(pes[y], H)
  PROVE  \E x \in 1..Len(pes) : /\ x < y /\ HeaderComplete(pes, x) /\ ~IsFrame(pes, x)
                                /\ Header(pes, x) = SetsOf(pes[y])
<1>1. PICK D : D = Len(H) - Len(pes)
  OBVIOUS
<1>2. /\ Len(H) \in Nat /\ Len(pes) \in Nat /\ D \in Nat /\ 1 \in 1..Len(pes)
      /\ \A j \in 1..Len(pes) : D + j \in 1..Len(H) /\ pes[j] = H[D + j] /\ pes[j] \in Piece
      /\ \A j, k \in 1..Len(pes) : j < k => Before(pes[j], pes[k])
  BY <1>1, LenProperties, CollectedIs
<1>3. PICK q, shape : q = pes[y] /\ shape = q.shape
  OBVIOUS
<1>4. q \in Piece /\ shape \in shapes /\ q.n \in DOMAIN shape /\ shape[q.n] = "idr"
  <2>1. q = H[D + y] /\ D + y \in 1..Len(H) /\ q \in Piece
    BY <1>2, <1>3
  <2>2. shape \in shapes /\ q.n <= Len(shape)
    BY <1>3, <2>1 DEF Within, Fit
  <2>3. shape[q.n] = "idr"
    BY <1>3 DEF Kind
  <2> QED
    BY <2>1, <2>2, <2>3, PieceIs
<1>5. /\ shape[1] \in ParameterSets
      /\ \E m \in 2..Len(shape) :
           /\ shape[m] = "pps"
           /\ \A n \in DOMAIN shape : /\ shape[n] \in ParameterSets => n <= m
                                      /\ shape[n] = "idr" => m < n
  BY <1>4 DEF KeyPictures, KeyPicture
<1>6. PICK m \in 2..Len(shape) :
           /\ shape[m] = "pps"
           /\ \A n \in DOMAIN shape : /\ shape[n] \in ParameterSets => n <= m
                                      /\ shape[n] = "idr" => m < n
  BY <1>5
<1>7. DOMAIN shape = 1..Len(shape) /\ Len(shape) \in Nat /\ m \in DOMAIN shape /\ 1 \in DOMAIN shape
  BY <1>4
<1>8. q.unit = pes[1].unit
  <2>1. PICK s : s = [q EXCEPT !.n = 1]
    OBVIOUS
  <2>2. s.unit = q.unit /\ s.shape = q.shape /\ s.n = 1
    BY <1>3, <1>4, <1>7, <2>1, SetOf
  <2>3. s \in SetsOf(q)
    BY <1>3, <1>5, <1>7, <2>1 DEF SetsOf
  <2>4. PICK k \in 1..Len(H) : H[k] = s
    BY <1>3, <2>3 DEF SetsHeard
  <2>5. Starts(H[k]) /\ H[k].unit = q.unit
    BY <2>2, <2>4 DEF Starts
  <2> QED
    BY <1>3, <2>5, NotStartedBefore
<1>9. ASSUME NEW j \in 1..Len(pes), pes[j].unit = q.unit PROVE pes[j].shape = shape
  <2>1. j < y \/ j = y \/ y < j
    BY <1>2
  <2>2. pes[j] \in Piece
    BY <1>2
  <2> QED
    BY <1>2, <1>3, <1>4, <1>9, <2>1, <2>2, PieceIs DEF Before
<1>10. pes[1].shape = shape /\ pes[1].n = 1
  BY <1>2, <1>8, <1>9 DEF Starts
<1>11. ASSUME NEW n \in DOMAIN shape, shape[n] \in ParameterSets
       PROVE  \E j \in 1..Len(pes) : pes[j] = [q EXCEPT !.n = n] /\ pes[j].unit = q.unit
                                     /\ pes[j].shape = shape /\ pes[j].n = n
  <2>1. PICK s : s = [q EXCEPT !.n = n]
    OBVIOUS
  <2>2. s.unit = q.unit /\ s.shape = shape /\ s.n = n
    BY <1>3, <1>4, <2>1, SetOf
  <2>3. s \in SetsOf(q)
    BY <1>3, <1>11, <2>1 DEF SetsOf
  <2>4. PICK k \in 1..Len(H) : H[k] = s
    BY <1>3, <2>3 DEF SetsHeard
  <2>5. ~(k < D + 1)
    <3>1. SUFFICES ASSUME k < D + 1 PROVE FALSE
      OBVIOUS
    <3>2. Before(H[k], H[D + 1])
      BY <1>2, <3>1 DEF Sorted
    <3>3. Before(s, pes[1]) /\ pes[1] \in Piece
      BY <1>2, <2>4, <3>2
    <3>4. n < 1
      BY <1>4, <1>8, <1>10, <2>2, <3>3, PieceIs DEF Before
    <3> QED
      BY <1>7, <3>4
  <2>6. k - D \in 1..Len(pes) /\ D + (k - D) = k
    BY <1>1, <1>2, <2>5
  <2>7. pes[k - D] = s
    BY <1>2, <2>4, <2>6
  <2> QED
    BY <2>1, <2>2, <2>6, <2>7
<1>12. PICK x \in 1..Len(pes) : pes[x].unit = q.unit /\ pes[x].shape = shape /\ pes[x].n = m
  <2>1. shape[m] \in ParameterSets
    BY <1>6 DEF ParameterSets
  <2> QED
    BY <1>7, <1>11, <2>1
<1>13. x < y
  <2>1. m < q.n
    BY <1>4, <1>6
  <2>2. q.n \in Nat /\ m \in Nat
    BY <1>4, <1>7, PieceIs
  <2>3. x # y
    BY <1>3, <1>12, <2>1, <2>2
  <2>4. ASSUME y < x PROVE FALSE
    <3>1. Before(q, pes[x])
      BY <1>2, <1>3, <2>4
    <3>2. q.unit < q.unit \/ q.n < m
      BY <1>12, <3>1 DEF Before
    <3> QED
      BY <1>4, <2>1, <2>2, <3>2, PieceIs
  <2> QED
    BY <1>2, <2>3, <2>4
<1>14. Kind(pes[x]) = "pps" /\ ~IsFrame(pes, x)
  BY <1>6, <1>12 DEF Kind, IsFrame
<1>15. HeaderComplete(pes, x)
  <2>1. IsHeader(pes, 1)
    BY <1>5, <1>10 DEF IsHeader, Kind
  <2>2. x # 1
    BY <1>7, <1>10, <1>12
  <2>3. 1 \in 1..(x - 1)
    BY <1>2, <2>2
  <2> QED
    BY <1>14, <2>1, <2>3 DEF HeaderComplete
<1>16. ASSUME NEW j \in 1..x, IsHeader(pes, j) PROVE pes[j] \in SetsOf(q)
  <2>1. j \in 1..Len(pes) /\ pes[j] \in Piece /\ pes[1] \in Piece /\ pes[x] \in Piece
    BY <1>2
  <2>2. pes[j].unit <= q.unit
    <3>1. CASE j = x
      BY <1>4, <1>12, <3>1, PieceIs
    <3>2. CASE j < x
      BY <1>2, <1>12, <2>1, <3>2, BeforeIs
    <3> QED
      BY <1>2, <3>1, <3>2
  <2>3. q.unit <= pes[j].unit
    <3>1. CASE j = 1
      BY <1>4, <1>8, <3>1, PieceIs
    <3>2. CASE 1 < j
      BY <1>2, <1>8, <2>1, <3>2, BeforeIs
    <3> QED
      BY <1>2, <3>1, <3>2
  <2>4. pes[j].unit = q.unit
    BY <1>4, <2>1, <2>2, <2>3, PieceIs
  <2>5. pes[j].shape = shape
    BY <1>9, <2>1, <2>4
  <2>6. pes[j].n \in DOMAIN shape
    <3>1. Within(pes[j], shapes, u)
      BY <1>2, <2>1
    <3> QED
      BY <1>7, <2>1, <2>5, <3>1, PieceIs DEF Within, Fit
  <2>7. shape[pes[j].n] \in ParameterSets
    BY <1>16, <2>5 DEF IsHeader, Kind
  <2>8. pes[j] = [q EXCEPT !.n = pes[j].n]
    BY <1>3, <1>4, <2>1, <2>4, <2>5 DEF Piece
  <2> QED
    BY <1>3, <2>6, <2>7, <2>8 DEF SetsOf
<1>17. ASSUME NEW n \in DOMAIN shape, shape[n] \in ParameterSets
       PROVE  \E j \in 1..x : IsHeader(pes, j) /\ pes[j] = [q EXCEPT !.n = n]
  <2>1. PICK j \in 1..Len(pes) : /\ pes[j] = [q EXCEPT !.n = n] /\ pes[j].unit = q.unit
                                 /\ pes[j].shape = shape /\ pes[j].n = n
    BY <1>11, <1>17
  <2>2. n <= m /\ n \in Nat /\ m \in Nat
    BY <1>6, <1>7, <1>17
  <2>3. ASSUME x < j PROVE FALSE
    <3>1. Before(pes[x], pes[j])
      BY <1>2, <2>3
    <3>2. q.unit < q.unit \/ m < n
      BY <1>12, <2>1, <3>1 DEF Before
    <3> QED
      BY <1>4, <2>2, <3>2, PieceIs
  <2>4. j \in 1..x
    BY <1>2, <2>3
  <2>5. IsHeader(pes, j)
    BY <1>17, <2>1 DEF IsHeader, Kind
  <2> QED
    BY <2>1, <2>4, <2>5
<1>18. Header(pes, x) = SetsOf(q)
  <2>1. Header(pes, x) \subseteq SetsOf(q)
    BY <1>16 DEF Header
  <2>2. SetsOf(q) \subseteq Header(pes, x)
    <3> SUFFICES ASSUME NEW s \in SetsOf(q) PROVE s \in Header(pes, x)
      OBVIOUS
    <3>1. PICK n \in DOMAIN shape : shape[n] \in ParameterSets /\ s = [q EXCEPT !.n = n]
      BY <1>3 DEF SetsOf
    <3>2. PICK j \in 1..x : IsHeader(pes, j) /\ pes[j] = s
      BY <1>17, <3>1
    <3> QED
      BY <3>2 DEF Header
  <2> QED
    BY <2>1, <2>2
<1> QED
  BY <1>3, <1>13, <1>14, <1>15, <1>18

\* What a parse of video that yields frames has dispatched.
LEMMA VideoParsed ==
  ASSUME NEW pes \in Seq(Piece), NEW parsed \in ParsePES(Video, pes),
         NEW k \in 1..Len(parsed), parsed[k].what = "frame",
         video_stream_type_ \in Codecs \cup {"other"}
  PROVE  /\ Len(pes) > 0 /\ Starts(pes[1])
         /\ parsed \in Dispatched(pes, ReadStamp(StampOf(pes[1].unit)))
<1>1. parsed # << >>
  <2>1. Len(<< >>) = 0
    OBVIOUS
  <2> QED
    BY <2>1
<1>2. parsed # <<Junk>>
  <2>1. Len(<<Junk>>) = 1 /\ <<Junk>>[1] = Junk
    OBVIOUS
  <2>2. SUFFICES ASSUME parsed = <<Junk>> PROVE FALSE
    OBVIOUS
  <2>3. k = 1
    BY <2>1, <2>2
  <2> QED
    BY <2>1, <2>2, <2>3, JunkIsCall
<1>3. pes # << >> /\ Starts(pes[1])
  BY <1>1, <1>2 DEF ParsePES
<1>4. PICK stamp : stamp = ReadStamp(StampOf(pes[1].unit))
  OBVIOUS
<1>5. parsed \in OnVideo(pes, stamp)
  <2>1. Video \notin Tables
    BY PidsAssumption DEF Elementary
  <2> QED
    BY <1>3, <1>4, <2>1 DEF ParsePES
<1>6. parsed \in Dispatched(pes, stamp)
  <2>1. CASE video_stream_type_ = "h264"
    BY <1>1, <1>2, <1>5, <2>1 DEF OnVideo, OnH264Video
  <2>2. CASE video_stream_type_ = "h265"
    BY <1>1, <1>2, <1>5, <2>2 DEF OnVideo, OnH265Video
  <2>3. CASE video_stream_type_ = "other"
    BY <1>1, <1>5, <2>3 DEF OnVideo
  <2> QED
    BY <2>1, <2>2, <2>3 DEF Codecs
<1>7. Len(pes) > 0
  BY <1>3, LenProperties, EmptySeq
<1> QED
  BY <1>3, <1>4, <1>6, <1>7

\* The calls of a dispatch, one for each place, in their order.
LEMMA DispatchOrder ==
  ASSUME NEW pes \in Seq(Piece), NEW stamp, NEW parsed \in Dispatched(pes, stamp)
  PROVE  \E at \in [1..Len(parsed) -> VideoPlaces(pes)] :
           /\ Len(parsed) \in Nat /\ VideoPlaces(pes) \subseteq 1..Len(pes) /\ Len(pes) \in Nat
           /\ \A k \in 1..Len(parsed) : parsed[k] = Dispatch(pes, stamp, at[k])
           /\ \A j, k \in 1..Len(parsed) : j < k => at[j] < at[k]
           /\ \A x \in VideoPlaces(pes) : \E k \in 1..Len(parsed) : at[k] = x
<1>1. PICK at \in InOrder(VideoPlaces(pes)) :
        parsed = [k \in DOMAIN at |-> Dispatch(pes, stamp, at[k])]
  BY DispatchedIs
<1>2. PICK N : N = Cardinality(VideoPlaces(pes))
  OBVIOUS
<1>3. /\ N \in Nat /\ at \in [1..N -> VideoPlaces(pes)]
      /\ \A j, k \in 1..N : j < k => at[j] < at[k]
      /\ \A x \in VideoPlaces(pes) : \E k \in 1..N : at[k] = x
      /\ VideoPlaces(pes) \subseteq 1..Len(pes) /\ Len(pes) \in Nat
  BY <1>2, VideoPlacesAre, EachHasAPlace
<1>4. DOMAIN parsed = 1..N /\ \A k \in 1..N : parsed[k] = Dispatch(pes, stamp, at[k])
  BY <1>1, <1>3
<1>5. Len(parsed) = N
  <2>1. parsed = [k \in 1..N |-> Dispatch(pes, stamp, at[k])]
    BY <1>1, <1>3
  <2>2. PICK S : S = {Dispatch(pes, stamp, at[k]) : k \in 1..N}
    OBVIOUS
  <2>3. parsed \in [1..N -> S]
    BY <2>1, <2>2
  <2>4. parsed \in Seq(S)
    BY <1>3, <2>3, SeqDef
  <2>5. Len(parsed) \in Nat /\ DOMAIN parsed = 1..Len(parsed)
    BY <2>4, LenProperties
  <2> QED
    BY <1>3, <1>4, <2>5
<1> QED
  BY <1>3, <1>4, <1>5

\* The last of the parameter sets is dispatched before the slice.
LEMMA DispatchLed ==
  ASSUME NEW H \in Seq(Piece), NEW pes \in Seq(Piece), Collected(H, pes), Sorted(H),
         NEW shapes, NEW u, \A j \in 1..Len(H) : Within(H[j], shapes, u), KeyPictures(shapes),
         \A shape \in shapes : DOMAIN shape = 1..Len(shape) /\ Len(shape) \in Nat,
         Len(pes) > 0, Starts(pes[1]),
         NEW stamp, NEW parsed \in Dispatched(pes, stamp),
         NEW k \in 1..Len(parsed), parsed[k].what = "frame",
         NEW q \in parsed[k].pieces, Kind(q) = "idr", SetsHeard(q, H)
  PROVE  \E j \in 1..(k - 1) : Announces(parsed[j], q)
<1>1. PICK at \in [1..Len(parsed) -> VideoPlaces(pes)] :
           /\ Len(parsed) \in Nat /\ VideoPlaces(pes) \subseteq 1..Len(pes) /\ Len(pes) \in Nat
           /\ \A n \in 1..Len(parsed) : parsed[n] = Dispatch(pes, stamp, at[n])
           /\ \A j, n \in 1..Len(parsed) : j < n => at[j] < at[n]
           /\ \A x \in VideoPlaces(pes) : \E n \in 1..Len(parsed) : at[n] = x
  BY DispatchOrder
<1>2. PICK y : y = at[k]
  OBVIOUS
<1>3. y \in 1..Len(pes) /\ parsed[k] = Dispatch(pes, stamp, y)
  BY <1>1, <1>2
<1>4. q \in Nal(pes, y)
  BY <1>3 DEF Dispatch, Call
<1>5. q = pes[y]
  BY <1>3, <1>4, NalOfKey
<1>6. PICK x \in 1..Len(pes) : /\ x < y /\ HeaderComplete(pes, x) /\ ~IsFrame(pes, x)
                               /\ Header(pes, x) = SetsOf(q)
  BY <1>3, <1>5, KeyIsAnnounced
<1>7. x \in VideoPlaces(pes)
  BY <1>6 DEF VideoPlaces
<1>8. PICK j \in 1..Len(parsed) : at[j] = x
  BY <1>1, <1>7
<1>9. j \in 1..(k - 1)
  <2>1. j # k
    BY <1>1, <1>2, <1>3, <1>6, <1>8
  <2>2. ~(k < j)
    <3>1. SUFFICES ASSUME k < j PROVE FALSE
      OBVIOUS
    <3>2. y < x
      BY <1>1, <1>2, <1>8, <3>1
    <3> QED
      BY <1>1, <1>3, <1>6, <3>2
  <2> QED
    BY <1>1, <2>1, <2>2
<1>10. parsed[j] = Call("header", Video, NoStamp, Header(pes, x))
  BY <1>1, <1>6, <1>8 DEF Dispatch
<1>11. Announces(parsed[j], q)
  BY <1>6, <1>10 DEF Announces, Call
<1> QED
  BY <1>9, <1>11

LEMMA ShapesHave ==
  ASSUME codec \in Codecs
  PROVE  /\ KeyPictures(Shapes(Video))
         /\ \A x \in Elementary : \A shape \in Shapes(x) : DOMAIN shape = 1..Len(shape) /\ Len(shape) \in Nat
         /\ \A shape \in Shapes(Audio) : \A n \in DOMAIN shape : shape[n] \in {"adts", "rest"}
         /\ \A shape \in Shapes(Video) : \A n \in DOMAIN shape : shape[n] # "adts"
<1>1. Shapes(Video) = VideoShapes[codec] /\ Shapes(Audio) = AudioShapes
  BY PidsAssumption DEF Shapes, Elementary
<1>2. \A shape \in Shapes(Video) :
        /\ shape \in Seq(ParameterSets \cup {"idr", "slice", "other", "rest"})
        /\ (\E n \in DOMAIN shape : shape[n] = "idr") => KeyPicture(shape)
  BY <1>1, ShapesAssumption
<1>3. \A shape \in Shapes(Audio) : shape \in Seq({"adts", "rest"})
  BY <1>1, ShapesAssumption
<1>4. ASSUME NEW x \in Elementary, NEW shape \in Shapes(x)
      PROVE  DOMAIN shape = 1..Len(shape) /\ Len(shape) \in Nat
  <2>1. shape \in Seq(Words)
    BY <1>4, ShapesAre
  <2> QED
    BY <2>1, LenProperties
<1>5. ASSUME NEW shape \in Shapes(Audio), NEW n \in DOMAIN shape PROVE shape[n] \in {"adts", "rest"}
  BY <1>3, <1>5
<1>6. ASSUME NEW shape \in Shapes(Video), NEW n \in DOMAIN shape PROVE shape[n] # "adts"
  <2>1. shape \in Seq(ParameterSets \cup {"idr", "slice", "other", "rest"})
    BY <1>2, <1>6
  <2>2. shape[n] \in ParameterSets \cup {"idr", "slice", "other", "rest"}
    BY <1>6, <2>1
  <2> QED
    BY <2>2 DEF ParameterSets
<1>7. KeyPictures(Shapes(Video))
  BY <1>2 DEF KeyPictures
<1> QED
  BY <1>4, <1>5, <1>6, <1>7

LEMMA ParsedLed ==
  ASSUME TypeOK, Lines, NEW x \in Elementary, NEW parsed \in ParsePES(x, pes_[x]),
         NEW k \in 1..Len(parsed), parsed[k].what = "frame",
         NEW q \in parsed[k].pieces, Kind(q) = "idr"
  PROVE  x = Video /\ (SetsHeard(q, heard[Video]) => \E j \in 1..(k - 1) : Announces(parsed[j], q))
<1>1. PICK H, pes, u : H = heard[x] /\ pes = pes_[x] /\ u = units[x]
  OBVIOUS
<1>2. /\ H \in Seq(Piece) /\ pes \in Seq(Piece) /\ codec \in Codecs
      /\ video_stream_type_ \in Codecs \cup {"other"}
  BY <1>1, TypesOf DEF TypeOK
<1>3. Collected(H, pes) /\ Sorted(H) /\ \A j \in 1..Len(H) : Within(H[j], Shapes(x), u)
  BY <1>1 DEF Lines, Line
<1>4. x = Video
  <2>1. SUFFICES ASSUME x # Video PROVE FALSE
    OBVIOUS
  <2>2. x = Audio
    BY <2>1 DEF Elementary
  <2>3. AllMadeOf(parsed, x, pes)
    BY <1>1, <1>2, ParsedIsMade
  <2>4. MadeOf(parsed[k], x, pes)
    BY <2>3 DEF AllMadeOf
  <2>5. PICK j \in 1..Len(pes) : q = pes[j]
    BY <2>4 DEF MadeOf
  <2>6. PICK n \in 1..Len(H) : q = H[n]
    BY <1>2, <1>3, <2>5, CollectedIs
  <2>7. q \in Piece /\ q.shape \in Shapes(Audio) /\ q.n <= Len(q.shape)
    BY <1>2, <1>3, <2>2, <2>6, ElementOfSeq DEF Within, Fit
  <2>8. DOMAIN q.shape = 1..Len(q.shape) /\ Len(q.shape) \in Nat
    BY <1>2, <2>2, <2>7, ShapesHave
  <2>9. q.n \in DOMAIN q.shape
    BY <2>7, <2>8, PieceIs
  <2>10. Kind(q) \in {"adts", "rest"}
    BY <1>2, <2>7, <2>9, ShapesHave DEF Kind
  <2> QED
    BY <2>10
<1>5. ASSUME SetsHeard(q, heard[Video]) PROVE \E j \in 1..(k - 1) : Announces(parsed[j], q)
  <2>1. PICK stamp : stamp = ReadStamp(StampOf(pes[1].unit))
    OBVIOUS
  <2>2. Len(pes) > 0 /\ Starts(pes[1]) /\ parsed \in Dispatched(pes, stamp)
    <3>1. parsed \in ParsePES(Video, pes)
      BY <1>1, <1>4
    <3> QED
      BY <1>2, <2>1, <3>1, VideoParsed
  <2>3. SetsHeard(q, H)
    BY <1>1, <1>4, <1>5
  <2>4. KeyPictures(Shapes(x)) /\ \A shape \in Shapes(x) : DOMAIN shape = 1..Len(shape) /\ Len(shape) \in Nat
    BY <1>2, <1>4, ShapesHave
  <2> QED
    BY <1>2, <1>3, <2>2, <2>3, <2>4, DispatchLed
<1> QED
  BY <1>4, <1>5

LEMMA ParseKeepsLed ==
  ASSUME TypeOK, Lines, Stamped, SetsLed, ParseTsSegment
  PROVE  SetsLed'
<1>1. PICK packet : packet = Head(message)
  OBVIOUS
<1>2. PICK x, r : x = packet.pid /\ r = packet.piece
  OBVIOUS
<1>3. /\ r \in Piece /\ message # << >>
      /\ \A y \in Elementary : heard'[y] = IF x = y THEN Append(heard[y], r) ELSE heard[y]
      /\ \E parsed \in IF x \in Elementary /\ Starts(r) THEN ParsePES(x, pes_[x]) ELSE {<< >>} :
           calls' = calls \o parsed
  BY <1>1, <1>2, ParseIs
<1>4. calls \in Seq(Calls) /\ Video \in Elementary
  BY DEF TypeOK, Elementary
<1>5. x \in Elementary => \A j \in 1..Len(heard[x]) : Before(heard[x][j], r)
  BY <1>1, <1>2, <1>3, ParsedIsNext
<1>6. \A y \in Elementary : heard[y] \in Seq(Piece) /\ pes_[y] \in Seq(Piece)
  BY TypesOf
<1>7. ASSUME NEW q \in Piece, Closed(q, heard[Video]), SetsHeard(q, heard'[Video])
      PROVE  SetsHeard(q, heard[Video])
  <2>1. CASE x = Video
    <3>1. heard'[Video] = Append(heard[Video], r)
      BY <1>3, <1>4, <2>1
    <3> QED
      BY <1>3, <1>4, <1>5, <1>6, <1>7, <2>1, <3>1, SetsHeardBefore
  <2>2. CASE x # Video
    BY <1>3, <1>4, <1>7, <2>2
  <2> QED
    BY <2>1, <2>2
<1>8. ASSUME NEW k \in 1..Len(calls), calls[k].what = "frame", NEW q \in calls[k].pieces, Kind(q) = "idr"
      PROVE  /\ calls[k].pid = Video
             /\ SetsHeard(q, heard'[Video]) => \E j \in 1..(k - 1) : Announces(calls[j], q)
  <2>1. calls[k].pid = Video /\ (SetsHeard(q, heard[Video]) => \E j \in 1..(k - 1) : Announces(calls[j], q))
    BY <1>8 DEF SetsLed
  <2>2. q \in Piece /\ Closed(q, heard[Video])
    BY <1>8, <2>1 DEF Stamped, FrameStamped
  <2> QED
    BY <1>7, <2>1, <2>2
<1>9. CASE x \in Elementary /\ Starts(r)
  <2>1. PICK parsed \in ParsePES(x, pes_[x]) : calls' = calls \o parsed
    BY <1>3, <1>9
  <2>2. AllMadeOf(parsed, x, pes_[x])
    BY <1>6, <1>9, <2>1, ParsedIsMade DEF TypeOK
  <2>3. parsed \in Seq(Calls)
    BY <2>2 DEF AllMadeOf
  <2>4. ASSUME NEW n \in 1..Len(parsed), parsed[n].what = "frame", NEW q \in parsed[n].pieces, Kind(q) = "idr"
        PROVE  /\ parsed[n].pid = Video
               /\ SetsHeard(q, heard'[Video]) => \E j \in 1..(n - 1) : Announces(parsed[j], q)
    <3>1. x = Video /\ (SetsHeard(q, heard[Video]) => \E j \in 1..(n - 1) : Announces(parsed[j], q))
      BY <1>9, <2>1, <2>4, ParsedLed
    <3>2. MadeOf(parsed[n], x, pes_[x])
      BY <2>2 DEF AllMadeOf
    <3>3. parsed[n].pid = Video
      BY <2>4, <3>1, <3>2 DEF MadeOf
    <3>4. ASSUME SetsHeard(q, heard'[Video]) PROVE SetsHeard(q, heard[Video])
      <4>1. PICK G, H : G = heard'[Video] /\ H = heard[Video]
        OBVIOUS
      <4>2. G = Append(H, r) /\ H \in Seq(Piece) /\ Sorted(H) /\ Collected(H, pes_[x]) /\ pes_[x] \in Seq(Piece)
        BY <1>3, <1>4, <1>6, <3>1, <4>1 DEF Lines, Line
      <4>3. PICK j \in 1..Len(pes_[x]) : q = pes_[x][j]
        BY <2>4, <3>2 DEF MadeOf
      <4>4. PICK m \in 1..Len(H) : q = H[m]
        BY <4>2, <4>3, CollectedIs
      <4>5. q \in Piece
        BY <4>2, <4>4, ElementOfSeq
      <4>6. q.unit < r.unit
        BY <1>3, <1>4, <1>5, <1>9, <3>1, <4>1, <4>4, <4>5, BeforeStart
      <4>7. ASSUME NEW s \in SetsOf(q) PROVE \E z \in 1..Len(H) : H[z] = s
        <5>1. PICK z \in 1..Len(G) : G[z] = s
          BY <3>4, <4>1 DEF SetsHeard
        <5>2. s.unit = q.unit
          BY <4>5, SetOf DEF SetsOf
        <5>3. /\ Len(G) = Len(H) + 1 /\ Len(H) \in Nat /\ G[Len(H) + 1] = r
              /\ \A l \in 1..Len(H) : G[l] = H[l]
          BY <1>3, <4>2, AppendProperties, LenProperties
        <5>4. z # Len(H) + 1
          BY <1>3, <4>5, <4>6, <5>1, <5>2, <5>3, PieceIs
        <5>5. z \in 1..Len(H)
          BY <5>1, <5>3, <5>4
        <5> QED
          BY <5>1, <5>3, <5>5
      <4> QED
        BY <4>1, <4>7 DEF SetsHeard
    <3> QED
      BY <3>1, <3>3, <3>4
  <2>5. PICK all : all = calls' /\ all = calls \o parsed
    BY <2>1
  <2>6. /\ \A k \in 1..Len(calls) : all[k] = calls[k]
        /\ \A k \in 1..Len(parsed) : all[Len(calls) + k] = parsed[k]
        /\ \A k \in 1..Len(all) : k \in 1..Len(calls) \/ \E j \in 1..Len(parsed) : k = Len(calls) + j
    BY <1>4, <2>3, <2>5, CallsAfter DEF Joined
  <2>8. Len(calls) \in Nat /\ Len(parsed) \in Nat
    BY <1>4, <2>3, LenProperties
  <2>7. ASSUME NEW k \in 1..Len(all), all[k].what = "frame", NEW q \in all[k].pieces, Kind(q) = "idr"
        PROVE  /\ all[k].pid = Video
               /\ SetsHeard(q, heard'[Video]) => \E j \in 1..(k - 1) : Announces(all[j], q)
    <3>1. CASE k \in 1..Len(calls)
      <4>1. all[k] = calls[k]
        BY <2>6, <2>8, <3>1
      <4>2. /\ calls[k].pid = Video
            /\ SetsHeard(q, heard'[Video]) => \E j \in 1..(k - 1) : Announces(calls[j], q)
        BY <1>8, <2>7, <3>1, <4>1
      <4>3. \A j \in 1..(k - 1) : j \in 1..Len(calls)
        BY <2>6, <2>8, <3>1
      <4> QED
        BY <2>6, <2>8, <4>1, <4>2, <4>3
    <3>2. CASE \E j \in 1..Len(parsed) : k = Len(calls) + j
      <4>1. PICK n \in 1..Len(parsed) : k = Len(calls) + n
        BY <3>2
      <4>2. all[k] = parsed[n]
        BY <2>6, <2>8, <4>1
      <4>3. /\ parsed[n].pid = Video
            /\ SetsHeard(q, heard'[Video]) => \E j \in 1..(n - 1) : Announces(parsed[j], q)
        BY <2>4, <2>7, <4>2
      <4>4. \A j \in 1..(n - 1) : /\ j \in 1..Len(parsed) /\ Len(calls) + j \in 1..(k - 1)
                                  /\ all[Len(calls) + j] = parsed[j]
        BY <2>6, <2>8, <4>1
      <4> QED
        BY <4>2, <4>3, <4>4
    <3> QED
      BY <2>6, <2>8, <3>1, <3>2
  <2> QED
    BY <2>5, <2>7 DEF SetsLed
<1>10. CASE ~(x \in Elementary /\ Starts(r))
  <2>1. calls' = calls \o << >>
    BY <1>3, <1>10
  <2>2. calls' = calls
    BY <1>4, <2>1, ConcatEmptySeq
  <2> QED
    BY <1>8, <2>2 DEF SetsLed
<1> QED
  BY <1>9, <1>10

LEMMA NextKeepsLed ==
  ASSUME TypeOK, Lines, Stamped, SetsLed, [Next]_vars
  PROVE  SetsLed'
<1>1. CASE ParseTsSegment
  BY <1>1, ParseKeepsLed
<1>2. CASE ~ParseTsSegment
  <2>1. calls' = calls /\ heard' = heard
    BY <1>2, OthersLeave
  <2> QED
    BY <2>1 DEF SetsLed
<1> QED
  BY <1>1, <1>2

LEMMA InitLed == Init => SetsLed
BY DEF Init, SetsLed

LEMMA LedIsFirst ==
  ASSUME TypeOK, SetsLed
  PROVE  ParameterSetsFirst
<1>1. DOMAIN calls = 1..Len(calls) /\ DOMAIN heard[Video] = 1..Len(heard[Video])
  BY DEF TypeOK, Elementary, Pids
<1>2. ASSUME NEW k \in 1..Len(calls), calls[k].what = "frame",
             NEW q \in calls[k].pieces, Kind(q) = "idr",
             \A s \in SetsOf(q) : \E n \in DOMAIN heard[Video] : heard[Video][n] = s
      PROVE  \E j \in 1..(k - 1) : calls[j].what = "header" /\ calls[j].pieces = SetsOf(q)
  <2>1. SetsHeard(q, heard[Video])
    BY <1>1, <1>2 DEF SetsHeard
  <2> QED
    BY <1>2, <2>1 DEF SetsLed, Announces
<1>3. \A k \in DOMAIN calls : calls[k].what = "frame" =>
        \A q \in calls[k].pieces : Kind(q) = "idr" =>
          ((\A s \in SetsOf(q) : \E n \in DOMAIN heard[Video] : heard[Video][n] = s) =>
             \E j \in 1..(k - 1) : calls[j].what = "header" /\ calls[j].pieces = SetsOf(q))
  BY <1>1, <1>2
<1> QED
  BY <1>3 DEF ParameterSetsFirst, SetsOf

-----------------------------------------------------------------------------
(* IntactUnitsDelivered.                                                   *)

FramesIn(C, pid, unit) ==
  {k \in 1..Len(C) : /\ C[k].what = "frame" /\ C[k].pid = pid
                     /\ \E piece \in C[k].pieces : piece.unit = unit}

PartsFrom(unit, shape, start) ==
  {[unit |-> unit, shape |-> shape, n |-> n] : n \in FrameParts(shape, start)}

\* A frame for each place where one starts, and in their order.
Match(C, call, unit, shape) ==
  \A start \in FrameStarts(shape) :
    /\ C[call[start]].pieces = PartsFrom(unit, shape, start)
    /\ \A later \in FrameStarts(shape) : start < later => call[start] < call[later]

PassedOn(C, pid, unit, shape) ==
  \E call \in [FrameStarts(shape) -> FramesIn(C, pid, unit)] :
    /\ {call[start] : start \in FrameStarts(shape)} = FramesIn(C, pid, unit)
    /\ Match(C, call, unit, shape)

Whole(H, at) ==
  /\ Starts(H[at]) /\ at + Len(H[at].shape) <= Len(H) /\ Starts(H[at + Len(H[at].shape)])
  /\ \A n \in 1..Len(H[at].shape) : H[(at + n) - 1] = [H[at] EXCEPT !.n = n]

\* IntactUnitsDelivered, of the stream of a PID.
Delivered(H, C, pid, known) ==
  \A at \in 1..Len(H) :
    Whole(H, at) /\ (pid = Audio \/ H[at].unit \in known) => PassedOn(C, pid, H[at].unit, H[at].shape)

\* The codec of units that are announced is known.
Known == announced # {} => video_stream_type_ = codec

\* Calls that no frame of the unit is among leave its frames.
LEMMA PassedOnStays ==
  ASSUME NEW C \in Seq(Calls), NEW P \in Seq(Calls), NEW pid, NEW unit, NEW shape,
         PassedOn(C, pid, unit, shape), FramesIn(P, pid, unit) = {}
  PROVE  PassedOn(C \o P, pid, unit, shape)
<1>1. PICK all : all = C \o P
  OBVIOUS
<1>2. /\ \A k \in 1..Len(C) : all[k] = C[k]
      /\ \A k \in 1..Len(P) : all[Len(C) + k] = P[k]
      /\ \A k \in 1..Len(all) : k \in 1..Len(C) \/ \E j \in 1..Len(P) : k = Len(C) + j
  <2>1. C \in Seq(Calls) /\ P \in Seq(Calls)
    OBVIOUS
  <2>2. Joined(all, C, P)
    BY <1>1, <2>1, CallsAfter
  <2> QED
    BY <2>2 DEF Joined
<1>3. Len(C) \in Nat /\ Len(P) \in Nat /\ Len(all) = Len(C) + Len(P)
  BY <1>1, LenProperties, ConcatProperties
<1>4. \A k \in 1..Len(C) : k \in 1..Len(all)
  BY <1>3
<1>5. FramesIn(all, pid, unit) = FramesIn(C, pid, unit)
  <2>1. FramesIn(C, pid, unit) \subseteq FramesIn(all, pid, unit)
    BY <1>2, <1>4 DEF FramesIn
  <2>2. ASSUME NEW k \in FramesIn(all, pid, unit) PROVE k \in FramesIn(C, pid, unit)
    <3>1. k \in 1..Len(all) /\ all[k].what = "frame" /\ all[k].pid = pid
          /\ \E piece \in all[k].pieces : piece.unit = unit
      BY DEF FramesIn
    <3>2. k \in 1..Len(C)
      <4>1. SUFFICES ASSUME NEW j \in 1..Len(P), k = Len(C) + j PROVE FALSE
        BY <1>2, <3>1
      <4>2. all[k] = P[j]
        BY <1>2, <4>1
      <4>3. j \in FramesIn(P, pid, unit)
        BY <3>1, <4>2 DEF FramesIn
      <4> QED
        BY <4>3
    <3> QED
      BY <1>2, <3>1, <3>2 DEF FramesIn
  <2> QED
    BY <2>1, <2>2
<1>6. PICK call \in [FrameStarts(shape) -> FramesIn(C, pid, unit)] :
        /\ {call[start] : start \in FrameStarts(shape)} = FramesIn(C, pid, unit)
        /\ Match(C, call, unit, shape)
  BY DEF PassedOn
<1>7. \A start \in FrameStarts(shape) : all[call[start]] = C[call[start]]
  <2>1. \A start \in FrameStarts(shape) : call[start] \in 1..Len(C)
    BY <1>6 DEF FramesIn
  <2> QED
    BY <1>2, <2>1
<1>8. Match(all, call, unit, shape)
  BY <1>6, <1>7 DEF Match
<1>9. PassedOn(all, pid, unit, shape)
  BY <1>5, <1>6, <1>8 DEF PassedOn
<1> QED
  BY <1>1, <1>9

\* The frames of the unit are all among the later calls.
LEMMA PassedOnLater ==
  ASSUME NEW C \in Seq(Calls), NEW P \in Seq(Calls), NEW pid, NEW unit, NEW shape,
         PassedOn(P, pid, unit, shape), FramesIn(C, pid, unit) = {}
  PROVE  PassedOn(C \o P, pid, unit, shape)
<1>1. PICK all : all = C \o P
  OBVIOUS
<1> DEFINE L == Len(C)
<1>2. /\ \A k \in 1..L : all[k] = C[k]
      /\ \A k \in 1..Len(P) : all[L + k] = P[k]
      /\ \A k \in 1..Len(all) : k \in 1..L \/ \E j \in 1..Len(P) : k = L + j
  <2>1. C \in Seq(Calls) /\ P \in Seq(Calls)
    OBVIOUS
  <2>2. Joined(all, C, P)
    BY <1>1, <2>1, CallsAfter
  <2> QED
    BY <2>2 DEF Joined
<1>3. L \in Nat /\ Len(P) \in Nat /\ Len(all) = L + Len(P)
  BY <1>1, LenProperties, ConcatProperties
<1>4. \A k \in 1..Len(P) : L + k \in 1..Len(all)
  BY <1>3
<1>5. ASSUME NEW k \in FramesIn(P, pid, unit) PROVE L + k \in FramesIn(all, pid, unit)
  BY <1>2, <1>4 DEF FramesIn
<1>6. ASSUME NEW k \in FramesIn(all, pid, unit) PROVE \E j \in FramesIn(P, pid, unit) : k = L + j
  <2>1. k \in 1..Len(all) /\ all[k].what = "frame" /\ all[k].pid = pid
        /\ \E piece \in all[k].pieces : piece.unit = unit
    BY DEF FramesIn
  <2>2. k \notin 1..L
    <3>1. SUFFICES ASSUME k \in 1..L PROVE FALSE
      OBVIOUS
    <3>2. k \in FramesIn(C, pid, unit)
      BY <1>1, <1>2, <2>1, <3>1 DEF FramesIn
    <3> QED
      BY <3>2
  <2>3. PICK j \in 1..Len(P) : k = L + j
    BY <1>2, <2>1, <2>2
  <2>4. all[k] = P[j]
    BY <1>2, <2>3
  <2> QED
    BY <2>1, <2>3, <2>4 DEF FramesIn
<1>7. PICK call \in [FrameStarts(shape) -> FramesIn(P, pid, unit)] :
        /\ {call[start] : start \in FrameStarts(shape)} = FramesIn(P, pid, unit)
        /\ Match(P, call, unit, shape)
  BY DEF PassedOn
<1>8. PICK later : later = [start \in FrameStarts(shape) |-> L + call[start]]
  OBVIOUS
<1>9. later \in [FrameStarts(shape) -> FramesIn(all, pid, unit)]
  BY <1>5, <1>7, <1>8
<1>10. {later[start] : start \in FrameStarts(shape)} = FramesIn(all, pid, unit)
  <2>1. ASSUME NEW k \in FramesIn(all, pid, unit) PROVE \E start \in FrameStarts(shape) : later[start] = k
    <3>1. PICK j \in FramesIn(P, pid, unit) : k = L + j
      BY <1>6
    <3>2. PICK start \in FrameStarts(shape) : call[start] = j
      BY <1>7
    <3> QED
      BY <1>8, <3>1, <3>2
  <2> QED
    BY <1>9, <2>1
<1>11. \A start \in FrameStarts(shape) : call[start] \in 1..Len(P)
  BY <1>7 DEF FramesIn
<1>12. ASSUME NEW start \in FrameStarts(shape)
       PROVE  /\ all[later[start]].pieces = PartsFrom(unit, shape, start)
              /\ \A other \in FrameStarts(shape) : start < other => later[start] < later[other]
  <2>1. later[start] = L + call[start] /\ call[start] \in 1..Len(P)
    BY <1>8, <1>11
  <2>2. all[later[start]] = P[call[start]]
    BY <1>2, <2>1
  <2>3. P[call[start]].pieces = PartsFrom(unit, shape, start)
    BY <1>7 DEF Match
  <2>4. ASSUME NEW other \in FrameStarts(shape), start < other PROVE later[start] < later[other]
    <3>1. call[start] < call[other]
      BY <1>7, <2>4 DEF Match
    <3>2. later[other] = L + call[other] /\ call[other] \in 1..Len(P)
      BY <1>8, <1>11
    <3> QED
      BY <1>3, <2>1, <3>1, <3>2
  <2> QED
    BY <2>2, <2>3, <2>4
<1>13. Match(all, later, unit, shape)
  BY <1>12 DEF Match
<1>14. PassedOn(all, pid, unit, shape)
  BY <1>9, <1>10, <1>13 DEF PassedOn
<1> QED
  BY <1>1, <1>14

\* The frame that starts at s is the call k with at[k] = place[s].
Placed(C, pid, unit, shape, at, place) ==
  /\ Len(C) \in Nat /\ FrameStarts(shape) \subseteq Int
  /\ at \in [1..Len(C) -> Int] /\ place \in [FrameStarts(shape) -> Int]
  /\ \A j, k \in 1..Len(C) : j < k => at[j] < at[k]
  /\ \A s, t \in FrameStarts(shape) : s < t => place[s] < place[t]
  /\ \A s \in FrameStarts(shape) : \E k \in 1..Len(C) : at[k] = place[s]
  /\ \A k \in 1..Len(C) : C[k].what = "frame" => \E s \in FrameStarts(shape) : at[k] = place[s]
  /\ \A k \in 1..Len(C), s \in FrameStarts(shape) : at[k] = place[s] =>
       C[k].what = "frame" /\ C[k].pid = pid /\ C[k].pieces = PartsFrom(unit, shape, s)
  /\ \A s \in FrameStarts(shape) : \E piece \in PartsFrom(unit, shape, s) : piece.unit = unit

LEMMA PassedOnInOrder ==
  ASSUME NEW C, NEW pid, NEW unit, NEW shape, NEW at, NEW place,
         Placed(C, pid, unit, shape, at, place)
  PROVE  PassedOn(C, pid, unit, shape)
<1>1. PICK S : S = FrameStarts(shape)
  OBVIOUS
<1>0. /\ Len(C) \in Nat /\ S \subseteq Int
      /\ at \in [1..Len(C) -> Int] /\ place \in [S -> Int]
      /\ \A j, k \in 1..Len(C) : j < k => at[j] < at[k]
      /\ \A s, t \in S : s < t => place[s] < place[t]
      /\ \A s \in S : \E k \in 1..Len(C) : at[k] = place[s]
      /\ \A k \in 1..Len(C) : C[k].what = "frame" => \E s \in S : at[k] = place[s]
      /\ \A k \in 1..Len(C), s \in S : at[k] = place[s] =>
           C[k].what = "frame" /\ C[k].pid = pid /\ C[k].pieces = PartsFrom(unit, shape, s)
      /\ \A s \in S : \E piece \in PartsFrom(unit, shape, s) : piece.unit = unit
  BY <1>1 DEF Placed
<1>2. PICK call : call = [s \in S |-> CHOOSE k \in 1..Len(C) : at[k] = place[s]]
  OBVIOUS
<1>3. \A s \in S : call[s] \in 1..Len(C) /\ at[call[s]] = place[s]
  BY <1>0, <1>2
<1>4. \A s \in S : call[s] \in FramesIn(C, pid, unit)
  BY <1>0, <1>3 DEF FramesIn
<1>5. call \in [S -> FramesIn(C, pid, unit)]
  BY <1>2, <1>4
<1>6. ASSUME NEW k \in FramesIn(C, pid, unit) PROVE \E s \in S : call[s] = k
  <2>1. k \in 1..Len(C) /\ C[k].what = "frame"
    BY DEF FramesIn
  <2>2. PICK s \in S : at[k] = place[s]
    BY <1>0, <2>1
  <2>3. call[s] \in 1..Len(C) /\ at[call[s]] = at[k]
    BY <1>3, <2>2
  <2>4. at[k] \in Int
    BY <1>0, <2>1
  <2>5. ~(k < call[s]) /\ ~(call[s] < k)
    BY <1>0, <2>1, <2>3, <2>4
  <2>6. k = call[s]
    BY <1>0, <2>1, <2>3, <2>5
  <2> QED
    BY <2>6
<1>7. {call[s] : s \in S} = FramesIn(C, pid, unit)
  BY <1>4, <1>6
<1>8. ASSUME NEW s \in S
      PROVE  /\ C[call[s]].pieces = PartsFrom(unit, shape, s)
             /\ \A t \in S : s < t => call[s] < call[t]
  <2>1. C[call[s]].pieces = PartsFrom(unit, shape, s)
    BY <1>0, <1>3
  <2>2. ASSUME NEW t \in S, s < t PROVE call[s] < call[t]
    <3>1. place[s] < place[t] /\ place[s] \in Int /\ place[t] \in Int
      BY <1>0, <2>2
    <3>2. call[s] \in 1..Len(C) /\ at[call[s]] = place[s] /\ call[t] \in 1..Len(C) /\ at[call[t]] = place[t]
      BY <1>3
    <3>3. call[s] # call[t] /\ ~(call[t] < call[s])
      BY <1>0, <3>1, <3>2
    <3> QED
      BY <1>0, <3>2, <3>3
  <2> QED
    BY <2>1, <2>2
<1>9. Match(C, call, unit, shape)
  BY <1>1, <1>8 DEF Match
<1> QED
  BY <1>1, <1>5, <1>7, <1>9 DEF PassedOn

\* All of a unit, and nothing else.
AllOf(pes, unit, shape) ==
  /\ Len(pes) = Len(shape)
  /\ \A n \in 1..Len(shape) : pes[n] = [unit |-> unit, shape |-> shape, n |-> n]

PieceAt(q, unit, shape, n) ==
  q.unit = unit /\ q.shape = shape /\ q.n = n /\ Kind(q) = shape[n]

LEMMA AllOfIs ==
  ASSUME NEW pes, NEW unit, NEW shape, AllOf(pes, unit, shape)
  PROVE  \A n \in 1..Len(shape) : PieceAt(pes[n], unit, shape, n)
<1> SUFFICES ASSUME NEW n \in 1..Len(shape) PROVE PieceAt(pes[n], unit, shape, n)
  OBVIOUS
<1>1. pes[n] = [unit |-> unit, shape |-> shape, n |-> n]
  BY DEF AllOf
<1>2. pes[n].unit = unit /\ pes[n].shape = shape /\ pes[n].n = n
  BY <1>1
<1> QED
  BY <1>2 DEF PieceAt, Kind

\* The frame that starts at s, as the code cuts it out of what was collected.
LEMMA PartsAre ==
  ASSUME NEW pes, NEW unit, NEW shape, AllOf(pes, unit, shape), Len(shape) \in Nat,
         NEW s \in 1..Len(shape)
  PROVE  /\ {pes[j] : j \in FrameParts(shape, s)} = PartsFrom(unit, shape, s)
         /\ Nal(pes, s) = PartsFrom(unit, shape, s)
         /\ Adts(shape, s) = FrameParts(shape, s) /\ Adts(shape, s) \subseteq 1..Len(shape)
         /\ \E piece \in PartsFrom(unit, shape, s) : piece.unit = unit
<1>1. FrameParts(shape, s) \subseteq 1..Len(shape)
  <2>1. \A n \in s..Len(shape) : n \in 1..Len(shape)
    OBVIOUS
  <2> QED
    BY <2>1 DEF FrameParts
<1>2. \A n \in FrameParts(shape, s) : pes[n] = [unit |-> unit, shape |-> shape, n |-> n]
  BY <1>1 DEF AllOf
<1>3. {pes[j] : j \in FrameParts(shape, s)} = PartsFrom(unit, shape, s)
  BY <1>2 DEF PartsFrom
<1>4. \A j \in s..Len(shape) : \A k \in (s + 1)..j : k \in 1..Len(shape)
  OBVIOUS
<1>5. \A j \in s..Len(shape) : \A k \in (s + 1)..j : Kind(pes[k]) = shape[k]
  <2>1. \A k \in 1..Len(shape) : Kind(pes[k]) = shape[k]
    BY AllOfIs DEF PieceAt
  <2> QED
    BY <1>4, <2>1
<1>6. {j \in s..Len(pes) : \A k \in (s + 1)..j : Kind(pes[k]) = "rest"} = FrameParts(shape, s)
  BY <1>5 DEF FrameParts, AllOf
<1>7. Nal(pes, s) = PartsFrom(unit, shape, s)
  BY <1>3, <1>6 DEF Nal
<1>8. s \in FrameParts(shape, s)
  <2>1. s \in s..Len(shape) /\ (s + 1)..s = {}
    OBVIOUS
  <2> QED
    BY <2>1 DEF FrameParts
<1>9. [unit |-> unit, shape |-> shape, n |-> s] \in PartsFrom(unit, shape, s)
  BY <1>8 DEF PartsFrom
<1>10. Adts(shape, s) = FrameParts(shape, s)
  BY DEF Adts, FrameParts
<1> QED
  BY <1>1, <1>3, <1>7, <1>9, <1>10

LEMMA VideoPassedOn ==
  ASSUME NEW pes \in Seq(Piece), NEW unit, NEW shape, AllOf(pes, unit, shape),
         DOMAIN shape = 1..Len(shape), Len(shape) \in Nat, \A n \in DOMAIN shape : shape[n] # "adts",
         NEW stamp, NEW P \in Dispatched(pes, stamp)
  PROVE  PassedOn(P, Video, unit, shape)
<1>1. PICK at \in [1..Len(P) -> VideoPlaces(pes)] :
           /\ Len(P) \in Nat /\ VideoPlaces(pes) \subseteq 1..Len(pes) /\ Len(pes) \in Nat
           /\ \A k \in 1..Len(P) : P[k] = Dispatch(pes, stamp, at[k])
           /\ \A j, k \in 1..Len(P) : j < k => at[j] < at[k]
           /\ \A x \in VideoPlaces(pes) : \E k \in 1..Len(P) : at[k] = x
  BY DispatchOrder
<1>2. PICK S : S = FrameStarts(shape)
  OBVIOUS
<1>3. /\ S \subseteq 1..Len(shape)
      /\ \A x \in 1..Len(shape) : x \in S <=> IsFrame(pes, x)
  <2>1. \A x \in 1..Len(shape) : Kind(pes[x]) = shape[x] /\ shape[x] # "adts"
    BY AllOfIs DEF PieceAt
  <2> QED
    BY <1>2, <2>1 DEF FrameStarts, IsFrame
<1>4. DOMAIN pes = 1..Len(shape) /\ Len(pes) = Len(shape)
  BY LenProperties DEF AllOf
<1>5. S \subseteq VideoPlaces(pes)
  BY <1>3, <1>4 DEF VideoPlaces
<1>6. at \in [1..Len(P) -> Int] /\ S \subseteq Int
  BY <1>1, <1>3
<1>7. PICK place : place = [s \in S |-> s]
  OBVIOUS
<1>8. place \in [S -> Int] /\ \A s \in S : place[s] = s
  BY <1>6, <1>7
<1>9. \A s, t \in S : s < t => place[s] < place[t]
  BY <1>8
<1>10. \A s \in S : \E k \in 1..Len(P) : at[k] = place[s]
  BY <1>1, <1>5, <1>8
<1>11. ASSUME NEW k \in 1..Len(P), P[k].what = "frame" PROVE \E s \in S : at[k] = place[s]
  <2>1. at[k] \in 1..Len(shape) /\ P[k] = Dispatch(pes, stamp, at[k])
    BY <1>1, <1>4
  <2>2. IsFrame(pes, at[k])
    BY <1>11, <2>1 DEF Dispatch, Call
  <2> QED
    BY <1>3, <1>8, <2>1, <2>2
<1>12. ASSUME NEW k \in 1..Len(P), NEW s \in S, at[k] = place[s]
       PROVE  P[k].what = "frame" /\ P[k].pid = Video /\ P[k].pieces = PartsFrom(unit, shape, s)
  <2>1. P[k] = Dispatch(pes, stamp, s) /\ IsFrame(pes, s) /\ s \in 1..Len(shape)
    BY <1>1, <1>3, <1>8, <1>12
  <2>2. P[k] = Call("frame", Video, stamp, Nal(pes, s))
    BY <2>1 DEF Dispatch
  <2>3. Nal(pes, s) = PartsFrom(unit, shape, s)
    BY <2>1, PartsAre
  <2> QED
    BY <2>2, <2>3 DEF Call
<1>13. \A s \in S : \E piece \in PartsFrom(unit, shape, s) : piece.unit = unit
  BY <1>3, PartsAre
<1> QED
  <2>1. Placed(P, Video, unit, shape, at, place)
    BY <1>1, <1>2, <1>6, <1>8, <1>9, <1>10, <1>11, <1>12, <1>13 DEF Placed
  <2> QED
    BY <2>1, PassedOnInOrder

\* The calls read from audio, one for each place, in their order.
LEMMA AudioOrder ==
  ASSUME NEW pes \in Seq(Piece), NEW stamp, NEW P \in AudioRead(pes, stamp)
  PROVE  \E at \in [1..Len(P) -> AudioPlaces(pes)] :
           /\ Len(P) \in Nat
           /\ \A k \in 1..Len(P) : P[k] = AudioCall(pes, stamp, at[k])
           /\ \A j, k \in 1..Len(P) : j < k => at[j] < at[k]
           /\ \A x \in AudioPlaces(pes) : \E k \in 1..Len(P) : at[k] = x
<1>1. PICK at \in InOrder(AudioPlaces(pes)) :
        P = [k \in DOMAIN at |-> AudioCall(pes, stamp, at[k])]
  BY DEF AudioRead
<1>2. PICK N : N = Cardinality(AudioPlaces(pes))
  OBVIOUS
<1>3. /\ N \in Nat /\ at \in [1..N -> AudioPlaces(pes)]
      /\ \A j, k \in 1..N : j < k => at[j] < at[k]
      /\ \A x \in AudioPlaces(pes) : \E k \in 1..N : at[k] = x
  BY <1>2, AudioPlacesAre, EachHasAPlace
<1>4. DOMAIN P = 1..N /\ \A k \in 1..N : P[k] = AudioCall(pes, stamp, at[k])
  BY <1>1, <1>3
<1>5. Len(P) = N
  <2>1. P = [k \in 1..N |-> AudioCall(pes, stamp, at[k])]
    BY <1>1, <1>3
  <2>2. PICK S : S = {AudioCall(pes, stamp, at[k]) : k \in 1..N}
    OBVIOUS
  <2>3. P \in [1..N -> S]
    BY <2>1, <2>2
  <2>4. P \in Seq(S)
    BY <1>3, <2>3, SeqDef
  <2>5. Len(P) \in Nat /\ DOMAIN P = 1..Len(P)
    BY <2>4, LenProperties
  <2> QED
    BY <1>3, <1>4, <2>5
<1> QED
  BY <1>3, <1>4, <1>5

LEMMA AudioPassedOn ==
  ASSUME NEW pes \in Seq(Piece), NEW unit, NEW shape, AllOf(pes, unit, shape),
         DOMAIN shape = 1..Len(shape), Len(shape) \in Nat, Len(shape) > 0,
         \A n \in DOMAIN shape : shape[n] \in {"adts", "rest"},
         NEW stamp, NEW P \in OnAudio(pes, stamp)
  PROVE  PassedOn(P, Audio, unit, shape)
<1>1. DOMAIN pes = 1..Len(shape) /\ Len(pes) = Len(shape) /\ 1 \in 1..Len(shape)
  BY LenProperties DEF AllOf
<1>2. pes[1].shape = shape /\ pes[1].unit = unit
  BY <1>1, AllOfIs DEF PieceAt
<1>3. InSync(pes) = 1..Len(shape)
  <2>1. \A m \in 1..Len(shape) : \A k \in 1..m : k \in 1..Len(shape)
    OBVIOUS
  <2>2. \A m \in 1..Len(shape) : \A k \in 1..m : pes[k].unit = pes[1].unit /\ pes[k].n = k
    <3>1. \A k \in 1..Len(shape) : pes[k].unit = unit /\ pes[k].n = k
      BY AllOfIs DEF PieceAt
    <3> QED
      BY <1>2, <2>1, <3>1
  <2> QED
    BY <1>1, <2>2 DEF InSync
<1>4. P \in AudioRead(pes, stamp)
  BY <1>1, <1>3, OnAudioIs
<1>5. PICK at \in [1..Len(P) -> AudioPlaces(pes)] :
           /\ Len(P) \in Nat
           /\ \A k \in 1..Len(P) : P[k] = AudioCall(pes, stamp, at[k])
           /\ \A j, k \in 1..Len(P) : j < k => at[j] < at[k]
           /\ \A x \in AudioPlaces(pes) : \E k \in 1..Len(P) : at[k] = x
  BY <1>4, AudioOrder
<1>6. PICK S : S = FrameStarts(shape)
  OBVIOUS
<1>7. HeadersOf(pes) = S /\ S \subseteq 1..Len(shape)
  BY <1>2, <1>3, <1>6 DEF HeadersOf, FrameStarts
<1>8. FramesOf(pes) = S
  <2>1. \A s \in S : Adts(shape, s) \subseteq 1..Len(shape)
    BY <1>7, PartsAre
  <2> QED
    BY <1>2, <1>3, <1>7, <2>1 DEF FramesOf
<1>9. at \in [1..Len(P) -> Int] /\ S \subseteq Int
  BY <1>5, <1>7, AudioPlacesAre
<1>10. PICK place : place = [s \in S |-> 2 * s + 1]
  OBVIOUS
<1>11. \A s \in S : s \in Int /\ place[s] = 2 * s + 1 /\ place[s] \in Int
  BY <1>9, <1>10
<1>12. place \in [S -> Int]
  BY <1>10, <1>11
<1>13. \A s, t \in S : s < t => place[s] < place[t]
  BY <1>11
<1>14. \A s \in S : \E k \in 1..Len(P) : at[k] = place[s]
  <2>1. \A s \in S : place[s] \in AudioPlaces(pes)
    BY <1>8, <1>11 DEF AudioPlaces
  <2> QED
    BY <1>5, <2>1
<1>15. ASSUME NEW k \in 1..Len(P), P[k].what = "frame" PROVE \E s \in S : at[k] = place[s]
  <2>1. at[k] \in AudioPlaces(pes) /\ P[k] = AudioCall(pes, stamp, at[k])
    BY <1>5
  <2>2. CASE \E h \in HeadersOf(pes) : at[k] = 2 * h
    <3>1. PICK h \in S : at[k] = 2 * h
      BY <1>7, <2>2
    <3>2. h \in Nat
      BY <1>7, <3>1
    <3>3. P[k] = Call("header", Audio, NoStamp, {pes[h]})
      BY <2>1, <3>1, <3>2, HeaderCallIs
    <3> QED
      BY <1>15, <3>3 DEF Call
  <2>3. CASE \E h \in FramesOf(pes) : at[k] = 2 * h + 1
    BY <1>8, <1>11, <2>3
  <2> QED
    BY <2>1, <2>2, <2>3, AudioPlacesAre
<1>16. ASSUME NEW k \in 1..Len(P), NEW s \in S, at[k] = place[s]
       PROVE  P[k].what = "frame" /\ P[k].pid = Audio /\ P[k].pieces = PartsFrom(unit, shape, s)
  <2>1. s \in Nat /\ at[k] = 2 * s + 1 /\ P[k] = AudioCall(pes, stamp, at[k]) /\ s \in 1..Len(shape)
    BY <1>5, <1>7, <1>11, <1>16
  <2>2. P[k] = Call("frame", Audio, stamp, {pes[j] : j \in Adts(shape, s)})
    BY <1>2, <2>1, FrameCallIs
  <2>3. {pes[j] : j \in Adts(shape, s)} = PartsFrom(unit, shape, s)
    BY <2>1, PartsAre
  <2> QED
    BY <2>2, <2>3 DEF Call
<1>17. \A s \in S : \E piece \in PartsFrom(unit, shape, s) : piece.unit = unit
  BY <1>7, PartsAre
<1> QED
  <2>1. Placed(P, Audio, unit, shape, at, place)
    BY <1>5, <1>6, <1>9, <1>12, <1>13, <1>14, <1>15, <1>16, <1>17 DEF Placed
  <2> QED
    BY <2>1, PassedOnInOrder

\* What is collected is of no unit that was over before it.
LEMMA NoneOfEarlier ==
  ASSUME NEW H \in Seq(Piece), NEW pes \in Seq(Piece), Collected(H, pes), Sorted(H),
         NEW P, NEW x, AllMadeOf(P, x, pes),
         NEW at \in 1..Len(H), NEW next \in 1..Len(H), at < next, Starts(H[next])
  PROVE  FramesIn(P, x, H[at].unit) = {}
<1>1. PICK D : D = Len(H) - Len(pes)
  OBVIOUS
<1>2. Len(H) \in Nat /\ Len(pes) \in Nat /\ D \in Nat
  BY <1>1, LenProperties, CollectedIs
<1>3. next <= D + 1
  BY <1>1 DEF Collected
<1> SUFFICES ASSUME NEW k \in FramesIn(P, x, H[at].unit) PROVE FALSE
  OBVIOUS
<1>4. k \in 1..Len(P) /\ P[k].what = "frame" /\ \E piece \in P[k].pieces : piece.unit = H[at].unit
  BY DEF FramesIn
<1>5. MadeOf(P[k], x, pes)
  BY <1>4 DEF AllMadeOf
<1>6. PICK j \in 1..Len(pes) : pes[j].unit = H[at].unit
  BY <1>4, <1>5 DEF MadeOf
<1>7. D + j \in 1..Len(H) /\ pes[j] = H[D + j]
  BY <1>1, CollectedIs
<1>8. H[at] \in Piece /\ H[next] \in Piece /\ H[D + j] \in Piece
  BY <1>7, ElementOfSeq
<1>9. H[at].unit < H[next].unit
  BY <1>8, BeforeStart DEF Sorted
<1>10. next = D + j \/ next < D + j
  BY <1>2, <1>3
<1>11. H[next].unit <= H[D + j].unit
  <2>1. CASE next = D + j
    BY <1>8, <2>1, PieceIs
  <2>2. CASE next < D + j
    BY <1>7, <1>8, <2>2, BeforeIs DEF Sorted
  <2> QED
    BY <1>10, <2>1, <2>2
<1> QED
  <2>1. H[D + j].unit = H[at].unit
    BY <1>6, <1>7
  <2>2. H[at].unit \in Nat /\ H[next].unit \in Nat
    BY <1>8, PieceIs
  <2> QED
    BY <1>9, <1>11, <2>1, <2>2

\* No frame that was passed on is of the unit that is not over yet.
LEMMA NoneOfCurrent ==
  ASSUME NEW H \in Seq(Piece), Sorted(H), NEW C, NEW x,
         \A k \in 1..Len(C) : C[k].what = "frame" /\ C[k].pid = x => FrameStamped(C[k], H),
         NEW last, last = Len(H), last > 0
  PROVE  FramesIn(C, x, H[last].unit) = {}
<1> SUFFICES ASSUME NEW k \in FramesIn(C, x, H[last].unit) PROVE FALSE
  OBVIOUS
<1>1. k \in 1..Len(C) /\ C[k].what = "frame" /\ C[k].pid = x
  BY DEF FramesIn
<1>2. PICK q \in C[k].pieces : q.unit = H[last].unit
  BY DEF FramesIn
<1>3. q \in Piece /\ Closed(q, H)
  BY <1>1, <1>2 DEF FrameStamped
<1>4. PICK j \in 1..Len(H) : q.unit < H[j].unit
  BY <1>3 DEF Closed
<1>5. last \in 1..Len(H) /\ (j = last \/ j < last)
  BY LenProperties
<1>6. H[j] \in Piece /\ H[last] \in Piece
  BY <1>5, ElementOfSeq
<1>7. H[j].unit <= H[last].unit
  <2>1. CASE j = last
    BY <1>6, <2>1, PieceIs
  <2>2. CASE j < last
    BY <1>5, <1>6, <2>2, BeforeIs DEF Sorted
  <2> QED
    BY <1>5, <2>1, <2>2
<1> QED
  BY <1>2, <1>3, <1>4, <1>6, <1>7, PieceIs

LEMMA SetIs ==
  ASSUME NEW q \in Piece, NEW n
  PROVE  [q EXCEPT !.n = n] = [unit |-> q.unit, shape |-> q.shape, n |-> n]
BY DEF Piece

\* When the next unit starts after one that came whole, it is what is collected.
LEMMA WholeIsCollected ==
  ASSUME NEW H \in Seq(Piece), NEW pes \in Seq(Piece), Collected(H, pes), Sorted(H),
         NEW r \in Piece, NEW at \in 1..Len(H), Whole(Append(H, r), at),
         Len(H[at].shape) \in Nat, at + Len(H[at].shape) = Len(H) + 1
  PROVE  AllOf(pes, H[at].unit, H[at].shape)
<1>1. PICK G, first : G = Append(H, r) /\ first = H[at]
  OBVIOUS
<1>2. PICK size, D : size = Len(first.shape) /\ D = Len(H) - Len(pes)
  OBVIOUS
<1>3. /\ Len(G) = Len(H) + 1 /\ Len(H) \in Nat
      /\ \A j \in 1..Len(H) : G[j] = H[j]
  BY <1>1, AppendProperties, LenProperties
<1>4. Len(pes) \in Nat /\ D \in Nat /\ size \in Nat /\ at + size = Len(H) + 1 /\ first \in Piece
  BY <1>1, <1>2, LenProperties, CollectedIs, ElementOfSeq
<1>5. G[at] = first
  BY <1>1, <1>3
<1>6. Starts(first) /\ \A n \in 1..size : G[(at + n) - 1] = [first EXCEPT !.n = n]
  BY <1>1, <1>2, <1>5 DEF Whole
<1>7. ASSUME NEW n \in 1..size
      PROVE  /\ (at + n) - 1 \in 1..Len(H)
             /\ H[(at + n) - 1] = [unit |-> first.unit, shape |-> first.shape, n |-> n]
  <2>1. (at + n) - 1 \in 1..Len(H)
    BY <1>3, <1>4
  <2>2. [first EXCEPT !.n = n] = [unit |-> first.unit, shape |-> first.shape, n |-> n]
    BY <1>4, SetIs
  <2> QED
    BY <1>3, <1>6, <2>1, <2>2
<1>8. at = D + 1
  <2>1. at <= D + 1
    BY <1>1, <1>2, <1>6 DEF Collected
  <2>2. CASE Len(pes) = Len(H)
    BY <1>2, <1>3, <2>1, <2>2
  <2>3. CASE Len(pes) > 0 /\ Starts(pes[1])
    <3>1. 1 \in 1..Len(pes)
      BY <1>4, <2>3
    <3>2. D + 1 \in 1..Len(H) /\ Starts(H[D + 1])
      BY <1>2, <2>3, <3>1, CollectedIs
    <3>3. ASSUME at < D + 1 PROVE FALSE
      <4>1. PICK n : n = (D + 2) - at
        OBVIOUS
      <4>0. /\ at \in Nat /\ D \in Nat /\ size \in Nat /\ Len(H) \in Nat
            /\ at + size = Len(H) + 1 /\ D + 1 <= Len(H)
        BY <1>3, <1>4, <3>2
      <4>2. n \in 1..size /\ n # 1 /\ (at + n) - 1 = D + 1
        BY <3>3, <4>0, <4>1
      <4>3. H[D + 1].n = n
        <5>1. H[(at + n) - 1] = [unit |-> first.unit, shape |-> first.shape, n |-> n]
          BY <1>7, <4>2
        <5> QED
          BY <4>2, <5>1
      <4> QED
        BY <3>2, <4>2, <4>3 DEF Starts
    <3> QED
      BY <1>4, <2>1, <3>3
  <2> QED
    BY <2>2, <2>3 DEF Collected
<1>9. Len(pes) = size
  <2>1. Len(H) \in Nat /\ D = Len(H) - Len(pes)
    BY <1>2, <1>3
  <2> QED
    BY <1>4, <1>8, <2>1
<1>10. ASSUME NEW n \in 1..size PROVE pes[n] = [unit |-> first.unit, shape |-> first.shape, n |-> n]
  <2>1. pes[n] = H[D + n]
    BY <1>2, <1>9, CollectedIs
  <2>2. (at + n) - 1 = D + n
    BY <1>4, <1>8
  <2> QED
    BY <1>7, <2>1, <2>2
<1> QED
  BY <1>1, <1>2, <1>9, <1>10 DEF AllOf

\* When a unit starts, calls P pass on the one that is collected whole.
Passes(P, x, pes, r, known, shapes) ==
  \A unit \in Nat : \A shape \in shapes :
    AllOf(pes, unit, shape) /\ Starts(r) /\ (x = Audio \/ unit \in known) => PassedOn(P, x, unit, shape)

\* All frames among the calls have only pieces of units that are over.
AllClosed(C, x, H) == \A k \in 1..Len(C) : C[k].what = "frame" /\ C[k].pid = x => FrameStamped(C[k], H)

AllWithin(H, r, shapes, u) ==
  /\ \A j \in 1..Len(H) : Within(H[j], shapes, u) /\ Before(H[j], r)
  /\ Within(r, shapes, u)
  /\ \A shape \in shapes : Len(shape) \in Nat /\ Len(shape) > 0

\* A packet of the PID is parsed, and leads to the calls P.
LEMMA DeliveredStep ==
  ASSUME NEW H \in Seq(Piece), NEW pes \in Seq(Piece), Collected(H, pes), Sorted(H),
         NEW r \in Piece, NEW shapes, NEW u, AllWithin(H, r, shapes, u),
         NEW C \in Seq(Calls), NEW P \in Seq(Calls), NEW x, AllMadeOf(P, x, pes),
         NEW known, NEW now, now \subseteq known \cup {r.unit},
         AllClosed(C, x, H), Delivered(H, C, x, known), Passes(P, x, pes, r, known, shapes)
  PROVE  Delivered(Append(H, r), C \o P, x, now)
<1>1. PICK G, all : G = Append(H, r) /\ all = C \o P
  OBVIOUS
<1>2. /\ Len(G) = Len(H) + 1 /\ Len(H) \in Nat /\ G[Len(H) + 1] = r
      /\ \A j \in 1..Len(H) : G[j] = H[j]
  BY <1>1, AppendProperties, LenProperties
<1>0. /\ \A j \in 1..Len(H) : Within(H[j], shapes, u) /\ Before(H[j], r)
      /\ Within(r, shapes, u)
      /\ \A shape \in shapes : Len(shape) \in Nat /\ Len(shape) > 0
  BY DEF AllWithin
<1>3. ASSUME NEW at \in 1..Len(G), Whole(G, at), x = Audio \/ G[at].unit \in now
      PROVE  PassedOn(all, x, G[at].unit, G[at].shape)
  <2>1. PICK first, size : first = G[at] /\ size = Len(first.shape)
    OBVIOUS
  <2>2. size \in Nat /\ size > 0 /\ first.shape \in shapes
    <3>1. Within(first, shapes, u)
      <4>1. CASE at \in 1..Len(H)
        BY <1>0, <1>2, <2>1, <4>1
      <4>2. CASE at = Len(H) + 1
        BY <1>0, <1>2, <2>1, <4>2
      <4> QED
        BY <1>2, <4>1, <4>2
    <3>2. first.shape \in shapes
      BY <3>1 DEF Within, Fit
    <3> QED
      BY <1>0, <2>1, <3>2
  <2>3. at + size <= Len(G) /\ Starts(G[at + size]) /\ \A n \in 1..size : G[(at + n) - 1] = [first EXCEPT !.n = n]
    BY <1>3, <2>1 DEF Whole
  <2>4. at \in 1..Len(H) /\ first = H[at] /\ first \in Piece
    <3>1. at \in 1..Len(H)
      BY <1>2, <2>2, <2>3
    <3> QED
      BY <1>2, <2>1, <3>1, ElementOfSeq
  <2>5. x = Audio \/ first.unit \in known
    <3>1. Before(first, r)
      BY <1>0, <2>4
    <3>2. CASE Starts(r)
      <4>1. first.unit # r.unit
        BY <2>4, <3>1, <3>2, BeforeStart, PieceIs
      <4> QED
        BY <1>3, <2>1, <4>1
    <3>3. CASE ~Starts(r)
      <4>1. at + size \in 1..Len(H)
        <5>1. at + size # Len(H) + 1
          BY <1>2, <2>3, <3>3
        <5> QED
          BY <1>2, <2>2, <2>3, <2>4, <5>1
      <4>2. Starts(H[at + size]) /\ H[at + size] \in Piece
        BY <1>2, <2>3, <4>1, ElementOfSeq
      <4>3. at < at + size
        BY <2>2, <2>4
      <4>4. first.unit < H[at + size].unit
        BY <2>4, <4>1, <4>2, <4>3, BeforeStart DEF Sorted
      <4>5. H[at + size].unit <= r.unit
        BY <1>0, <4>1, <4>2, BeforeIs
      <4>6. first.unit # r.unit
        BY <2>4, <4>2, <4>4, <4>5, PieceIs
      <4> QED
        BY <1>3, <2>1, <4>6
    <3> QED
      BY <3>2, <3>3
  <2>6. CASE at + size \in 1..Len(H)
    <3>1. Whole(H, at)
      <4>1. \A n \in 1..size : (at + n) - 1 \in 1..Len(H)
        BY <1>2, <2>2, <2>4, <2>6
      <4>2. \A n \in 1..size : H[(at + n) - 1] = [first EXCEPT !.n = n]
        BY <1>2, <2>3, <4>1
      <4>3. Starts(H[at + size]) /\ at + size <= Len(H)
        BY <1>2, <2>3, <2>6
      <4>4. Starts(H[at])
        BY <1>3, <2>1, <2>4 DEF Whole
      <4> QED
        BY <2>1, <2>4, <4>2, <4>3, <4>4 DEF Whole
    <3>2. PassedOn(C, x, first.unit, first.shape)
      BY <2>4, <2>5, <3>1 DEF Delivered
    <3>3. FramesIn(P, x, first.unit) = {}
      <4>1. at < at + size /\ Starts(H[at + size])
        BY <1>2, <2>2, <2>3, <2>4, <2>6
      <4> QED
        BY <2>4, <2>6, <4>1, NoneOfEarlier
    <3> QED
      BY <1>1, <2>1, <3>2, <3>3, PassedOnStays
  <2>7. CASE at + size = Len(H) + 1
    <3>1. Starts(r)
      BY <1>2, <2>3, <2>7
    <3>2. AllOf(pes, first.unit, first.shape)
      BY <1>1, <1>3, <2>1, <2>2, <2>4, <2>7, WholeIsCollected
    <3>3. PassedOn(P, x, first.unit, first.shape)
      <4>1. first.unit \in Nat
        BY <2>4, PieceIs
      <4> QED
        BY <2>2, <2>5, <3>1, <3>2, <4>1 DEF Passes
    <3>4. FramesIn(C, x, first.unit) = {}
      <4>1. PICK last : last = Len(H)
        OBVIOUS
      <4>2. last > 0 /\ last \in 1..Len(H)
        BY <1>2, <2>4, <4>1
      <4>3. (at + size) - 1 = last /\ size \in 1..size
        BY <1>2, <2>2, <2>4, <2>7, <4>1
      <4>4. H[last] = [first EXCEPT !.n = size]
        BY <1>2, <2>3, <4>2, <4>3
      <4>5. H[last].unit = first.unit
        BY <2>4, <4>4 DEF Piece
      <4>6. FramesIn(C, x, H[last].unit) = {}
        BY <4>1, <4>2, NoneOfCurrent DEF AllClosed
      <4> QED
        BY <4>5, <4>6
    <3> QED
      BY <1>1, <2>1, <3>3, <3>4, PassedOnLater
  <2> QED
    BY <1>2, <2>2, <2>3, <2>4, <2>6, <2>7
<1>4. Delivered(G, all, x, now)
  BY <1>3 DEF Delivered
<1> QED
  BY <1>1, <1>4

\* IntactUnitsDelivered, with what it takes to keep it.
Intact ==
  /\ Known
  /\ \A x \in Elementary : Delivered(heard[x], calls, x, announced)

\* Calls for the other PID change nothing for this one.
LEMMA DeliveredOther ==
  ASSUME NEW H, NEW C \in Seq(Calls), NEW P, NEW x, NEW y, x # y, NEW pes, AllMadeOf(P, x, pes),
         NEW known, NEW now, y = Audio \/ now = known, Delivered(H, C, y, known)
  PROVE  Delivered(H, C \o P, y, now)
<1>1. P \in Seq(Calls)
  BY DEF AllMadeOf
<1>2. ASSUME NEW unit PROVE FramesIn(P, y, unit) = {}
  <2>1. \A k \in 1..Len(P) : P[k].what = "frame" => P[k].pid # y
    BY DEF AllMadeOf, MadeOf
  <2> QED
    BY <2>1 DEF FramesIn
<1>3. ASSUME NEW at \in 1..Len(H), Whole(H, at), y = Audio \/ H[at].unit \in now
      PROVE  PassedOn(C \o P, y, H[at].unit, H[at].shape)
  <2>1. PassedOn(C, y, H[at].unit, H[at].shape)
    BY <1>3 DEF Delivered
  <2>2. FramesIn(P, y, H[at].unit) = {}
    BY <1>2
  <2> QED
    BY <1>1, <2>1, <2>2, PassedOnStays
<1> QED
  BY <1>3 DEF Delivered

\* A unit that is collected whole is passed on when it is parsed.
LEMMA ParsedPasses ==
  ASSUME TypeOK, Known, NEW x \in Elementary, NEW r, NEW P,
         P \in IF Starts(r) THEN ParsePES(x, pes_[x]) ELSE {<< >>}
  PROVE  Passes(P, x, pes_[x], r, announced, Shapes(x))
<1>1. PICK pes : pes = pes_[x]
  OBVIOUS
<1>2. pes \in Seq(Piece) /\ codec \in Codecs
  BY <1>1, TypesOf DEF TypeOK
<1> SUFFICES ASSUME NEW unit \in Nat, NEW shape \in Shapes(x), AllOf(pes, unit, shape), Starts(r),
                    x = Audio \/ unit \in announced
             PROVE  PassedOn(P, x, unit, shape)
  BY <1>1 DEF Passes
<1>3. DOMAIN shape = 1..Len(shape) /\ Len(shape) \in Nat /\ Len(shape) > 0
  <2>1. DOMAIN shape = 1..Len(shape) /\ Len(shape) \in Nat
    BY <1>2, ShapesHave
  <2>2. shape \in Seq(Words) /\ shape # << >>
    BY <1>2, ShapesAre
  <2>3. Len(shape) # 0
    BY <2>2, EmptySeq
  <2> QED
    BY <2>1, <2>3
<1>4. pes # << >> /\ Starts(pes[1])
  <2>1. Len(pes) = Len(shape) /\ 1 \in 1..Len(shape)
    BY <1>3 DEF AllOf
  <2>2. PieceAt(pes[1], unit, shape, 1)
    BY <2>1, AllOfIs
  <2>3. Len(<< >>) = 0
    OBVIOUS
  <2> QED
    BY <1>3, <2>1, <2>2, <2>3 DEF PieceAt, Starts
<1>5. x \notin Tables
  BY PidsAssumption
<1>6. PICK stamp : stamp = ReadStamp(StampOf(pes[1].unit))
  OBVIOUS
<1>7. P \in IF x = Video THEN OnVideo(pes, stamp) ELSE OnAudio(pes, stamp)
  BY <1>1, <1>4, <1>5, <1>6 DEF ParsePES
<1>8. CASE x = Video
  <2>1. unit \in announced
    BY <1>8, PidsAssumption
  <2>2. video_stream_type_ = codec
    BY <2>1 DEF Known
  <2>3. P \in OnVideo(pes, stamp)
    BY <1>7, <1>8
  <2>4. P \in Dispatched(pes, stamp)
    <3>1. CASE codec = "h264"
      BY <2>2, <2>3, <3>1 DEF OnVideo, OnH264Video
    <3>2. CASE codec = "h265"
      BY <2>2, <2>3, <3>2 DEF OnVideo, OnH265Video
    <3> QED
      BY <1>2, <3>1, <3>2 DEF Codecs
  <2>5. \A n \in DOMAIN shape : shape[n] # "adts"
    BY <1>2, <1>8, ShapesHave
  <2> QED
    BY <1>2, <1>3, <1>8, <2>4, <2>5, VideoPassedOn
<1>9. CASE x = Audio
  <2>1. P \in OnAudio(pes, stamp)
    BY <1>7, <1>9, PidsAssumption
  <2>2. \A n \in DOMAIN shape : shape[n] \in {"adts", "rest"}
    BY <1>2, <1>9, ShapesHave
  <2> QED
    BY <1>2, <1>3, <1>9, <2>1, <2>2, AudioPassedOn
<1> QED
  BY <1>8, <1>9 DEF Elementary

LEMMA ParseKeepsIntact ==
  ASSUME TypeOK, Lines, Stamped, Intact, ParseTsSegment
  PROVE  Intact'
<1>1. PICK packet : packet = Head(message)
  OBVIOUS
<1>2. PICK x, r : x = packet.pid /\ r = packet.piece
  OBVIOUS
<1>3. /\ r \in Piece /\ message # << >>
      /\ \A y \in Elementary : heard'[y] = IF x = y THEN Append(heard[y], r) ELSE heard[y]
      /\ \E parsed \in IF x \in Elementary /\ Starts(r) THEN ParsePES(x, pes_[x]) ELSE {<< >>} :
           calls' = calls \o parsed
      /\ video_stream_type_' \in {video_stream_type_, codec} /\ codec' = codec
      /\ announced' = IF x = Video /\ Starts(r) /\ video_stream_type_ = codec
                      THEN announced \cup {r.unit} ELSE announced
  BY <1>1, <1>2, ParseIs
<1>4. Known'
  BY <1>3 DEF Intact, Known
<1>5. calls \in Seq(Calls) /\ codec \in Codecs
  BY DEF TypeOK
<1>6. \A y \in Elementary : heard[y] \in Seq(Piece) /\ pes_[y] \in Seq(Piece)
  BY TypesOf
<1>7. CASE x \in Elementary
  <2>1. PICK P \in IF Starts(r) THEN ParsePES(x, pes_[x]) ELSE {<< >>} : calls' = calls \o P
    BY <1>3, <1>7
  <2>2. AllMadeOf(P, x, pes_[x])
    <3>1. CASE Starts(r)
      BY <1>6, <1>7, <2>1, <3>1, ParsedIsMade DEF TypeOK
    <3>2. CASE ~Starts(r)
      BY <2>1, <3>2, NoneIsMade
    <3> QED
      BY <3>1, <3>2
  <2>3. P \in Seq(Calls)
    BY <2>2 DEF AllMadeOf
  <2>4. Passes(P, x, pes_[x], r, announced, Shapes(x))
    BY <1>7, <2>1, ParsedPasses DEF Intact
  <2>5. Collected(heard[x], pes_[x]) /\ Sorted(heard[x])
    BY <1>7 DEF Lines, Line
  <2>6. AllWithin(heard[x], r, Shapes(x), units[x])
    <3>1. Within(r, Shapes(x), units[x]) /\ \A j \in 1..Len(heard[x]) : Before(heard[x][j], r)
      BY <1>1, <1>2, <1>3, <1>7, ParsedIsNext
    <3>2. \A j \in 1..Len(heard[x]) : Within(heard[x][j], Shapes(x), units[x])
      BY <1>7 DEF Lines, Line
    <3>3. ASSUME NEW shape \in Shapes(x) PROVE Len(shape) \in Nat /\ Len(shape) > 0
      <4>1. shape \in Seq(Words) /\ shape # << >>
        BY <1>5, <1>7, ShapesAre
      <4> QED
        BY <4>1, LenProperties, EmptySeq
    <3> QED
      BY <3>1, <3>2, <3>3 DEF AllWithin
  <2>7. AllClosed(calls, x, heard[x])
    BY DEF AllClosed, Stamped
  <2>8. announced' \subseteq announced \cup {r.unit}
    BY <1>3
  <2>9. Delivered(heard[x], calls, x, announced)
    BY <1>7 DEF Intact
  <2>10. Delivered(Append(heard[x], r), calls \o P, x, announced')
    BY <1>3, <1>5, <1>6, <1>7, <2>2, <2>3, <2>4, <2>5, <2>6, <2>7, <2>8, <2>9, DeliveredStep
  <2>11. ASSUME NEW y \in Elementary, y # x PROVE Delivered(heard[y], calls \o P, y, announced')
    <3>1. y = Audio \/ announced' = announced
      BY <1>3, <2>11 DEF Elementary
    <3>2. Delivered(heard[y], calls, y, announced)
      BY <2>11 DEF Intact
    <3> QED
      BY <1>5, <2>2, <2>11, <3>1, <3>2, DeliveredOther
  <2>12. ASSUME NEW y \in Elementary PROVE Delivered(heard'[y], calls', y, announced')
    <3>1. CASE y = x
      <4>1. heard'[y] = Append(heard[x], r)
        BY <1>3, <3>1
      <4> QED
        BY <2>1, <2>10, <3>1, <4>1
    <3>2. CASE y # x
      <4>1. heard'[y] = heard[y]
        BY <1>3, <3>2
      <4> QED
        BY <2>1, <2>11, <3>2, <4>1
    <3> QED
      BY <3>1, <3>2
  <2> QED
    BY <1>4, <2>12 DEF Intact
<1>8. CASE x \notin Elementary
  <2>1. calls' = calls
    BY <1>3, <1>5, <1>8, ConcatEmptySeq
  <2>2. announced' = announced
    BY <1>3, <1>8 DEF Elementary
  <2>3. \A y \in Elementary : heard'[y] = heard[y]
    BY <1>3, <1>8
  <2> QED
    BY <1>4, <2>1, <2>2, <2>3 DEF Intact
<1> QED
  BY <1>7, <1>8

LEMMA NextKeepsIntact ==
  ASSUME TypeOK, Lines, Stamped, Intact, [Next]_vars
  PROVE  Intact'
<1>1. CASE ParseTsSegment
  BY <1>1, ParseKeepsIntact
<1>2. CASE ~ParseTsSegment
  <2>1. UNCHANGED <<pmt_known, video_stream_type_, pes_, calls, heard, announced, codec>>
    BY <1>2, OthersLeave
  <2> QED
    BY <2>1 DEF Intact, Known
<1> QED
  BY <1>1, <1>2

LEMMA InitIntact == Init => Intact
<1> SUFFICES ASSUME Init PROVE Intact
  OBVIOUS
<1>1. \A x \in Elementary : heard[x] = << >>
  BY DEF Init, Pids
<1>2. ASSUME NEW x \in Elementary PROVE Delivered(heard[x], calls, x, announced)
  BY <1>1 DEF Delivered
<1> QED
  BY <1>2 DEF Init, Intact, Known

AsFrames(x, unit, shape) ==
  \E call \in [FrameStarts(shape) -> Frames(x, unit)] :
    /\ {call[start] : start \in FrameStarts(shape)} = Frames(x, unit)
    /\ \A start \in FrameStarts(shape) :
         /\ calls[call[start]].pieces =
              {[unit |-> unit, shape |-> shape, n |-> n] : n \in FrameParts(shape, start)}
         /\ \A later \in FrameStarts(shape) :
              start < later => call[start] < call[later]

LEMMA WholeAsFrames ==
  ASSUME TypeOK, Intact, NEW x \in Elementary, NEW at \in DOMAIN heard[x], CameWhole(x, at),
         NEW unit, unit = heard[x][at].unit, NEW shape, shape = heard[x][at].shape,
         x = Audio \/ unit \in announced
  PROVE  AsFrames(x, unit, shape)
<1>1. DOMAIN calls = 1..Len(calls)
  BY DEF TypeOK
<1>2. FramesIn(calls, x, unit) = Frames(x, unit)
  BY <1>1 DEF FramesIn, Frames
<1>3. PassedOn(calls, x, unit, shape)
  <2>1. PICK H : H = heard[x]
    OBVIOUS
  <2>2. at \in 1..Len(H) /\ H \in Seq(Piece)
    BY <2>1, TypesOf
  <2>3. Whole(H, at)
    BY <2>1 DEF CameWhole, Whole
  <2> QED
    BY <2>1, <2>2, <2>3 DEF Intact, Delivered
<1> QED
  BY <1>2, <1>3 DEF PassedOn, Match, PartsFrom, AsFrames

LEMMA IntactIsDelivered ==
  ASSUME TypeOK, Intact
  PROVE  IntactUnitsDelivered
<1>1. ASSUME NEW x \in Elementary, NEW at \in DOMAIN heard[x], CameWhole(x, at),
             x = Audio \/ heard[x][at].unit \in announced
      PROVE  AsFrames(x, heard[x][at].unit, heard[x][at].shape)
  BY <1>1, WholeAsFrames
<1> QED
  BY <1>1 DEF IntactUnitsDelivered, AsFrames

-----------------------------------------------------------------------------
(* The theorems.                                                           *)

TsInv == TypeOK /\ Lines /\ Stamped /\ SetsLed /\ Intact

LEMMA TsInvariant == Spec => []TsInv
<1>1. Init => TsInv
  BY InitTypeOK, InitLines, InitStamped, InitLed, InitIntact DEF TsInv
<1>2. TsInv /\ [Next]_vars => TsInv'
  BY NextKeepsLines, NextKeepsStamped, NextKeepsLed, NextKeepsIntact DEF TsInv
<1> QED
  BY <1>1, <1>2, PTL DEF Spec

\* Types, and that only the first piece collected can start a unit.
THEOREM TsTypeCorrect == Spec => []TypeOK
BY TsInvariant, PTL DEF TsInv

\* A frame is stamped with the time of the unit its pieces come from, unless the
\* packet that unit starts with was lost, or its time is beyond 2^30.
THEOREM FramesStampedRight == Spec => []OwnTimestamp
<1>1. TsInv => OwnTimestamp
  BY StampedIsOwn DEF TsInv
<1> QED
  BY <1>1, TsInvariant, PTL

\* The parameter sets of a key picture, if they were heard, are announced before
\* its frames are passed on.
THEOREM SetsBeforeKeyPictures == Spec => []ParameterSetsFirst
<1>1. TsInv => ParameterSetsFirst
  BY LedIsFirst DEF TsInv
<1> QED
  BY <1>1, TsInvariant, PTL

\* A unit that came without a gap is passed on as its frames, each once, whole
\* and in order, whatever was lost around it.
THEOREM UnitsPassedOn == Spec => []IntactUnitsDelivered
<1>1. TsInv => IntactUnitsDelivered
  BY IntactIsDelivered DEF TsInv
<1> QED
  BY <1>1, TsInvariant, PTL

-----------------------------------------------------------------------------
(* The loop that finds the NALs.                                           *)

Entries == Seq(Nat \X Int)

SplitTypeOK ==
  /\ len \in Nat /\ len >= 4
  /\ p \in [0..(len - 1) -> Nat]
  /\ i \in Nat /\ nal \in Nat
  /\ nals \in Entries
  /\ done \in BOOLEAN

\* A start code the loop can see: there is something behind it.
Code(k) == k + 3 < len /\ StartCode(k)

Scanned ==
  /\ i < len
  /\ done => i + 3 >= len
  /\ nal # 0 => nal >= 3 /\ nal <= i /\ Code(nal - 3)
  /\ \A k \in 0..(i - 1) : Code(k) => nal # 0 /\ k + 3 <= nal

Entry(b, n) ==
  /\ b >= 3 /\ b <= nal /\ Code(b - 3) /\ n >= -1
  /\ \/ b < nal /\ Code(b + n + 1)
     \/ done /\ b = nal /\ b + n = len
  /\ \A k \in (b - 2)..(b + n) : ~Code(k)

Found ==
  /\ \A j \in 1..Len(nals) : Entry(nals[j][1], nals[j][2])
  /\ \A j, k \in 1..Len(nals) : j < k => nals[j][1] < nals[k][1]
  /\ \A c \in Nat :
       Code(c) /\ (c + 3 < nal \/ (done /\ c + 3 = nal)) =>
         \E j \in 1..Len(nals) : nals[j][1] = c + 3

SplitInv == SplitTypeOK /\ Scanned /\ Found

-----------------------------------------------------------------------------
LEMMA AppendFacts ==
  ASSUME NEW s \in Entries, NEW e \in Nat \X Int
  PROVE  /\ Append(s, e) \in Entries /\ Len(s) \in Nat
         /\ Len(Append(s, e)) = Len(s) + 1
         /\ \A j \in 1..Len(s) : Append(s, e)[j] = s[j]
         /\ Append(s, e)[Len(s) + 1] = e
BY AppendProperties, LenProperties DEF Entries

\* Start codes do not overlap.
LEMMA CodesApart ==
  ASSUME SplitTypeOK, NEW k \in Nat, Code(k)
  PROVE  ~Code(k + 1) /\ ~Code(k + 2)
BY DEF SplitTypeOK, Code, StartCode

LEMMA SplitInitInv == SplitInit => SplitInv
<1> SUFFICES ASSUME SplitInit PROVE SplitInv
  OBVIOUS
<1>1. SplitTypeOK
  <2>1. len \in Nat /\ len >= 4
    BY MaxLenAssumption DEF SplitInit
  <2>2. p \in [0..(len - 1) -> Nat]
    BY BytesAssumption DEF SplitInit
  <2>3. nals \in Entries
    BY DEF SplitInit, Entries
  <2> QED
    BY <2>1, <2>2, <2>3 DEF SplitInit, SplitTypeOK
<1>2. Len(nals) = 0
  BY DEF SplitInit
<1> QED
  BY <1>1, <1>2 DEF SplitInit, SplitInv, Scanned, Found, SplitTypeOK

LEMMA SkipKeepsInv ==
  ASSUME SplitInv, Skip
  PROVE  SplitInv'
<1>1. SplitTypeOK /\ Scanned /\ Found
  BY DEF SplitInv
<1>2. ~Code(i) /\ i' = i + 1 /\ UNCHANGED <<p, len, nal, nals, done>> /\ i + 3 < len
  BY DEF Skip, Code
<1>3. SplitTypeOK'
  BY <1>1, <1>2 DEF SplitTypeOK
<1>4. \A k : Code(k)' <=> Code(k)
  BY <1>2 DEF Code, StartCode
<1>5. Scanned'
  <2>1. \A k \in 0..i : Code(k) => nal # 0 /\ k + 3 <= nal
    BY <1>1, <1>2 DEF Scanned, SplitTypeOK
  <2> QED
    BY <1>1, <1>2, <1>4, <2>1 DEF Scanned, SplitTypeOK
<1>6. Found'
  BY <1>1, <1>2, <1>4 DEF Found, Entry
<1> QED
  BY <1>3, <1>5, <1>6 DEF SplitInv

LEMMA CutKeepsInv ==
  ASSUME SplitInv, Cut, ~done
  PROVE  SplitInv'
<1>1. SplitTypeOK /\ Scanned /\ Found
  BY DEF SplitInv
<1>2. /\ i + 3 < len /\ Code(i) /\ i' = i + 3 /\ nal' = i + 3
      /\ UNCHANGED <<p, len, done>>
      /\ nals' = IF nal # 0 THEN Append(nals, <<nal, i - nal - 1>>) ELSE nals
  BY DEF Cut, Code, NalBefore
<1>3. \A k : Code(k)' <=> Code(k)
  BY <1>2 DEF Code, StartCode
<1>4. <<nal, i - nal - 1>> \in Nat \X Int
  BY <1>1 DEF SplitTypeOK
<1>5. SplitTypeOK'
  BY <1>1, <1>2, <1>4, AppendFacts DEF SplitTypeOK
<1>6. Scanned'
  <2>1. \A k \in 0..(i + 2) : Code(k) => k + 3 <= i + 3
    <3> SUFFICES ASSUME NEW k \in 0..(i + 2), Code(k) PROVE k <= i
      BY <1>1 DEF SplitTypeOK
    <3>1. i \in Nat /\ ~Code(i + 1) /\ ~Code(i + 2)
      BY <1>1, <1>2, CodesApart DEF SplitTypeOK
    <3> QED
      BY <3>1
  <2>2. (i + 3) - 3 = i /\ (i + 3) - 1 = i + 2 /\ i + 3 >= 3
    BY <1>1 DEF SplitTypeOK
  <2> QED
    BY <1>1, <1>2, <1>3, <2>1, <2>2 DEF Scanned, SplitTypeOK
<1>7. Found'
  <2>1. CASE nal = 0
    <3>1. Len(nals) = 0
      <4>1. \A j \in 1..Len(nals) : Entry(nals[j][1], nals[j][2])
        BY <1>1 DEF Found
      <4>2. \A j \in 1..Len(nals) : FALSE
        <5> TAKE j \in 1..Len(nals)
        <5>1. nals[j] \in Nat \X Int
          BY <1>1, ElementOfSeq DEF SplitTypeOK, Entries
        <5> QED
          BY <4>1, <5>1, <2>1 DEF Entry
      <4> QED
        BY <1>1, <4>2, LenProperties DEF SplitTypeOK, Entries
    <3>2. \A c \in Nat : Code(c) => ~(c + 3 < i + 3)
      BY <1>1, <2>1 DEF Scanned, SplitTypeOK
    <3> QED
      BY <1>2, <1>3, <2>1, <3>1, <3>2 DEF Found
  <2>2. CASE nal # 0
    <3>1. /\ nal >= 3 /\ nal <= i /\ Code(nal - 3) /\ i \in Nat /\ nal \in Nat
          /\ nals \in Entries /\ Len(nals) \in Nat
          /\ \A k \in 0..(i - 1) : Code(k) => k + 3 <= nal
      BY <1>1, <2>2, LenProperties DEF Scanned, SplitTypeOK, Entries
    <3>2. /\ Len(nals') = Len(nals) + 1
          /\ \A j \in 1..Len(nals) : nals'[j] = nals[j]
          /\ nals'[Len(nals) + 1] = <<nal, i - nal - 1>>
      BY <1>2, <1>4, <2>2, <3>1, AppendFacts
    <3>3. \A j \in 1..Len(nals) : nals[j][1] \in Nat /\ nals[j][2] \in Int /\ nals[j][1] < nal
      <4> TAKE j \in 1..Len(nals)
      <4>1. nals[j] \in Nat \X Int
        BY <3>1, ElementOfSeq DEF Entries
      <4>2. Entry(nals[j][1], nals[j][2])
        BY <1>1 DEF Found
      <4> QED
        BY <4>1, <4>2 DEF Entry
    <3>4. \A j \in 1..Len(nals') : Entry(nals[j][1], nals[j][2])'
      <4> SUFFICES ASSUME NEW j \in 1..(Len(nals) + 1)
                   PROVE  Entry(nals[j][1], nals[j][2])'
        BY <3>2
      <4>1. CASE j \in 1..Len(nals)
        <5>1. Entry(nals[j][1], nals[j][2]) /\ nals'[j] = nals[j]
          BY <1>1, <3>2, <4>1 DEF Found
        <5>2. nals[j][1] < nal
          BY <3>3, <4>1
        <5>3. nals[j][1] <= nal'
          BY <5>2, <1>2, <3>1, <3>3, <4>1
        <5>4. \A k : (Code(k)') <=> Code(k)
          BY <1>3
        <5> QED
          BY <5>1, <5>2, <5>3, <5>4, <1>2, <3>1, <3>3, <4>1 DEF Entry
      <4>2. CASE j = Len(nals) + 1
        <5>1. nals'[j][1] = nal /\ nals'[j][2] = i - nal - 1
          BY <3>2, <4>2
        <5>2. nal + (i - nal - 1) + 1 = i /\ nal + (i - nal - 1) = i - 1
          BY <3>1
        <5>3. \A k \in (nal - 2)..(i - 1) : ~Code(k)
          BY <3>1
        <5> QED
          BY <5>1, <5>2, <5>3, <1>2, <1>3, <3>1 DEF Entry
      <4> QED
        BY <4>1, <4>2, <3>1
    <3>5. \A j, k \in 1..Len(nals') : j < k => nals'[j][1] < nals'[k][1]
      <4> SUFFICES ASSUME NEW j \in 1..(Len(nals) + 1), NEW k \in 1..(Len(nals) + 1), j < k
                   PROVE  nals'[j][1] < nals'[k][1]
        BY <3>2
      <4>1. j \in 1..Len(nals)
        BY <3>1
      <4>2. CASE k \in 1..Len(nals)
        BY <4>1, <4>2, <3>2, <1>1 DEF Found
      <4>3. CASE k = Len(nals) + 1
        BY <4>1, <4>3, <3>2, <3>3
      <4> QED
        BY <4>2, <4>3, <3>1
    <3>6. \A c \in Nat : Code(c) /\ c + 3 < i + 3 => \E j \in 1..Len(nals') : nals'[j][1] = c + 3
      <4> SUFFICES ASSUME NEW c \in Nat, Code(c), c < i
                   PROVE  \E j \in 1..(Len(nals) + 1) : nals'[j][1] = c + 3
        BY <3>1, <3>2
      <4>1. c + 3 <= nal
        BY <3>1
      <4>2. CASE c + 3 = nal
        BY <4>2, <3>1, <3>2
      <4>3. CASE c + 3 < nal
        <5>1. PICK j \in 1..Len(nals) : nals[j][1] = c + 3
          BY <4>3, <1>1 DEF Found
        <5> QED
          BY <5>1, <3>1, <3>2
      <4> QED
        BY <4>1, <4>2, <4>3, <3>1
    <3> QED
      BY <3>4, <3>5, <3>6, <1>2, <1>3 DEF Found
  <2> QED
    BY <2>1, <2>2
<1> QED
  BY <1>5, <1>6, <1>7 DEF SplitInv

LEMMA FinishKeepsInv ==
  ASSUME SplitInv, Finish
  PROVE  SplitInv'
<1>1. SplitTypeOK /\ Scanned /\ Found
  BY DEF SplitInv
<1>2. /\ i + 3 >= len /\ ~done /\ done' = TRUE
      /\ UNCHANGED <<p, len, i, nal>>
      /\ nals' = IF nal # 0 THEN Append(nals, <<nal, len - nal>>) ELSE nals
  BY DEF Finish
<1>3. \A k : Code(k)' <=> Code(k)
  BY <1>2 DEF Code, StartCode
<1>4. <<nal, len - nal>> \in Nat \X Int
  BY <1>1 DEF SplitTypeOK
<1>5. SplitTypeOK'
  BY <1>1, <1>2, <1>4, AppendFacts DEF SplitTypeOK
<1>6. Scanned'
  BY <1>1, <1>2, <1>3 DEF Scanned, SplitTypeOK
<1>7. \A k \in Nat : Code(k) => k + 3 <= nal /\ nal # 0
  BY <1>1, <1>2 DEF Scanned, Code, SplitTypeOK
<1>8. Found'
  <2>1. CASE nal = 0
    BY <1>1, <1>2, <1>3, <1>7, <2>1 DEF Found, Entry
  <2>2. CASE nal # 0
    <3>1. /\ nal >= 3 /\ nal < len /\ Code(nal - 3) /\ nal \in Nat /\ len \in Nat
          /\ nals \in Entries /\ Len(nals) \in Nat
      BY <1>1, <2>2, LenProperties DEF Scanned, SplitTypeOK, Entries
    <3>2. /\ Len(nals') = Len(nals) + 1
          /\ \A j \in 1..Len(nals) : nals'[j] = nals[j]
          /\ nals'[Len(nals) + 1] = <<nal, len - nal>>
      BY <1>2, <1>4, <2>2, <3>1, AppendFacts
    <3>3. \A j \in 1..Len(nals) : nals[j][1] \in Nat /\ nals[j][2] \in Int /\ nals[j][1] < nal
      <4> TAKE j \in 1..Len(nals)
      <4>1. nals[j] \in Nat \X Int
        BY <3>1, ElementOfSeq DEF Entries
      <4>2. Entry(nals[j][1], nals[j][2])
        BY <1>1 DEF Found
      <4> QED
        BY <1>2, <4>1, <4>2 DEF Entry
    <3>4. \A j \in 1..Len(nals') : Entry(nals[j][1], nals[j][2])'
      <4> SUFFICES ASSUME NEW j \in 1..(Len(nals) + 1)
                   PROVE  Entry(nals[j][1], nals[j][2])'
        BY <3>2
      <4>1. CASE j \in 1..Len(nals)
        <5>1. Entry(nals[j][1], nals[j][2]) /\ nals'[j] = nals[j]
          BY <1>1, <3>2, <4>1 DEF Found
        <5> QED
          BY <5>1, <1>2, <1>3, <3>1, <3>3, <4>1 DEF Entry
      <4>2. CASE j = Len(nals) + 1
        <5>1. nals'[j][1] = nal /\ nals'[j][2] = len - nal
          BY <3>2, <4>2
        <5>2. nal + (len - nal) = len /\ len - nal >= -1
          BY <3>1
        <5>3. \A k \in (nal - 2)..len : ~Code(k)
          BY <1>7, <3>1
        <5> QED
          BY <5>1, <5>2, <5>3, <1>2, <1>3, <3>1 DEF Entry
      <4> QED
        BY <4>1, <4>2, <3>1
    <3>5. \A j, k \in 1..Len(nals') : j < k => nals'[j][1] < nals'[k][1]
      <4> SUFFICES ASSUME NEW j \in 1..(Len(nals) + 1), NEW k \in 1..(Len(nals) + 1), j < k
                   PROVE  nals'[j][1] < nals'[k][1]
        BY <3>2
      <4>1. j \in 1..Len(nals)
        BY <3>1
      <4>2. CASE k \in 1..Len(nals)
        BY <4>1, <4>2, <3>2, <1>1 DEF Found
      <4>3. CASE k = Len(nals) + 1
        BY <4>1, <4>3, <3>2, <3>3
      <4> QED
        BY <4>2, <4>3, <3>1
    <3>6. \A c \in Nat : Code(c) => \E j \in 1..Len(nals') : nals'[j][1] = c + 3
      <4> SUFFICES ASSUME NEW c \in Nat, Code(c)
                   PROVE  \E j \in 1..(Len(nals) + 1) : nals'[j][1] = c + 3
        BY <3>2
      <4>1. CASE c + 3 = nal
        BY <4>1, <3>1, <3>2
      <4>2. CASE c + 3 < nal
        <5>1. PICK j \in 1..Len(nals) : nals[j][1] = c + 3
          BY <4>2, <1>1 DEF Found
        <5> QED
          BY <5>1, <3>1, <3>2
      <4> QED
        BY <4>1, <4>2, <3>1, <1>7
    <3> QED
      BY <3>4, <3>5, <3>6, <1>2, <1>3 DEF Found
  <2> QED
    BY <2>1, <2>2
<1> QED
  BY <1>5, <1>6, <1>8 DEF SplitInv

LEMMA SplitNextKeepsInv == SplitInv /\ [SplitNext]_splitVars => SplitInv'
<1> SUFFICES ASSUME SplitInv, [SplitNext]_splitVars PROVE SplitInv'
  OBVIOUS
<1>1. CASE Skip
  BY <1>1, SkipKeepsInv
<1>2. CASE Cut
  BY <1>2, CutKeepsInv DEF Cut, SplitInv, Scanned, SplitTypeOK
<1>3. CASE Finish
  BY <1>3, FinishKeepsInv
<1>4. CASE UNCHANGED splitVars
  BY <1>4 DEF splitVars, SplitInv, SplitTypeOK, Scanned, Found, Entry, Code, StartCode
<1> QED
  BY <1>1, <1>2, <1>3, <1>4 DEF SplitNext

-----------------------------------------------------------------------------
\* With start codes of four bytes only, the byte the loop leaves out in front
\* of 00 00 01 is the first of the start code.
LEMMA CodesAreLong ==
  ASSUME SplitTypeOK, LongCodesOnly, NEW k \in Nat, Code(k)
  PROVE  k > 0 /\ LongCode(k - 1)
<1>1. k \in 0..(len - 3) /\ p[k] = 0 /\ p[k + 1] = 0 /\ p[k + 2] = 1
  BY DEF SplitTypeOK, Code, StartCode
<1>2. LongCode(k) \/ (k > 0 /\ LongCode(k - 1))
  BY <1>1 DEF LongCodesOnly
<1>3. (k + 1) + 1 = k + 2
  OBVIOUS
<1>4. ~LongCode(k)
  BY <1>1, <1>3 DEF LongCode, StartCode
<1> QED
  BY <1>2, <1>4

LEMMA LongIsCode ==
  ASSUME SplitTypeOK, NEW k \in Int, LongCode(k)
  PROVE  Code(k + 1)
BY DEF SplitTypeOK, Code, LongCode

LEMMA NalsWholeHolds == SplitInv => NalsWhole
<1> SUFFICES ASSUME SplitInv, done, LongCodesOnly PROVE NalsWhole!2
  BY DEF NalsWhole
<1>1. SplitTypeOK /\ Scanned /\ Found /\ DOMAIN nals = 1..Len(nals)
  BY LenProperties DEF SplitInv, SplitTypeOK, Entries
<1>2. ASSUME NEW j \in DOMAIN nals
      PROVE  IsNal(nals[j][1], nals[j][2])
  <2> DEFINE b == nals[j][1]
             n == nals[j][2]
  <2>1. nals[j] \in Nat \X Int
    BY <1>1, ElementOfSeq DEF SplitTypeOK, Entries
  <2>2. b \in Nat /\ n \in Int /\ Entry(b, n)
    BY <1>1, <2>1 DEF Found
  <2> HIDE DEF b, n
  <2>3. b >= 4 /\ LongCode(b - 4)
    <3>1. b >= 3 /\ b - 3 \in Nat /\ Code(b - 3)
      BY <2>2 DEF Entry
    <3>2. b - 3 > 0 /\ LongCode((b - 3) - 1)
      BY <1>1, <3>1, CodesAreLong
    <3> QED
      BY <2>2, <3>2
  <2>4. b + n = len \/ LongCode(b + n)
    <3>1. CASE Code(b + n + 1)
      <4>1. b + n + 1 \in Nat
        BY <2>2 DEF Entry
      <4> QED
        BY <4>1, <1>1, <2>2, <3>1, CodesAreLong
    <3> QED
      BY <3>1, <2>2 DEF Entry
  <2>5. \A k \in b..(b + n - 1) : ~LongCode(k)
    <3> SUFFICES ASSUME NEW k \in b..(b + n - 1), LongCode(k) PROVE FALSE
      OBVIOUS
    <3>1. Code(k + 1) /\ k + 1 \in (b - 2)..(b + n)
      BY <1>1, <2>2, LongIsCode
    <3> QED
      BY <2>2, <3>1 DEF Entry
  <2>6. IsNal(b, n)
    BY <2>3, <2>4, <2>5 DEF IsNal
  <2> QED
    BY <2>6 DEF b, n
<1>3. \A j, k \in DOMAIN nals : j < k => nals[j][1] < nals[k][1]
  BY <1>1 DEF Found
<1>4. ASSUME NEW b \in 4..(len - 1), LongCode(b - 4)
      PROVE  \E j \in DOMAIN nals : nals[j][1] = b
  <2>1. Code(b - 3) /\ b - 3 \in Nat /\ (b - 3) + 3 = b
    <3>1. Code((b - 4) + 1)
      BY <1>1, <1>4, LongIsCode DEF SplitTypeOK
    <3> QED
      BY <1>1, <3>1 DEF SplitTypeOK
  <2>2. b <= nal
    BY <1>1, <2>1 DEF Scanned, SplitTypeOK, Code
  <2>3. (b - 3) + 3 < nal \/ (done /\ (b - 3) + 3 = nal)
    BY <1>1, <2>1, <2>2 DEF SplitTypeOK
  <2>4. \E j \in 1..Len(nals) : nals[j][1] = (b - 3) + 3
    BY <1>1, <2>1, <2>3 DEF Found
  <2> QED
    BY <1>1, <2>1, <2>4
<1> QED
  BY <1>2, <1>3, <1>4

\* Whatever the bytes, if start codes have four of them, the loop of
\* OnH264Video and OnH265Video finds the NALs of the byte stream.
THEOREM NalsFoundWhole == SplitSpec => []NalsWhole
<1>1. SplitSpec => []SplitInv
  BY SplitInitInv, SplitNextKeepsInv, PTL DEF SplitSpec
<1> QED
  BY <1>1, NalsWholeHolds, PTL
=============================================================================
