--------------------------- MODULE RtmpChunkProofs ---------------------------
(***************************************************************************)
(* Proofs about RtmpChunk for every width of timestamps, every pair of     *)
(* chunk sizes and messages of any length.                                 *)
(*                                                                         *)
(* The invariant looks ahead: let the receiver take the chunks under way,  *)
(* one after the other.  It never takes more or less than the payload of   *)
(* one, everything it delivers is as it was sent, and when the wire is     *)
(* empty what it keeps of each cs_id is what the sender keeps of it.       *)
(***************************************************************************)
EXTENDS RtmpChunk, SequenceTheorems, TLAPS

ChunkType == [cs_id : CsIds, fmt : 0..3, timestamp : 0..(TsMod - 1), length : Nat,
              type : Types, stream : Nat, payload : Seq(Nat \X Nat)]
SentType == [cs_id : CsIds, type : Types, length : Nat, timestamp : Stamps, exact : BOOLEAN]
DeliveredType == [cs_id : CsIds, type : Types, stream : Nat, timestamp : Stamps,
                  msg : Seq(Nat \X Nat)]

-----------------------------------------------------------------------------
(* A receiver, and the same receiver when it has taken one chunk more.     *)

ReceiverType == [head : [CsIds -> Assembly], size : {kDefaultChunk, kOutChunk},
                 got : Seq(DeliveredType)]

Receiver == [head |-> csid_head_, size |-> in_chunk_size_, got |-> delivered]

HeaderAt(r, c) == ReadHeader(r.head[c.cs_id], c)
More(r, c) == [HeaderAt(r, c) EXCEPT !.msg = @ \o c.payload]
Done(r, c) == [More(r, c) EXCEPT !.calc = (@ + HeaderAt(r, c).delta) % TsWide]

Exactly(r, c) == Len(c.payload) = Smaller(HeaderAt(r, c).length - Len(HeaderAt(r, c).msg), r.size)

Message(r, c) == [cs_id |-> c.cs_id, type |-> HeaderAt(r, c).type, stream |-> HeaderAt(r, c).stream,
                  timestamp |-> Done(r, c).calc, msg |-> More(r, c).msg]

After(r, c) ==
  IF Len(More(r, c).msg) = HeaderAt(r, c).length
  THEN [head |-> [r.head EXCEPT ![c.cs_id] = KeepHeader(Done(r, c))],
        size |-> IF HeaderAt(r, c).type = "set_chunk_size" THEN kOutChunk ELSE r.size,
        got  |-> Append(r.got, Message(r, c))]
  ELSE [head |-> [r.head EXCEPT ![c.cs_id] = More(r, c)], size |-> r.size, got |-> r.got]

-----------------------------------------------------------------------------
(* The invariant.                                                          *)

\* What was delivered as the k-th message is what was sent as the k-th.
Faithful(d, k) ==
  /\ d.cs_id = sent[k].cs_id /\ d.type = sent[k].type
  /\ d.stream = (IF sent[k].type = "set_chunk_size" THEN 0 ELSE 1)
  /\ d.msg = Content(k, sent[k].length)
  /\ d.timestamp % TsMod = sent[k].timestamp % TsMod
  /\ sent[k].exact => d.timestamp = sent[k].timestamp

Good(r) ==
  /\ r \in ReceiverType
  /\ Len(r.got) <= Len(sent)
  /\ \A k \in 1..Len(r.got) : Faithful(r.got[k], k)

AllExact(c) == \A i \in 1..Len(sent) : sent[i].cs_id = c => sent[i].exact

\* Both ends agree on what a header may leave out.
Agrees(h, c) ==
  LET pre == csid_pre_info_[c] IN
  /\ h.msg = << >>
  /\ h.length = pre.length /\ h.type = pre.type
  /\ h.delta = pre.delta % TsMod
  /\ h.calc % TsMod = pre.timestamp % TsMod
  /\ AllExact(c) => h.calc = pre.timestamp
  /\ c \in {4, 6} /\ pre.length > 0 => h.stream = 1

Synced(r) ==
  /\ Len(r.got) = Len(sent)
  /\ r.size = out_chunk_size_
  /\ \A c \in CsIds : Agrees(r.head[c], c)

LooksAhead(run) ==
  /\ DOMAIN run = 0..Len(wire)
  /\ run[0] = Receiver
  /\ \A i \in 0..Len(wire) : Good(run[i])
  /\ \A i \in 1..Len(wire) : Exactly(run[i - 1], wire[i]) /\ run[i] = After(run[i - 1], wire[i])
  /\ Synced(run[Len(wire)])

\* Time stands still until the headers are sent; media follows them.
PhaseInv ==
  /\ phase = "connect" => out_chunk_size_ = kDefaultChunk /\ sent = << >>
  /\ phase # "media" => \A c \in CsIds : csid_pre_info_[c].timestamp = 0 /\ csid_pre_info_[c].delta = 0
  /\ phase \in {"video_header", "media"} => csid_pre_info_[4].length > 0
  /\ phase = "media" => csid_pre_info_[6].length > 0

SenderOK ==
  /\ phase \in {"connect", "play", "headers", "video_header", "media"}
  /\ csid_pre_info_ \in [CsIds -> PreInfo]
  /\ out_chunk_size_ \in {kDefaultChunk, kOutChunk}
  /\ sent \in Seq(SentType) /\ Len(sent) <= MaxMessages
  /\ wire \in Seq(ChunkType)

IInv == SenderOK /\ PhaseInv /\ \E run : LooksAhead(run)

-----------------------------------------------------------------------------
(* Arithmetic of the two widths.                                           *)

LEMMA Division ==
  ASSUME NEW a \in Int, NEW m \in Nat \ {0}
  PROVE  /\ a = (m * (a \div m)) + (a % m)
         /\ a % m \in 0..(m - 1) /\ a \div m \in Int
OBVIOUS

LEMMA OnlyZeroIsClose ==
  ASSUME NEW q \in Int, NEW m \in Nat \ {0}, m * q > -m, m * q < m
  PROVE  q = 0
<1>1. CASE q >= 1
  BY <1>1
<1>2. CASE q <= -1
  BY <1>2
<1> QED
  BY <1>1, <1>2

LEMMA AddMultiple ==
  ASSUME NEW a \in Int, NEW k \in Int, NEW m \in Nat \ {0}
  PROVE  (a + (k * m)) % m = a % m
<1> DEFINE b == a + (k * m)
<1>1. b = (m * (b \div m)) + (b % m) /\ b % m \in 0..(m - 1) /\ b \div m \in Int
  BY Division
<1>2. a = (m * (a \div m)) + (a % m) /\ a % m \in 0..(m - 1) /\ a \div m \in Int
  BY Division
<1> DEFINE q == (b \div m) - k - (a \div m)
<1>3. (a % m) - (b % m) = m * q
  BY <1>1, <1>2
<1>4. q = 0
  BY <1>1, <1>2, <1>3, OnlyZeroIsClose
<1> QED
  BY <1>1, <1>2, <1>3, <1>4

\* What the wire keeps of a sum is what it keeps of the summands.
LEMMA SumOfRests ==
  ASSUME NEW a \in Int, NEW b \in Int
  PROVE  (a + (b % TsMod)) % TsMod = (a + b) % TsMod
<1>1. TsMod \in Nat \ {0}
  BY WidthAssumption
<1>2. b = (TsMod * (b \div TsMod)) + (b % TsMod) /\ b % TsMod \in Int /\ b \div TsMod \in Int
  BY <1>1, Division
<1> DEFINE x == a + (b % TsMod)
           k == b \div TsMod
<1>3. a + b = x + (k * TsMod) /\ x \in Int /\ k \in Int
  BY <1>1, <1>2
<1> HIDE DEF x, k
<1>4. (x + (k * TsMod)) % TsMod = x % TsMod
  BY <1>1, <1>3, AddMultiple, Zenon
<1> QED
  BY <1>3, <1>4 DEF x

\* 32 bits hold the 24 of the wire.
LEMMA RestOfRest ==
  ASSUME NEW a \in Int
  PROVE  (a % TsWide) % TsMod = a % TsMod
<1>1. TsMod \in Nat \ {0} /\ TsWide \in Nat \ {0}
  BY WidthAssumption
<1> DEFINE k == TsWide \div TsMod
           q == a \div TsWide
<1>2. TsWide = TsMod * k /\ k \in Int
  <2>1. TsWide = (TsMod * k) + (TsWide % TsMod) /\ k \in Int
    BY <1>1, Division
  <2> QED
    BY <1>1, <2>1, WidthAssumption
<1>3. a = (TsWide * q) + (a % TsWide) /\ a % TsWide \in Int /\ q \in Int
  BY <1>1, Division
<1> DEFINE x == a % TsWide
           p == k * q
<1>4. a = x + (p * TsMod) /\ x \in Int /\ p \in Int
  <2>1. TsWide * q = p * TsMod
    BY <1>1, <1>2, <1>3
  <2> QED
    BY <1>1, <1>2, <1>3, <2>1
<1> HIDE DEF x, p
<1>5. (x + (p * TsMod)) % TsMod = x % TsMod
  BY <1>1, <1>4, AddMultiple, Zenon
<1> QED
  BY <1>4, <1>5 DEF x

LEMMA RestOfSmall ==
  ASSUME NEW m \in Nat \ {0}, NEW a \in 0..(m - 1)
  PROVE  a % m = a
OBVIOUS

LEMMA WireIsNarrow ==
  TsMod \in Nat \ {0} /\ TsWide \in Nat \ {0} /\ TsMod <= TsWide
<1>1. TsMod \in Nat \ {0} /\ TsWide \in Nat \ {0} /\ TsWide % TsMod = 0
  BY WidthAssumption
<1>2. CASE TsWide < TsMod
  <2>1. TsWide % TsMod = TsWide
    BY <1>1, <1>2, RestOfSmall
  <2> QED
    BY <1>1, <2>1
<1> QED
  BY <1>1, <1>2

-----------------------------------------------------------------------------
(* Headers.                                                                *)

\* The four formats one by one.
LEMMA Formats ==
  ASSUME NEW h, NEW c \in ChunkType
  PROVE  \/ c.fmt = 0 /\ ReadHeader(h, c) = [h EXCEPT !.calc = c.timestamp, !.length = c.length,
                                                !.type = c.type, !.stream = c.stream]
         \/ c.fmt = 1 /\ ReadHeader(h, c) = [h EXCEPT !.delta = c.timestamp, !.length = c.length,
                                                !.type = c.type]
         \/ c.fmt = 2 /\ ReadHeader(h, c) = [h EXCEPT !.delta = c.timestamp]
         \/ c.fmt = 3 /\ ReadHeader(h, c) = h
<1>1. c.fmt \in 0..3
  BY DEF ChunkType
<1> QED
  BY <1>1 DEF ReadHeader

LEMMA ReadHeaderType ==
  ASSUME NEW h \in Assembly, NEW c \in ChunkType
  PROVE  /\ ReadHeader(h, c) \in Assembly
         /\ ReadHeader(h, c).msg = h.msg
<1>1. /\ c.timestamp \in Stamps /\ c.timestamp \in 0..(TsMod - 1)
      /\ c.length \in Nat /\ c.type \in Types /\ c.stream \in Nat
  BY WireIsNarrow DEF ChunkType, Stamps
<1> QED
  BY <1>1, Formats DEF Assembly

\* A header may be read as often as its payload is waited for.
LEMMA ReadAgain ==
  ASSUME NEW h \in Assembly, NEW c \in ChunkType
  PROVE  ReadHeader(ReadHeader(h, c), c) = ReadHeader(h, c)
<1> DEFINE g == ReadHeader(h, c)
           f == ReadHeader(g, c)
<1>1. g \in Assembly /\ f \in Assembly
  BY ReadHeaderType
<1>2. CASE c.fmt = 0
  <2>1. /\ g = [h EXCEPT !.calc = c.timestamp, !.length = c.length,
                         !.type = c.type, !.stream = c.stream]
        /\ f = [g EXCEPT !.calc = c.timestamp, !.length = c.length,
                         !.type = c.type, !.stream = c.stream]
    BY <1>2 DEF ReadHeader
  <2> HIDE DEF f, g
  <2> QED
    BY <1>1, <2>1 DEF Assembly, f, g
<1>3. CASE c.fmt = 1
  <2>1. /\ g = [h EXCEPT !.delta = c.timestamp, !.length = c.length, !.type = c.type]
        /\ f = [g EXCEPT !.delta = c.timestamp, !.length = c.length, !.type = c.type]
    BY <1>3 DEF ReadHeader
  <2> HIDE DEF f, g
  <2> QED
    BY <1>1, <2>1 DEF Assembly, f, g
<1>4. CASE c.fmt = 2
  <2>1. g = [h EXCEPT !.delta = c.timestamp] /\ f = [g EXCEPT !.delta = c.timestamp]
    BY <1>4 DEF ReadHeader
  <2> HIDE DEF f, g
  <2> QED
    BY <1>1, <2>1 DEF Assembly, f, g
<1>5. CASE c.fmt = 3
  BY <1>5 DEF ReadHeader
<1> QED
  BY <1>2, <1>3, <1>4, <1>5, Formats

LEMMA AfterType ==
  ASSUME NEW r \in ReceiverType, NEW c \in ChunkType
  PROVE  /\ After(r, c) \in ReceiverType
         /\ Message(r, c) \in DeliveredType
<1> DEFINE h == HeaderAt(r, c)
<1>1. c.cs_id \in CsIds /\ c.payload \in Seq(Nat \X Nat)
  BY DEF ChunkType
<1>2. h \in Assembly
  BY <1>1, ReadHeaderType DEF HeaderAt, ReceiverType
<1>3. h.msg \o c.payload \in Seq(Nat \X Nat)
  BY <1>1, <1>2 DEF Assembly
<1>4. More(r, c) \in Assembly
  BY <1>2, <1>3 DEF More, Assembly
<1>5. (More(r, c).calc + h.delta) % TsWide \in Stamps
  <2>1. More(r, c).calc + h.delta \in Int
    BY <1>2, <1>4 DEF Assembly, Stamps
  <2> QED
    BY <2>1, WidthAssumption, Division DEF Stamps
<1>6. Done(r, c) \in Assembly /\ Done(r, c).calc \in Stamps
  BY <1>4, <1>5 DEF Done, Assembly
<1>7. KeepHeader(Done(r, c)) \in Assembly
  <2>1. << >> \in Seq(Nat \X Nat)
    OBVIOUS
  <2> QED
    BY <1>6, <2>1 DEF KeepHeader, Assembly
<1>8. Message(r, c) \in DeliveredType
  BY <1>1, <1>2, <1>4, <1>6 DEF Message, DeliveredType, Assembly
<1>9. After(r, c) \in ReceiverType
  <2>1. CASE Len(More(r, c).msg) = h.length
    <3>1. Append(r.got, Message(r, c)) \in Seq(DeliveredType)
      BY <1>8 DEF ReceiverType
    <3>2. [r.head EXCEPT ![c.cs_id] = KeepHeader(Done(r, c))] \in [CsIds -> Assembly]
      BY <1>7 DEF ReceiverType
    <3> QED
      BY <2>1, <3>1, <3>2 DEF After, ReceiverType
  <2>2. CASE Len(More(r, c).msg) # h.length
    <3>1. [r.head EXCEPT ![c.cs_id] = More(r, c)] \in [CsIds -> Assembly]
      BY <1>4 DEF ReceiverType
    <3> QED
      BY <2>2, <3>1 DEF After, ReceiverType
  <2> QED
    BY <2>1, <2>2
<1> QED
  BY <1>8, <1>9

-----------------------------------------------------------------------------
(* How a message is cut.                                                   *)

LEMMA TimesMonotone ==
  ASSUME NEW a \in Int, NEW b \in Int, NEW m \in Nat, a <= b
  PROVE  a * m <= b * m
OBVIOUS

LEMMA CutsCover ==
  ASSUME NEW length \in Nat \ {0}, out_chunk_size_ \in Nat \ {0}
  PROVE  /\ ChunkCount(length) \in Nat \ {0}
         /\ length <= ChunkCount(length) * out_chunk_size_
         /\ \A j \in 1..ChunkCount(length) : /\ (j - 1) * out_chunk_size_ \in Nat
                                             /\ (j - 1) * out_chunk_size_ < length
         /\ \A j \in 1..ChunkCount(length) - 1 : j * out_chunk_size_ < length
<1> DEFINE n == ChunkCount(length)
           q == (length - 1) \div out_chunk_size_
<1>1. /\ length - 1 = (out_chunk_size_ * q) + ((length - 1) % out_chunk_size_)
      /\ (length - 1) % out_chunk_size_ \in 0..(out_chunk_size_ - 1) /\ q \in Int
  BY Division
<1>2. n = q + 1
  BY DEF ChunkCount
<1>3. q >= 0
  BY <1>1
<1>4. n \in Nat \ {0}
  BY <1>1, <1>2, <1>3
<1>5. (n - 1) * out_chunk_size_ < length /\ length <= n * out_chunk_size_
  BY <1>1, <1>2
<1>6. ASSUME NEW j \in 1..n PROVE (j - 1) * out_chunk_size_ \in Nat /\ (j - 1) * out_chunk_size_ < length
  <2>1. (j - 1) * out_chunk_size_ <= (n - 1) * out_chunk_size_
    BY <1>4, TimesMonotone
  <2>2. (j - 1) * out_chunk_size_ \in Nat
    BY <1>4
  <2>3. (n - 1) * out_chunk_size_ \in Int
    BY <1>4
  <2> HIDE DEF n
  <2> QED
    BY <1>4, <1>5, <2>1, <2>2, <2>3
<1>7. ASSUME NEW j \in 1..(n - 1) PROVE j * out_chunk_size_ < length
  <2>1. j + 1 \in 1..n /\ (j + 1) - 1 = j
    BY <1>4
  <2> QED
    BY <1>6, <2>1
<1> QED
  BY <1>4, <1>5, <1>6, <1>7

LEMMA ContentIs ==
  ASSUME NEW n \in Nat, NEW length \in Nat
  PROVE  Content(n, length) \in Seq(Nat \X Nat) /\ Len(Content(n, length)) = length
<1>1. Content(n, length) \in [1..length -> Nat \X Nat]
  BY DEF Content
<1>2. Content(n, length) \in Seq(Nat \X Nat)
  BY <1>1
<1> QED
  BY <1>1, <1>2, LenProperties

-----------------------------------------------------------------------------
(* A receiver that waits for no message takes the chunks of one.           *)

\* With m of the message that header h announces.
Holding(r, cs, h, m) ==
  [head |-> [r.head EXCEPT ![cs] = [h EXCEPT !.msg = m]], size |-> r.size, got |-> r.got]

\* And with all of it.
Whole(r, cs, h, m) ==
  [head |-> [r.head EXCEPT ![cs] =
               [h EXCEPT !.calc = (h.calc + h.delta) % TsWide, !.msg = << >>]],
   size |-> IF h.type = "set_chunk_size" THEN kOutChunk ELSE r.size,
   got  |-> Append(r.got, [cs_id |-> cs, type |-> h.type, stream |-> h.stream,
                           timestamp |-> (h.calc + h.delta) % TsWide, msg |-> m])]

\* Of message m, which h announces, the receiver has a bytes and c brings it to b.
Continues(r, c, h, m, a, b) ==
  /\ r \in ReceiverType /\ c \in ChunkType /\ h \in Assembly /\ m \in Seq(Nat \X Nat)
  /\ a \in Nat /\ b \in Nat /\ a <= b /\ b <= Len(m)
  /\ h.length = Len(m)
  /\ HeaderAt(r, c) = [h EXCEPT !.msg = SubSeq(m, 1, a)]
  /\ c.payload = SubSeq(m, a + 1, b)

LEMMA TakesPiece ==
  ASSUME NEW r, NEW c, NEW h, NEW m, NEW a, NEW b, Continues(r, c, h, m, a, b)
  PROVE  /\ Exactly(r, c) <=> b - a = Smaller(Len(m) - a, r.size)
         /\ b < Len(m) => After(r, c) = Holding(r, c.cs_id, h, SubSeq(m, 1, b))
         /\ b = Len(m) => After(r, c) = Whole(r, c.cs_id, h, m)
<1> USE DEF Continues
<1>1. /\ Len(m) \in Nat /\ SubSeq(m, 1, Len(m)) = m
      /\ SubSeq(m, 1, a) \in Seq(Nat \X Nat) /\ Len(SubSeq(m, 1, a)) = a
      /\ SubSeq(m, 1, b) \in Seq(Nat \X Nat) /\ Len(SubSeq(m, 1, b)) = b
      /\ Len(c.payload) = b - a
      /\ SubSeq(m, 1, a) \o c.payload = SubSeq(m, 1, b)
  <2>1. Len(m) \in Nat /\ SubSeq(m, 1, Len(m)) = m
    BY LenProperties, SubSeqFull
  <2>2. SubSeq(m, 1, a) \in Seq(Nat \X Nat) /\ Len(SubSeq(m, 1, a)) = a
    OBVIOUS
  <2>3. SubSeq(m, 1, b) \in Seq(Nat \X Nat) /\ Len(SubSeq(m, 1, b)) = b
    OBVIOUS
  <2>4. SubSeq(m, a + 1, b) \in Seq(Nat \X Nat) /\ Len(SubSeq(m, a + 1, b)) = b - a
    OBVIOUS
  <2>5. SubSeq(m, 1, a) \o SubSeq(m, a + 1, b) = SubSeq(m, 1, b)
    <3>1. a \in 1 - 1 .. Len(m) /\ b \in a .. Len(m) /\ 1 \in 1 .. Len(m) + 1
      BY <2>1
    <3> QED
      BY <3>1, ConcatAdjacentSubSeq
  <2> QED
    BY <2>1, <2>2, <2>3, <2>4, <2>5
<1>2. HeaderAt(r, c).msg = SubSeq(m, 1, a) /\ HeaderAt(r, c).length = Len(m)
  BY DEF Assembly
<1>3. Exactly(r, c) <=> b - a = Smaller(Len(m) - a, r.size)
  BY <1>1, <1>2 DEF Exactly
<1>4. More(r, c) = [h EXCEPT !.msg = SubSeq(m, 1, b)]
  BY <1>1 DEF More, Assembly
<1>5. Len(More(r, c).msg) = b
  BY <1>1, <1>4 DEF Assembly
<1>6. CASE b < Len(m)
  <2>1. Len(More(r, c).msg) # HeaderAt(r, c).length
    <3>1. b # Len(m)
      BY <1>1, <1>6
    <3> QED
      BY <1>2, <1>5, <3>1
  <2> QED
    BY <1>3, <1>4, <1>6, <2>1 DEF After, Holding
<1>7. CASE b = Len(m)
  <2>1. Len(More(r, c).msg) = HeaderAt(r, c).length /\ More(r, c).msg = m
    BY <1>1, <1>2, <1>4, <1>5, <1>7 DEF Assembly
  <2>2. /\ HeaderAt(r, c).type = h.type /\ HeaderAt(r, c).stream = h.stream
        /\ HeaderAt(r, c).delta = h.delta
    BY DEF Assembly
  <2>3. Done(r, c) = [h EXCEPT !.calc = (h.calc + h.delta) % TsWide, !.msg = SubSeq(m, 1, b)]
    BY <1>4, <2>2 DEF Done, Assembly
  <2>4. KeepHeader(Done(r, c)) = [h EXCEPT !.calc = (h.calc + h.delta) % TsWide, !.msg = << >>]
    BY <2>3 DEF KeepHeader, Assembly
  <2>5. Done(r, c).calc = (h.calc + h.delta) % TsWide
    BY <2>3 DEF Assembly
  <2>6. After(r, c) = Whole(r, c.cs_id, h, m)
    BY <2>1, <2>2, <2>4, <2>5 DEF After, Whole, Message
  <2> QED
    BY <1>3, <1>7, <2>6
<1> QED
  BY <1>1, <1>6, <1>7

\* The chunks SendData makes of a message, whatever their first header.
Chunked(cks, cs, n, length) ==
  \A i \in 1..ChunkCount(length) :
    /\ cks[i] \in ChunkType /\ cks[i].cs_id = cs
    /\ cks[i].payload = Piece(n, length, i)
    /\ i > 1 => cks[i].fmt = 3

\* What a receiver holds when it has taken i of them.
TakenOf(r, cs, h, n, length, i) ==
  IF i = 0 THEN r
  ELSE IF i < ChunkCount(length)
  THEN Holding(r, cs, h, SubSeq(Content(n, length), 1, i * out_chunk_size_))
  ELSE Whole(r, cs, h, Content(n, length))

LEMMA TakesMessage ==
  ASSUME NEW r \in ReceiverType, NEW cs \in CsIds, NEW n \in Nat, NEW length \in Nat \ {0},
         NEW cks, Chunked(cks, cs, n, length),
         NEW h, h = ReadHeader(r.head[cs], cks[1]), h.length = length,
         r.head[cs].msg = << >>, r.size = out_chunk_size_,
         NEW i \in 1..ChunkCount(length)
  PROVE  LET p == TakenOf(r, cs, h, n, length, i - 1)
         IN  /\ Exactly(p, cks[i])
             /\ TakenOf(r, cs, h, n, length, i) = After(p, cks[i])
             /\ p \in ReceiverType /\ p.got = r.got /\ p.size = r.size
<1> DEFINE p == TakenOf(r, cs, h, n, length, i - 1)
           m == Content(n, length)
           a == (i - 1) * out_chunk_size_
           b == Smaller(i * out_chunk_size_, length)
<1>1. out_chunk_size_ \in Nat \ {0} /\ r.size \in Nat \ {0}
  BY ChunkAssumption DEF ReceiverType
<1>2. /\ ChunkCount(length) \in Nat \ {0} /\ a \in Nat /\ a < length
      /\ length <= ChunkCount(length) * out_chunk_size_
      /\ i < ChunkCount(length) => i * out_chunk_size_ < length
  BY <1>1, CutsCover
<1>3. m \in Seq(Nat \X Nat) /\ Len(m) = length
  BY ContentIs
<1>4. i * out_chunk_size_ = a + out_chunk_size_ /\ i * out_chunk_size_ \in Nat
  BY <1>1
<1>5. b \in Nat /\ a <= b /\ b <= Len(m) /\ b - a = Smaller(Len(m) - a, r.size)
  BY <1>1, <1>2, <1>3, <1>4 DEF Smaller
<1>6. /\ cks[i] \in ChunkType /\ cks[i].cs_id = cs /\ cks[i].payload = SubSeq(m, a + 1, b)
      /\ i > 1 => cks[i].fmt = 3
      /\ cks[1] \in ChunkType /\ cks[1].cs_id = cs
  BY <1>2 DEF Chunked, Piece
<1>7. h \in Assembly /\ h.msg = << >>
  BY <1>6, ReadHeaderType DEF ReceiverType
<1> HIDE DEF m, a, b, p
<1>8. /\ p \in ReceiverType /\ p.got = r.got /\ p.size = r.size
      /\ HeaderAt(p, cks[i]) = [h EXCEPT !.msg = SubSeq(m, 1, a)]
      /\ \A e : [p.head EXCEPT ![cs] = e] = [r.head EXCEPT ![cs] = e]
  <2>1. CASE i = 1
    <3>1. p = r /\ a = 0
      BY <1>1, <2>1 DEF TakenOf, a, p
    <3>2. SubSeq(m, 1, a) = << >>
      BY <3>1
    <3> QED
      BY <1>6, <1>7, <2>1, <3>1, <3>2 DEF HeaderAt, Assembly
  <2>2. CASE i > 1
    <3>1. p = Holding(r, cs, h, SubSeq(m, 1, a))
      BY <1>2, <2>2 DEF TakenOf, m, a, p
    <3>2. SubSeq(m, 1, a) \in Seq(Nat \X Nat)
      BY <1>2, <1>3
    <3>3. [h EXCEPT !.msg = SubSeq(m, 1, a)] \in Assembly
      BY <1>7, <3>2 DEF Assembly
    <3>4. p \in ReceiverType /\ p.got = r.got /\ p.size = r.size
      BY <3>1, <3>3 DEF Holding, ReceiverType
    <3>5. p.head = [r.head EXCEPT ![cs] = [h EXCEPT !.msg = SubSeq(m, 1, a)]]
      BY <3>1 DEF Holding
    <3>6. HeaderAt(p, cks[i]) = [h EXCEPT !.msg = SubSeq(m, 1, a)]
      <4>1. HeaderAt(p, cks[i]) = p.head[cs]
        BY <1>6, <2>2 DEF HeaderAt, ReadHeader
      <4> QED
        BY <3>5, <4>1 DEF ReceiverType
    <3>7. \A e : [p.head EXCEPT ![cs] = e] = [r.head EXCEPT ![cs] = e]
      BY <3>5 DEF ReceiverType
    <3> QED
      BY <3>4, <3>6, <3>7
  <2>3. i = 1 \/ i > 1
    BY <1>2
  <2> QED
    BY <2>1, <2>2, <2>3, Zenon
<1>9. \A x : Holding(p, cs, h, x) = Holding(r, cs, h, x) /\ Whole(p, cs, h, x) = Whole(r, cs, h, x)
  BY <1>8 DEF Holding, Whole
<1>10. /\ Exactly(p, cks[i])
       /\ b < Len(m) => After(p, cks[i]) = Holding(p, cs, h, SubSeq(m, 1, b))
       /\ b = Len(m) => After(p, cks[i]) = Whole(p, cs, h, m)
  <2>1. Continues(p, cks[i], h, m, a, b)
    BY <1>2, <1>3, <1>5, <1>6, <1>7, <1>8 DEF Continues
  <2>2. /\ Exactly(p, cks[i]) <=> b - a = Smaller(Len(m) - a, p.size)
        /\ b < Len(m) => After(p, cks[i]) = Holding(p, cks[i].cs_id, h, SubSeq(m, 1, b))
        /\ b = Len(m) => After(p, cks[i]) = Whole(p, cks[i].cs_id, h, m)
    BY <2>1, TakesPiece
  <2> QED
    BY <1>3, <1>5, <1>6, <1>8, <2>2
<1>11. TakenOf(r, cs, h, n, length, i) = After(p, cks[i])
  <2>1. CASE i < ChunkCount(length)
    <3>1. b = i * out_chunk_size_ /\ b < Len(m)
      BY <1>2, <1>3, <1>4, <2>1 DEF b, Smaller
    <3> QED
      BY <1>9, <1>10, <2>1, <3>1 DEF TakenOf, m
  <2>2. CASE i = ChunkCount(length)
    <3>1. b = Len(m)
      BY <1>2, <1>3, <1>4, <2>2 DEF b, Smaller
    <3> QED
      BY <1>9, <1>10, <2>2, <3>1 DEF TakenOf, m
  <2> QED
    BY <1>2, <2>1, <2>2
<1> QED
  BY <1>8, <1>10, <1>11 DEF p

-----------------------------------------------------------------------------
(* The first header of a message.                                          *)

\* What the callers of SendData see to.  A full header is sent while time
\* stands still; anything less only where the player's message stream is known.
Prepared(cs, type, stream, timestamp, delta, length, force_fmt0) ==
  LET pre == csid_pre_info_[cs]
      fmt == Fmt(pre, length, type, delta, force_fmt0)
  IN  /\ cs \in CsIds /\ type \in Types /\ stream \in Nat /\ length \in Nat \ {0}
      /\ timestamp \in Stamps /\ delta \in Stamps
      /\ type = "set_chunk_size" => cs = 2
      /\ fmt = 0 => /\ timestamp = 0 /\ delta = 0 /\ pre.delta = 0
                    /\ stream = (IF type = "set_chunk_size" THEN 0 ELSE 1)
      /\ fmt # 0 => /\ cs \in {4, 6} /\ pre.length > 0 /\ type \in {"audio", "video"}
                    /\ timestamp % TsMod = (pre.timestamp + delta) % TsMod

Fitting(cs, type, timestamp, delta) ==
  /\ delta < TsMod
  /\ csid_pre_info_[cs].timestamp + delta = timestamp \/ type \notin {"audio", "video"}

LEMMA HeaderTells ==
  ASSUME NEW cs, NEW type, NEW stream, NEW timestamp, NEW delta, NEW length, NEW force_fmt0,
         Prepared(cs, type, stream, timestamp, delta, length, force_fmt0),
         csid_pre_info_ \in [CsIds -> PreInfo],
         NEW g \in Assembly, Agrees(g, cs),
         NEW c \in ChunkType, c.fmt = Fmt(csid_pre_info_[cs], length, type, delta, force_fmt0),
         c.timestamp = delta % TsMod, c.length = length, c.type = type, c.stream = stream
  PROVE  LET h == ReadHeader(g, c) IN
         /\ h \in Assembly /\ h.msg = << >> /\ h.length = length /\ h.type = type
         /\ h.stream = (IF type = "set_chunk_size" THEN 0 ELSE 1)
         /\ h.delta = delta % TsMod
         /\ (h.calc + h.delta) % TsWide \in Stamps
         /\ ((h.calc + h.delta) % TsWide) % TsMod = timestamp % TsMod
         /\ AllExact(cs) /\ Fitting(cs, type, timestamp, delta) =>
              (h.calc + h.delta) % TsWide = timestamp
<1> DEFINE h == ReadHeader(g, c)
           pre == csid_pre_info_[cs]
<1>1. /\ cs \in CsIds /\ length \in Nat \ {0} /\ timestamp \in Stamps /\ delta \in Stamps
      /\ timestamp \in Nat /\ delta \in Nat /\ delta \in Int
  BY DEF Prepared, Stamps
<1>2. /\ pre \in PreInfo /\ pre.timestamp \in Nat /\ pre.timestamp \in Int /\ pre.length \in Nat /\ pre.delta \in Nat
  BY <1>1 DEF PreInfo, Stamps
<1>3. TsMod \in Nat \ {0} /\ TsWide \in Nat \ {0}
  BY WireIsNarrow
<1>4. /\ g.msg = << >> /\ g.length = pre.length /\ g.type = pre.type
      /\ g.delta = pre.delta % TsMod /\ g.calc % TsMod = pre.timestamp % TsMod
      /\ AllExact(cs) => g.calc = pre.timestamp
      /\ cs \in {4, 6} /\ pre.length > 0 => g.stream = 1
  BY DEF Agrees
<1>5. h \in Assembly /\ h.msg = << >>
  BY <1>4, ReadHeaderType
<1>6. h.calc \in Nat /\ h.delta \in Nat /\ g.calc \in Nat /\ g.calc \in Int
  BY <1>5 DEF Assembly, Stamps
<1>7. \A x \in Nat : x % TsWide \in Stamps /\ (x \in Stamps => x % TsWide = x)
  BY <1>3 DEF Stamps
<1>8. (h.calc + h.delta) % TsWide \in Stamps
  BY <1>6, <1>7
<1>9. CASE c.fmt = 0
  <2>1. timestamp = 0 /\ delta = 0 /\ pre.delta = 0
    BY <1>9 DEF Prepared
  <2>2. 0 % TsMod = 0 /\ 0 % TsWide = 0
    BY <1>3
  <2>3. h.calc = 0 /\ h.delta = 0 /\ h.length = length /\ h.type = type /\ h.stream = stream
    <3>1. h = [g EXCEPT !.calc = c.timestamp, !.length = c.length, !.type = c.type,
                        !.stream = c.stream]
      BY <1>9 DEF ReadHeader
    <3>2. c.timestamp = 0 /\ g.delta = 0
      BY <1>4, <2>1, <2>2
    <3> HIDE DEF h
    <3> QED
      BY <3>1, <3>2 DEF Assembly
  <2> QED
    BY <1>5, <1>8, <1>9, <2>1, <2>2, <2>3 DEF Prepared
<1>10. CASE c.fmt # 0
  <2>1. /\ cs \in {4, 6} /\ pre.length > 0 /\ type \in {"audio", "video"}
        /\ timestamp % TsMod = (pre.timestamp + delta) % TsMod
    BY <1>10 DEF Prepared
  <2>2. /\ h.calc = g.calc /\ h.stream = g.stream /\ h.length = length /\ h.type = type
        /\ h.delta = delta % TsMod
    <3>1. CASE c.fmt = 1
      <4>1. h = [g EXCEPT !.delta = c.timestamp, !.length = c.length, !.type = c.type]
        BY <3>1 DEF ReadHeader
      <4> HIDE DEF h
      <4> QED
        BY <4>1 DEF Assembly
    <3>2. CASE c.fmt = 2
      <4>1. pre.length = length /\ pre.type = type
        BY <3>2 DEF Fmt
      <4> QED
        BY <1>4, <3>2, <4>1 DEF ReadHeader, Assembly
    <3>3. CASE c.fmt = 3
      <4>1. pre.length = length /\ pre.type = type /\ pre.delta = delta
        BY <3>3 DEF Fmt
      <4> QED
        BY <1>4, <3>3, <4>1 DEF ReadHeader, Assembly
    <3> QED
      BY <1>10, <3>1, <3>2, <3>3, Formats
  <2>3. h.stream = 1 /\ type # "set_chunk_size"
    BY <1>4, <2>1, <2>2
  <2>4. ((h.calc + h.delta) % TsWide) % TsMod = timestamp % TsMod
    <3>1. ((h.calc + h.delta) % TsWide) % TsMod = (g.calc + (delta % TsMod)) % TsMod
      BY <1>6, <2>2, RestOfRest
    <3>2. (g.calc + (delta % TsMod)) % TsMod = (g.calc + delta) % TsMod
      BY <1>1, <1>6, SumOfRests, Zenon
    <3>3. (delta + (g.calc % TsMod)) % TsMod = (delta + g.calc) % TsMod
      BY <1>1, <1>6, SumOfRests, Zenon
    <3>4. (delta + (pre.timestamp % TsMod)) % TsMod = (delta + pre.timestamp) % TsMod
      BY <1>1, <1>2, SumOfRests, Zenon
    <3>5. delta + pre.timestamp = pre.timestamp + delta /\ g.calc + delta = delta + g.calc
      BY <1>1, <1>2, <1>6
    <3> QED
      BY <1>4, <2>1, <3>1, <3>2, <3>3, <3>4, <3>5, Zenon
  <2>5. ASSUME AllExact(cs), Fitting(cs, type, timestamp, delta)
        PROVE  (h.calc + h.delta) % TsWide = timestamp
    <3>1. delta % TsMod = delta /\ pre.timestamp + delta = timestamp
      BY <1>1, <1>3, <2>1, <2>5, RestOfSmall DEF Fitting
    <3>2. h.calc = pre.timestamp /\ h.delta = delta
      BY <1>4, <2>2, <2>5, <3>1
    <3> HIDE DEF h, pre
    <3>3. h.calc + h.delta = timestamp
      BY <3>1, <3>2
    <3> QED
      BY <1>1, <1>7, <3>3
  <2> QED
    BY <1>5, <1>8, <2>2, <2>3, <2>4, <2>5
<1> QED
  BY <1>9, <1>10

-----------------------------------------------------------------------------
(* Sending.                                                                *)

ChunksOf(cs, type, stream, delta, length, force_fmt0) ==
  [i \in 1..ChunkCount(length) |->
     [cs_id |-> cs,
      fmt |-> IF i = 1 THEN Fmt(csid_pre_info_[cs], length, type, delta, force_fmt0) ELSE 3,
      timestamp |-> delta % TsMod, length |-> length, type |-> type,
      stream |-> stream, payload |-> Piece(Len(sent) + 1, length, i)]]

SentAs(cs, type, timestamp, delta, length) ==
  [cs_id |-> cs, type |-> type, length |-> length, timestamp |-> timestamp,
   exact |-> AllExact(cs) /\ Fitting(cs, type, timestamp, delta)]

LEMMA SendDataIs ==
  ASSUME NEW cs, NEW type, NEW stream, NEW timestamp, NEW delta, NEW length, NEW force_fmt0,
         SendData(cs, type, stream, timestamp, delta, length, force_fmt0)
  PROVE  /\ Len(sent) + 1 <= MaxMessages
         /\ sent' = Append(sent, SentAs(cs, type, timestamp, delta, length))
         /\ wire' = wire \o ChunksOf(cs, type, stream, delta, length, force_fmt0)
         /\ csid_pre_info_' = [csid_pre_info_ EXCEPT
              ![cs] = [timestamp |-> timestamp, delta |-> delta, length |-> length, type |-> type]]
BY DEF SendData, SentAs, ChunksOf, AllExact, Fitting

LEMMA ChunksAre ==
  ASSUME SenderOK,
         NEW cs, NEW type, NEW stream, NEW timestamp, NEW delta, NEW length, NEW force_fmt0,
         Prepared(cs, type, stream, timestamp, delta, length, force_fmt0)
  PROVE  LET cks == ChunksOf(cs, type, stream, delta, length, force_fmt0) IN
         /\ ChunkCount(length) \in Nat \ {0}
         /\ cks \in Seq(ChunkType) /\ Len(cks) = ChunkCount(length)
         /\ Chunked(cks, cs, Len(sent) + 1, length)
         /\ cks[1].fmt = Fmt(csid_pre_info_[cs], length, type, delta, force_fmt0)
         /\ cks[1].timestamp = delta % TsMod /\ cks[1].length = length
         /\ cks[1].type = type /\ cks[1].stream = stream
<1> DEFINE cks == ChunksOf(cs, type, stream, delta, length, force_fmt0)
           n == Len(sent) + 1
           count == ChunkCount(length)
<1>1. cs \in CsIds /\ type \in Types /\ stream \in Nat /\ length \in Nat \ {0} /\ delta \in Nat
  BY DEF Prepared, Stamps
<1>2. out_chunk_size_ \in Nat \ {0} /\ n \in Nat
  BY ChunkAssumption DEF SenderOK
<1>3. count \in Nat \ {0}
  BY <1>1, <1>2, CutsCover
<1>4. delta % TsMod \in 0..(TsMod - 1)
  BY <1>1, WireIsNarrow
<1>5. Fmt(csid_pre_info_[cs], length, type, delta, force_fmt0) \in 0..3
  BY DEF Fmt
<1>6. ASSUME NEW i \in 1..count PROVE Piece(n, length, i) \in Seq(Nat \X Nat)
  <2>1. /\ Content(n, length) \in Seq(Nat \X Nat) /\ Len(Content(n, length)) = length
    BY <1>1, <1>2, ContentIs
  <2>2. (i - 1) * out_chunk_size_ \in Nat
    BY <1>1, <1>2, CutsCover
  <2>3. i * out_chunk_size_ \in Nat
    BY <1>2, <1>3
  <2>4. Smaller(i * out_chunk_size_, length) \in Nat /\ Smaller(i * out_chunk_size_, length) <= length
    BY <1>1, <2>3 DEF Smaller
  <2> QED
    BY <2>1, <2>2, <2>4 DEF Piece
<1> HIDE DEF n, count
<1>7. \A i \in 1..count : /\ cks[i] \in ChunkType /\ cks[i].cs_id = cs
                          /\ cks[i].payload = Piece(n, length, i)
                          /\ i > 1 => cks[i].fmt = 3
  BY <1>1, <1>3, <1>4, <1>5, <1>6 DEF ChunksOf, ChunkType, n, count
<1>8. cks \in [1..count -> ChunkType]
  BY <1>7 DEF ChunksOf, count
<1>9. cks \in Seq(ChunkType) /\ Len(cks) = count
  BY <1>3, <1>8
<1>10. 1 \in 1..count
  BY <1>3
<1>11. /\ cks[1].fmt = Fmt(csid_pre_info_[cs], length, type, delta, force_fmt0)
       /\ cks[1].timestamp = delta % TsMod /\ cks[1].length = length
       /\ cks[1].type = type /\ cks[1].stream = stream
  BY <1>10 DEF ChunksOf, count
<1> QED
  BY <1>3, <1>7, <1>9, <1>11 DEF Chunked, n, count

LEMMA SentAsType ==
  ASSUME NEW cs, NEW type, NEW stream, NEW timestamp, NEW delta, NEW length, NEW force_fmt0,
         Prepared(cs, type, stream, timestamp, delta, length, force_fmt0)
  PROVE  SentAs(cs, type, timestamp, delta, length) \in SentType
<1>1. cs \in CsIds /\ type \in Types /\ length \in Nat /\ timestamp \in Stamps
  BY DEF Prepared
<1>2. (AllExact(cs) /\ Fitting(cs, type, timestamp, delta)) \in BOOLEAN
  BY DEF AllExact, Fitting
<1> QED
  BY <1>1, <1>2 DEF SentAs, SentType

\* What was sent stays as it was.
LEMMA GoodLater ==
  ASSUME NEW r, Good(r), sent \in Seq(SentType), NEW e \in SentType, sent' = Append(sent, e)
  PROVE  Good(r)'
<1>1. Len(sent') = Len(sent) + 1 /\ Len(sent) \in Nat /\ \A k \in 1..Len(sent) : sent'[k] = sent[k]
  BY AppendProperties, LenProperties
<1>2. Len(r.got) \in Nat /\ Len(r.got) <= Len(sent)
  BY LenProperties DEF Good, ReceiverType
<1>3. ASSUME NEW k \in 1..Len(r.got) PROVE Faithful(r.got[k], k)'
  <2>1. sent'[k] = sent[k] /\ Faithful(r.got[k], k)
    BY <1>1, <1>2 DEF Good
  <2> QED
    BY <2>1 DEF Faithful
<1> QED
  BY <1>1, <1>2, <1>3 DEF Good

\* The receiver that has taken all before takes the message, faithfully.
LEMMA WholeIsGood ==
  ASSUME SenderOK, NEW r, Good(r), Synced(r),
         NEW cs, NEW type, NEW stream, NEW timestamp, NEW delta, NEW length, NEW force_fmt0,
         Prepared(cs, type, stream, timestamp, delta, length, force_fmt0),
         SendData(cs, type, stream, timestamp, delta, length, force_fmt0),
         out_chunk_size_' = IF type = "set_chunk_size" THEN kOutChunk ELSE out_chunk_size_,
         NEW h, h = ReadHeader(r.head[cs], ChunksOf(cs, type, stream, delta, length, force_fmt0)[1]),
         NEW w, w = Whole(r, cs, h, Content(Len(sent) + 1, length))
  PROVE  /\ h.length = length /\ r.head[cs].msg = << >>
         /\ Good(w)' /\ Synced(w)'
         /\ SentAs(cs, type, timestamp, delta, length) \in SentType
<1> DEFINE c == ChunksOf(cs, type, stream, delta, length, force_fmt0)[1]
<1>a. PICK n : n = Len(sent) + 1
  OBVIOUS
<1>b. PICK m : m = Content(n, length)
  OBVIOUS
<1>c. PICK s : s = SentAs(cs, type, timestamp, delta, length)
  OBVIOUS
<1>d. PICK t : t = (h.calc + h.delta) % TsWide
  OBVIOUS
<1>e. PICK d : d = [cs_id |-> cs, type |-> h.type, stream |-> h.stream, timestamp |-> t, msg |-> m]
  OBVIOUS
<1>f. w = Whole(r, cs, h, m)
  BY <1>a, <1>b
<1>1. /\ cs \in CsIds /\ type \in Types /\ length \in Nat \ {0} /\ timestamp \in Stamps
      /\ delta \in Stamps
      /\ type = "set_chunk_size" => cs = 2
  BY DEF Prepared
<1>2. /\ csid_pre_info_ \in [CsIds -> PreInfo] /\ sent \in Seq(SentType) /\ Len(sent) \in Nat
  BY LenProperties DEF SenderOK
<1>3. /\ r \in ReceiverType /\ r.head \in [CsIds -> Assembly] /\ r.got \in Seq(DeliveredType)
      /\ Len(r.got) = Len(sent) /\ r.size = out_chunk_size_
      /\ \A k \in 1..Len(r.got) : Faithful(r.got[k], k)
      /\ \A x \in CsIds : Agrees(r.head[x], x)
  BY DEF Good, ReceiverType, Synced
<1>4. c \in ChunkType
  BY ChunksAre DEF Chunked
<1>5. /\ h \in Assembly /\ h.msg = << >> /\ h.length = length /\ h.type = type
      /\ h.stream = (IF type = "set_chunk_size" THEN 0 ELSE 1)
      /\ h.delta = delta % TsMod
      /\ t \in Stamps /\ t % TsMod = timestamp % TsMod
      /\ AllExact(cs) /\ Fitting(cs, type, timestamp, delta) => t = timestamp
  <2>1. /\ c.fmt = Fmt(csid_pre_info_[cs], length, type, delta, force_fmt0)
        /\ c.timestamp = delta % TsMod /\ c.length = length /\ c.type = type /\ c.stream = stream
    BY ChunksAre
  <2>2. r.head[cs] \in Assembly /\ Agrees(r.head[cs], cs)
    BY <1>1, <1>3
  <2> HIDE DEF c
  <2> QED
    BY <1>2, <1>4, <1>d, <2>1, <2>2, HeaderTells DEF c
<1>6. /\ s \in SentType /\ s.cs_id = cs /\ s.type = type /\ s.length = length
      /\ s.timestamp = timestamp
      /\ s.exact <=> AllExact(cs) /\ Fitting(cs, type, timestamp, delta)
  <2>1. (AllExact(cs) /\ Fitting(cs, type, timestamp, delta)) \in BOOLEAN
    BY DEF AllExact, Fitting
  <2> QED
    BY <1>1, <1>c, <2>1 DEF SentAs, SentType
<1>7. sent' = Append(sent, s)
  BY <1>c, SendDataIs
<1>8. /\ Len(sent') = n /\ sent'[n] = s /\ \A k \in 1..Len(sent) : sent'[k] = sent[k]
  BY <1>2, <1>6, <1>7, <1>a, AppendProperties
<1>9. m \in Seq(Nat \X Nat) /\ m = Content(n, length) /\ n \in Nat
  BY <1>1, <1>2, <1>a, <1>b, ContentIs
<1> HIDE DEF c
<1>10. d \in DeliveredType /\ Faithful(d, n)'
  <2>1. d \in DeliveredType
    BY <1>1, <1>5, <1>9, <1>e DEF DeliveredType
  <2>2. /\ d.cs_id = cs /\ d.type = type /\ d.msg = Content(n, length) /\ d.timestamp = t
        /\ d.stream = (IF type = "set_chunk_size" THEN 0 ELSE 1)
    BY <1>5, <1>9, <1>e
  <2> QED
    BY <1>5, <1>6, <1>8, <2>1, <2>2 DEF Faithful
<1>11. /\ w.got = Append(r.got, d)
       /\ w.size = (IF type = "set_chunk_size" THEN kOutChunk ELSE r.size)
       /\ w.head = [r.head EXCEPT ![cs] = [h EXCEPT !.calc = t, !.msg = << >>]]
      /\ w = [head |-> w.head, size |-> w.size, got |-> w.got]
  BY <1>5, <1>d, <1>e, <1>f DEF Whole
<1>12. w \in ReceiverType
  <2>1. [h EXCEPT !.calc = t, !.msg = << >>] \in Assembly
    BY <1>5 DEF Assembly
  <2>2. [r.head EXCEPT ![cs] = [h EXCEPT !.calc = t, !.msg = << >>]] \in [CsIds -> Assembly]
    BY <1>3, <2>1
  <2>3. Append(r.got, d) \in Seq(DeliveredType)
    BY <1>3, <1>10
  <2>4. (IF type = "set_chunk_size" THEN kOutChunk ELSE r.size) \in {kDefaultChunk, kOutChunk}
    BY <1>3 DEF ReceiverType
  <2> QED
    BY <1>11, <2>2, <2>3, <2>4 DEF ReceiverType
<1>13. Len(w.got) = n /\ w.got[n] = d /\ \A k \in 1..Len(sent) : w.got[k] = r.got[k]
  BY <1>3, <1>10, <1>11, <1>a, AppendProperties
<1>14. Good(w)'
  <2>1. ASSUME NEW k \in 1..n PROVE Faithful(w.got[k], k)'
    <3>1. CASE k = n
      BY <1>10, <1>13, <3>1
    <3>2. CASE k # n
      <4>1. k \in 1..Len(sent)
        BY <1>2, <1>a, <3>2
      <4>2. sent'[k] = sent[k] /\ Faithful(r.got[k], k) /\ w.got[k] = r.got[k]
        BY <1>3, <1>8, <1>13, <4>1
      <4> QED
        BY <4>2 DEF Faithful
    <3> QED
      BY <3>1, <3>2
  <2> QED
    BY <1>2, <1>a, <1>8, <1>12, <1>13, <2>1 DEF Good
<1>15. Synced(w)'
  <2>1. w.size = out_chunk_size_'
    BY <1>3, <1>11
  <2>2. /\ csid_pre_info_'[cs] = [timestamp |-> timestamp, delta |-> delta, length |-> length,
                                  type |-> type]
        /\ \A x \in CsIds \ {cs} : csid_pre_info_'[x] = csid_pre_info_[x]
    BY <1>1, <1>2, SendDataIs
  <2>3. \A x \in CsIds : AllExact(x)' => AllExact(x)
    BY <1>2, <1>8, <1>a DEF AllExact
  <2>4. AllExact(cs)' => AllExact(cs) /\ Fitting(cs, type, timestamp, delta)
    BY <1>2, <1>6, <1>8, <1>a DEF AllExact
  <2>5. ASSUME NEW x \in CsIds PROVE Agrees(w.head[x], x)'
    <3>1. CASE x = cs
      <4>1. w.head[x] = [h EXCEPT !.calc = t, !.msg = << >>]
        BY <1>1, <1>3, <1>11, <3>1
      <4>2. /\ w.head[x].msg = << >> /\ w.head[x].length = length /\ w.head[x].type = type
            /\ w.head[x].delta = delta % TsMod /\ w.head[x].calc = t
            /\ w.head[x].stream = (IF type = "set_chunk_size" THEN 0 ELSE 1)
        BY <1>5, <4>1 DEF Assembly
      <4>3. x \in {4, 6} => type # "set_chunk_size"
        BY <1>1, <3>1
      <4> QED
        BY <1>5, <2>2, <2>4, <3>1, <4>2, <4>3 DEF Agrees
    <3>2. CASE x # cs
      <4>1. w.head[x] = r.head[x]
        BY <1>3, <1>11, <3>2
      <4> QED
        BY <1>3, <2>2, <2>3, <3>2, <4>1 DEF Agrees
    <3> QED
      BY <3>1, <3>2
  <2> QED
    BY <1>8, <1>13, <2>1, <2>5 DEF Synced
<1> QED
  BY <1>3, <1>1, <1>5, <1>6, <1>c, <1>14, <1>15 DEF Agrees

\* The look ahead, longer by the chunks of the message.
LEMMA SendKeeps ==
  ASSUME SenderOK, NEW run, LooksAhead(run),
         NEW cs, NEW type, NEW stream, NEW timestamp, NEW delta, NEW length, NEW force_fmt0,
         Prepared(cs, type, stream, timestamp, delta, length, force_fmt0),
         SendData(cs, type, stream, timestamp, delta, length, force_fmt0),
         out_chunk_size_' = IF type = "set_chunk_size" THEN kOutChunk ELSE out_chunk_size_,
         UNCHANGED receiver
  PROVE  /\ \E next : LooksAhead(next)'
         /\ sent' \in Seq(SentType) /\ Len(sent') <= MaxMessages
         /\ wire' \in Seq(ChunkType)
         /\ csid_pre_info_' \in [CsIds -> PreInfo]
         /\ out_chunk_size_' \in {kDefaultChunk, kOutChunk}
<1>a. PICK W : W = Len(wire)
  OBVIOUS
<1>b. PICK N : N = ChunkCount(length)
  OBVIOUS
<1>c. PICK n : n = Len(sent) + 1
  OBVIOUS
<1>d. PICK r : r = run[W]
  OBVIOUS
<1>e. PICK cks : cks = ChunksOf(cs, type, stream, delta, length, force_fmt0)
  OBVIOUS
<1>f. PICK h : h = ReadHeader(r.head[cs], cks[1])
  OBVIOUS
<1>g. PICK w : w = Whole(r, cs, h, Content(n, length))
  OBVIOUS
<1>h. PICK taken : taken = [i \in 0..N |-> TakenOf(r, cs, h, n, length, i)]
  OBVIOUS
<1>i. PICK next : next = [i \in 0..(W + N) |-> IF i <= W THEN run[i] ELSE taken[i - W]]
  OBVIOUS
<1>1. /\ cs \in CsIds /\ type \in Types /\ length \in Nat \ {0} /\ timestamp \in Stamps
      /\ delta \in Stamps
  BY DEF Prepared
<1>2. /\ W \in Nat /\ N \in Nat \ {0} /\ n \in Nat
      /\ wire \in Seq(ChunkType) /\ cks \in Seq(ChunkType) /\ Len(cks) = N
      /\ Chunked(cks, cs, n, length)
  BY <1>a, <1>b, <1>c, <1>e, ChunksAre, LenProperties DEF SenderOK
<1>3. /\ wire' \in Seq(ChunkType) /\ Len(wire') = W + N
      /\ \A i \in 1..W : wire'[i] = wire[i]
      /\ \A i \in 1..N : wire'[W + i] = cks[i]
  <2>1. wire' = wire \o cks
    BY <1>e, SendDataIs
  <2>2. /\ wire \o cks \in Seq(ChunkType) /\ Len(wire \o cks) = W + N
        /\ \A i \in 1..(W + N) : (wire \o cks)[i] = (IF i <= W THEN wire[i] ELSE cks[i - W])
    BY <1>2, <1>a, ConcatProperties
  <2>3. ASSUME NEW i \in 1..N PROVE (wire \o cks)[W + i] = cks[i]
    <3>1. W + i \in 1..(W + N) /\ ~(W + i <= W) /\ (W + i) - W = i
      BY <1>2
    <3> QED
      BY <2>2, <3>1
  <2>4. ASSUME NEW i \in 1..W PROVE (wire \o cks)[i] = wire[i]
    BY <1>2, <2>2
  <2> QED
    BY <2>1, <2>2, <2>3, <2>4
<1>4. /\ DOMAIN run = 0..W /\ run[0] = Receiver /\ \A i \in 0..W : Good(run[i])
      /\ \A i \in 1..W : Exactly(run[i - 1], wire[i]) /\ run[i] = After(run[i - 1], wire[i])
      /\ Good(r) /\ Synced(r)
  BY <1>2, <1>a, <1>d DEF LooksAhead
<1>5. /\ h.length = length /\ r.head[cs].msg = << >> /\ Good(w)' /\ Synced(w)'
      /\ SentAs(cs, type, timestamp, delta, length) \in SentType
  BY <1>4, <1>c, <1>e, <1>f, <1>g, WholeIsGood
<1>6. \A i \in 1..N : /\ Exactly(taken[i - 1], cks[i]) /\ taken[i] = After(taken[i - 1], cks[i])
                      /\ taken[i - 1] \in ReceiverType /\ taken[i - 1].got = r.got
  <2> SUFFICES ASSUME NEW i \in 1..N
               PROVE  /\ Exactly(taken[i - 1], cks[i]) /\ taken[i] = After(taken[i - 1], cks[i])
                      /\ taken[i - 1] \in ReceiverType /\ taken[i - 1].got = r.got
    OBVIOUS
  <2>1. /\ taken[i - 1] = TakenOf(r, cs, h, n, length, i - 1)
        /\ taken[i] = TakenOf(r, cs, h, n, length, i)
    BY <1>2, <1>h
  <2>2. r \in ReceiverType /\ r.size = out_chunk_size_ /\ i \in 1..ChunkCount(length)
    BY <1>4, <1>b DEF Good, Synced
  <2> QED
    BY <1>1, <1>2, <1>5, <1>f, <2>1, <2>2, TakesMessage
<1>7. taken[0] = r /\ taken[N] = w
  BY <1>2, <1>b, <1>g, <1>h DEF TakenOf
<1>8. /\ DOMAIN next = 0..(W + N)
      /\ \A i \in 0..W : next[i] = run[i]
      /\ \A i \in 0..N : next[W + i] = taken[i]
  <2>1. ASSUME NEW i \in 0..N PROVE next[W + i] = taken[i]
    <3>1. CASE i = 0
      BY <1>2, <1>7, <1>d, <1>i, <3>1
    <3>2. CASE i # 0
      <4>1. W + i \in 0..(W + N) /\ ~(W + i <= W) /\ (W + i) - W = i
        BY <1>2, <3>2
      <4> QED
        BY <1>i, <4>1
    <3> QED
      BY <3>1, <3>2
  <2> QED
    BY <1>2, <1>i, <2>1
<1>9. \A i \in 0..(W + N) : i \in 0..W \/ \E j \in 1..N : i = W + j
  <2>1. ASSUME NEW i \in 0..(W + N), i \notin 0..W PROVE i - W \in 1..N /\ i = W + (i - W)
    BY <1>2, <2>1
  <2> QED
    BY <2>1
<1>10. sent \in Seq(SentType) /\ sent' = Append(sent, SentAs(cs, type, timestamp, delta, length))
  BY SendDataIs DEF SenderOK
<1>11. ASSUME NEW i \in 0..(W + N) PROVE Good(next[i])'
  <2>1. PICK p : p = next[i]
    OBVIOUS
  <2>2. ASSUME Good(p) PROVE Good(p)'
    <3>1. PICK e : e = SentAs(cs, type, timestamp, delta, length)
      OBVIOUS
    <3> QED
      BY <1>5, <1>10, <2>2, <3>1, GoodLater
  <2>3. CASE i \in 0..W
    BY <1>4, <1>8, <2>1, <2>2, <2>3
  <2>4. ASSUME NEW j \in 1..N, i = W + j PROVE Good(p)'
    <3>1. CASE j = N
      BY <1>5, <1>7, <1>8, <2>1, <2>4, <3>1
    <3>2. CASE j # N
      <4>1. j + 1 \in 1..N /\ (j + 1) - 1 = j /\ j \in 0..N
        BY <1>2, <3>2
      <4>2. p = taken[j] /\ p \in ReceiverType /\ p.got = r.got
        BY <1>6, <1>8, <2>1, <2>4, <4>1
      <4>3. Good(p)
        BY <1>4, <4>2 DEF Good
      <4> QED
        BY <2>2, <4>3
    <3> QED
      BY <3>1, <3>2
  <2> QED
    BY <1>9, <2>1, <2>3, <2>4
<1>12. ASSUME NEW i \in 1..(W + N)
       PROVE  Exactly(next[i - 1], wire'[i]) /\ next[i] = After(next[i - 1], wire'[i])
  <2>1. CASE i \in 0..W
    <3>1. i \in 1..W /\ i - 1 \in 0..W
      BY <1>2, <2>1
    <3> QED
      BY <1>3, <1>4, <1>8, <2>1, <3>1
  <2>2. ASSUME NEW j \in 1..N, i = W + j
        PROVE  Exactly(next[i - 1], wire'[i]) /\ next[i] = After(next[i - 1], wire'[i])
    <3>1. i - 1 = W + (j - 1) /\ j - 1 \in 0..N /\ j \in 0..N
      BY <1>2, <2>2
    <3>2. next[i - 1] = taken[j - 1] /\ next[i] = taken[j] /\ wire'[i] = cks[j]
      BY <1>3, <1>8, <2>2, <3>1
    <3> QED
      BY <1>6, <3>2
  <2>3. i \in 0..(W + N)
    BY <1>2
  <2> QED
    BY <1>9, <2>1, <2>2, <2>3
<1>13. next[0] = Receiver'
  <2>1. Receiver' = Receiver
    BY DEF receiver, Receiver
  <2> QED
    BY <1>2, <1>4, <1>8, <2>1
<1>14. LooksAhead(next)'
  <2>1. Synced(next[W + N])'
    BY <1>2, <1>5, <1>7, <1>8
  <2> QED
    BY <1>3, <1>8, <1>11, <1>12, <1>13, <2>1 DEF LooksAhead
<1>15. sent' \in Seq(SentType) /\ Len(sent') <= MaxMessages
  BY <1>5, <1>10, SendDataIs, AppendProperties
<1>16. csid_pre_info_' \in [CsIds -> PreInfo]
  <2>1. [timestamp |-> timestamp, delta |-> delta, length |-> length, type |-> type] \in PreInfo
    BY <1>1 DEF PreInfo
  <2>2. csid_pre_info_' = [csid_pre_info_ EXCEPT
          ![cs] = [timestamp |-> timestamp, delta |-> delta, length |-> length, type |-> type]]
    BY SendDataIs
  <2> QED
    BY <2>1, <2>2 DEF SenderOK
<1> QED
  BY <1>3, <1>14, <1>15, <1>16 DEF SenderOK

-----------------------------------------------------------------------------
(* The server sends as it should.                                          *)

LEMMA HeadersPrepared ==
  ASSUME SenderOK, PhaseInv, phase # "media",
         NEW cs \in CsIds, NEW type \in Types, NEW stream, NEW length \in Nat \ {0},
         type = "set_chunk_size" => cs = 2,
         stream = (IF type = "set_chunk_size" THEN 0 ELSE 1),
         type \in {"audio", "video"} => cs \in {4, 6}
  PROVE  Prepared(cs, type, stream, 0, 0, length, type \notin {"audio", "video"})
<1>1. 0 \in Stamps /\ stream \in Nat
  BY WireIsNarrow DEF Stamps
<1>2. /\ csid_pre_info_[cs].timestamp = 0 /\ csid_pre_info_[cs].delta = 0
      /\ csid_pre_info_[cs].length \in Nat
  BY DEF PhaseInv, SenderOK, PreInfo
<1>3. ASSUME Fmt(csid_pre_info_[cs], length, type, 0, type \notin {"audio", "video"}) # 0
      PROVE  csid_pre_info_[cs].length > 0 /\ type \in {"audio", "video"}
  BY <1>2, <1>3 DEF Fmt
<1>4. 0 % TsMod = (csid_pre_info_[cs].timestamp + 0) % TsMod
  <2>1. csid_pre_info_[cs].timestamp + 0 = 0
    BY <1>2
  <2> QED
    BY <2>1
<1> QED
  BY <1>1, <1>2, <1>3, <1>4 DEF Prepared

LEMMA MediaPrepared ==
  ASSUME SenderOK, PhaseInv, phase = "media",
         NEW type \in {"audio", "video"}, NEW dts \in Stamps, NEW length \in Nat \ {0},
         NEW cs, cs = IF type = "audio" THEN 4 ELSE 6
  PROVE  Prepared(cs, type, 0, dts, Delta(cs, dts), length, FALSE)
<1> DEFINE pre == csid_pre_info_[cs]
           delta == Delta(cs, dts)
<1>1. cs \in CsIds /\ cs \in {4, 6} /\ type \in Types /\ type # "set_chunk_size"
  BY DEF CsIds, Types
<1>2. /\ pre.timestamp \in Int /\ dts \in Int /\ pre.length \in Nat /\ pre.length > 0
      /\ dts - pre.timestamp \in Int
  BY <1>1 DEF SenderOK, PhaseInv, PreInfo, Stamps
<1>3. TsWide \in Nat \ {0} /\ TsMod \in Nat \ {0}
  BY WireIsNarrow
<1>4. delta \in Stamps /\ delta \in Int
  <2>1. (dts - pre.timestamp) % TsWide \in 0..(TsWide - 1)
    BY <1>2, <1>3, Division
  <2> QED
    BY <2>1 DEF Delta, Stamps
<1>5. Fmt(pre, length, type, delta, FALSE) # 0
  BY <1>2 DEF Fmt
<1>6. dts % TsMod = (pre.timestamp + delta) % TsMod
  <2>1. PICK gap : gap = dts - pre.timestamp
    OBVIOUS
  <2>2. gap \in Int /\ pre.timestamp + gap = dts /\ delta = gap % TsWide
    BY <1>2, <2>1 DEF Delta
  <2>3. (pre.timestamp + (delta % TsMod)) % TsMod = (pre.timestamp + delta) % TsMod
    BY <1>2, <1>4, SumOfRests, Zenon
  <2>4. (pre.timestamp + (gap % TsMod)) % TsMod = (pre.timestamp + gap) % TsMod
    BY <1>2, <2>2, SumOfRests, Zenon
  <2>5. delta % TsMod = gap % TsMod
    BY <2>2, RestOfRest
  <2> HIDE DEF pre, delta
  <2> QED
    BY <2>2, <2>3, <2>4, <2>5, Zenon
<1> QED
  BY <1>1, <1>2, <1>4, <1>5, <1>6 DEF Prepared

\* Every action that sends is a SendData its caller has prepared.
Sends(cs, type, stream, timestamp, delta, length, force_fmt0) ==
  /\ Prepared(cs, type, stream, timestamp, delta, length, force_fmt0)
  /\ SendData(cs, type, stream, timestamp, delta, length, force_fmt0)
  /\ out_chunk_size_' = IF type = "set_chunk_size" THEN kOutChunk ELSE out_chunk_size_
  /\ UNCHANGED receiver

LEMMA SendsKeeps ==
  ASSUME IInv, NEW cs, NEW type, NEW stream, NEW timestamp, NEW delta, NEW length,
         NEW force_fmt0, Sends(cs, type, stream, timestamp, delta, length, force_fmt0),
         PhaseInv', phase' \in {"connect", "play", "headers", "video_header", "media"}
  PROVE  IInv'
<1>1. SenderOK
  BY DEF IInv
<1>2. PICK run : LooksAhead(run)
  BY DEF IInv
<1>3. /\ \E next : LooksAhead(next)'
      /\ sent' \in Seq(SentType) /\ Len(sent') <= MaxMessages
      /\ wire' \in Seq(ChunkType)
      /\ csid_pre_info_' \in [CsIds -> PreInfo]
      /\ out_chunk_size_' \in {kDefaultChunk, kOutChunk}
  BY <1>1, <1>2, SendKeeps DEF Sends
<1>4. SenderOK'
  BY <1>3 DEF SenderOK
<1> QED
  BY <1>3, <1>4 DEF IInv

\* What a message leaves behind for the header of the next.
LEMMA LeavesBehind ==
  ASSUME SenderOK, NEW cs \in CsIds, NEW type, NEW stream, NEW timestamp, NEW delta, NEW length,
         NEW force_fmt0, SendData(cs, type, stream, timestamp, delta, length, force_fmt0)
  PROVE  /\ csid_pre_info_'[cs] = [timestamp |-> timestamp, delta |-> delta, length |-> length,
                                   type |-> type]
         /\ \A x \in CsIds \ {cs} : csid_pre_info_'[x] = csid_pre_info_[x]
BY SendDataIs DEF SenderOK

LEMMA PhaseKept ==
  ASSUME SenderOK, PhaseInv,
         NEW cs \in CsIds, NEW type, NEW stream, NEW timestamp, NEW delta, NEW length \in Nat \ {0},
         NEW force_fmt0, SendData(cs, type, stream, timestamp, delta, length, force_fmt0),
         phase' # "connect",
         phase' # "media" => phase # "media" /\ timestamp = 0 /\ delta = 0,
         phase' \in {"video_header", "media"} => cs = 4 \/ phase \in {"video_header", "media"},
         phase' = "media" => cs = 6 \/ phase = "media"
  PROVE  PhaseInv'
<1>1. /\ csid_pre_info_'[cs].timestamp = timestamp /\ csid_pre_info_'[cs].delta = delta
      /\ csid_pre_info_'[cs].length = length /\ length > 0
      /\ \A x \in CsIds \ {cs} : csid_pre_info_'[x] = csid_pre_info_[x]
  <2>1. /\ csid_pre_info_'[cs] = [timestamp |-> timestamp, delta |-> delta, length |-> length,
                                  type |-> type]
        /\ \A x \in CsIds \ {cs} : csid_pre_info_'[x] = csid_pre_info_[x]
    BY LeavesBehind
  <2> QED
    BY <2>1
<1>2. 4 \in CsIds /\ 6 \in CsIds
  BY DEF CsIds
<1>3. phase' # "media" => \A x \in CsIds : csid_pre_info_'[x].timestamp = 0 /\ csid_pre_info_'[x].delta = 0
  BY <1>1 DEF PhaseInv
<1>4. phase' \in {"video_header", "media"} => csid_pre_info_'[4].length > 0
  BY <1>1, <1>2 DEF PhaseInv
<1>5. phase' = "media" => csid_pre_info_'[6].length > 0
  BY <1>1, <1>2 DEF PhaseInv
<1> QED
  BY <1>3, <1>4, <1>5 DEF PhaseInv

\* An action of the sender is such a SendData.
SendsSomething ==
  /\ PhaseInv' /\ phase' \in {"connect", "play", "headers", "video_header", "media"}
  /\ \E cs, type, stream, timestamp, delta, length, force_fmt0 :
       Sends(cs, type, stream, timestamp, delta, length, force_fmt0)

LEMMA SenderSends ==
  ASSUME IInv,
         \/ SetOutChunkSize
         \/ \E c \in CsIds, l \in Lengths : AnswerPlay(c, l)
         \/ \E l \in Lengths : SendMetaData(l) \/ SendAudioHeader(l) \/ SendVideoHeader(l)
         \/ \E t \in {"audio", "video"}, dts \in Stamps, l \in Lengths : SendMediaData(t, dts, l)
  PROVE  SendsSomething
<1>1. SenderOK /\ PhaseInv
  BY DEF IInv
<1>2. \A l \in Lengths : l \in Nat \ {0} /\ l > 0
  BY LengthAssumption
<1>3. 2 \in CsIds /\ 4 \in CsIds /\ 6 \in CsIds
  BY DEF CsIds
<1>4. Types = {"set_chunk_size", "command", "metadata", "audio", "video"}
  BY DEF Types
<1>5. CASE SetOutChunkSize
  <2>1. SendData(2, "set_chunk_size", 0, 0, 0, 1, TRUE)
    BY <1>5 DEF SetOutChunkSize, SendRtmpMessage
  <2>2. phase = "connect" /\ phase' = "play" /\ out_chunk_size_' = kOutChunk /\ UNCHANGED receiver
    BY <1>5 DEF SetOutChunkSize
  <2>3. Prepared(2, "set_chunk_size", 0, 0, 0, 1, TRUE)
    <3>1. Prepared(2, "set_chunk_size", 0, 0, 0, 1, "set_chunk_size" \notin {"audio", "video"})
      BY <1>1, <1>3, <1>4, <2>2, HeadersPrepared
    <3>2. ("set_chunk_size" \notin {"audio", "video"}) = TRUE
      OBVIOUS
    <3> QED
      BY <3>1, <3>2
  <2>4. PhaseInv'
    <3>1. 1 \in Nat \ {0} /\ phase' \notin {"connect", "video_header", "media"} /\ phase # "media"
      BY <2>2
    <3> QED
      BY <1>1, <1>3, <2>1, <3>1, PhaseKept
  <2>5. Sends(2, "set_chunk_size", 0, 0, 0, 1, TRUE)
    BY <2>1, <2>2, <2>3 DEF Sends
  <2>6. phase' \in {"connect", "play", "headers", "video_header", "media"}
    BY <2>2
  <2> QED
    BY <2>4, <2>5, <2>6 DEF SendsSomething
<1>6. ASSUME NEW c \in CsIds, NEW l \in Lengths, AnswerPlay(c, l) PROVE SendsSomething
  <2>1. SendData(c, "command", 1, 0, 0, l, TRUE)
    BY <1>6 DEF AnswerPlay, SendRtmpMessage
  <2>2. /\ phase = "play" /\ phase' = "headers" /\ UNCHANGED receiver
        /\ out_chunk_size_' = out_chunk_size_
    BY <1>6 DEF AnswerPlay
  <2>3. Prepared(c, "command", 1, 0, 0, l, TRUE)
    <3>1. Prepared(c, "command", 1, 0, 0, l, "command" \notin {"audio", "video"})
      BY <1>1, <1>2, <1>4, <2>2, HeadersPrepared
    <3>2. ("command" \notin {"audio", "video"}) = TRUE
      OBVIOUS
    <3> QED
      BY <3>1, <3>2
  <2>4. PhaseInv'
    BY <1>1, <1>2, <2>1, <2>2, PhaseKept
  <2>5. Sends(c, "command", 1, 0, 0, l, TRUE)
    BY <2>1, <2>2, <2>3 DEF Sends
  <2>6. phase' \in {"connect", "play", "headers", "video_header", "media"}
    BY <2>2
  <2> QED
    BY <2>4, <2>5, <2>6 DEF SendsSomething
<1>7. ASSUME NEW l \in Lengths, SendMetaData(l) PROVE SendsSomething
  <2>1. SendData(4, "metadata", 1, 0, 0, l, TRUE)
    BY <1>7 DEF SendMetaData, SendRtmpMessage
  <2>2. phase = "headers" /\ phase' = phase /\ UNCHANGED receiver /\ out_chunk_size_' = out_chunk_size_
    BY <1>7 DEF SendMetaData
  <2>3. Prepared(4, "metadata", 1, 0, 0, l, TRUE)
    <3>1. Prepared(4, "metadata", 1, 0, 0, l, "metadata" \notin {"audio", "video"})
      BY <1>1, <1>2, <1>3, <1>4, <2>2, HeadersPrepared
    <3>2. ("metadata" \notin {"audio", "video"}) = TRUE
      OBVIOUS
    <3> QED
      BY <3>1, <3>2
  <2>4. PhaseInv'
    BY <1>1, <1>2, <1>3, <2>1, <2>2, PhaseKept
  <2>5. Sends(4, "metadata", 1, 0, 0, l, TRUE)
    BY <2>1, <2>2, <2>3 DEF Sends
  <2>6. phase' \in {"connect", "play", "headers", "video_header", "media"}
    BY <2>2
  <2> QED
    BY <2>4, <2>5, <2>6 DEF SendsSomething
<1>8. ASSUME NEW l \in Lengths, SendAudioHeader(l) PROVE SendsSomething
  <2>1. SendData(4, "audio", 1, 0, 0, l, FALSE)
    BY <1>8 DEF SendAudioHeader, SendRtmpMessage
  <2>2. /\ phase = "headers" /\ phase' = "video_header" /\ UNCHANGED receiver
        /\ out_chunk_size_' = out_chunk_size_
    BY <1>8 DEF SendAudioHeader
  <2>3. Prepared(4, "audio", 1, 0, 0, l, FALSE)
    <3>1. Prepared(4, "audio", 1, 0, 0, l, "audio" \notin {"audio", "video"})
      BY <1>1, <1>2, <1>3, <1>4, <2>2, HeadersPrepared
    <3>2. ("audio" \notin {"audio", "video"}) = FALSE
      OBVIOUS
    <3> QED
      BY <3>1, <3>2
  <2>4. PhaseInv'
    BY <1>1, <1>2, <1>3, <2>1, <2>2, PhaseKept
  <2>5. Sends(4, "audio", 1, 0, 0, l, FALSE)
    BY <2>1, <2>2, <2>3 DEF Sends
  <2>6. phase' \in {"connect", "play", "headers", "video_header", "media"}
    BY <2>2
  <2> QED
    BY <2>4, <2>5, <2>6 DEF SendsSomething
<1>9. ASSUME NEW l \in Lengths, SendVideoHeader(l) PROVE SendsSomething
  <2>1. SendData(6, "video", 1, 0, 0, l, FALSE)
    BY <1>9 DEF SendVideoHeader, SendRtmpMessage
  <2>2. /\ phase = "video_header" /\ phase' = "media" /\ UNCHANGED receiver
        /\ out_chunk_size_' = out_chunk_size_
    BY <1>9 DEF SendVideoHeader
  <2>3. Prepared(6, "video", 1, 0, 0, l, FALSE)
    <3>1. Prepared(6, "video", 1, 0, 0, l, "video" \notin {"audio", "video"})
      BY <1>1, <1>2, <1>3, <1>4, <2>2, HeadersPrepared
    <3>2. ("video" \notin {"audio", "video"}) = FALSE
      OBVIOUS
    <3> QED
      BY <3>1, <3>2
  <2>4. PhaseInv'
    BY <1>1, <1>2, <1>3, <2>1, <2>2, PhaseKept
  <2>5. Sends(6, "video", 1, 0, 0, l, FALSE)
    BY <2>1, <2>2, <2>3 DEF Sends
  <2>6. phase' \in {"connect", "play", "headers", "video_header", "media"}
    BY <2>2
  <2> QED
    BY <2>4, <2>5, <2>6 DEF SendsSomething
<1>10. ASSUME NEW t \in {"audio", "video"}, NEW dts \in Stamps, NEW l \in Lengths,
              SendMediaData(t, dts, l)
       PROVE  SendsSomething
  <2>1. PICK cs : cs = IF t = "audio" THEN 4 ELSE 6
    OBVIOUS
  <2>2. /\ phase = "media" /\ phase' = phase /\ UNCHANGED receiver
        /\ out_chunk_size_' = out_chunk_size_
        /\ SendData(cs, t, 0, dts, Delta(cs, dts), l, FALSE)
    BY <1>10, <2>1 DEF SendMediaData
  <2>3. PICK delta : delta = Delta(cs, dts)
    OBVIOUS
  <2>4. Prepared(cs, t, 0, dts, delta, l, FALSE) /\ SendData(cs, t, 0, dts, delta, l, FALSE)
    BY <1>1, <1>2, <2>1, <2>2, <2>3, MediaPrepared
  <2>5. cs \in {4, 6} /\ cs \in CsIds /\ t # "set_chunk_size"
    BY <1>3, <2>1
  <2>6. PhaseInv'
    BY <1>1, <1>2, <1>3, <2>2, <2>4, <2>5, PhaseKept
  <2>7. Sends(cs, t, 0, dts, delta, l, FALSE)
    BY <2>2, <2>4, <2>5 DEF Sends
  <2>8. phase' \in {"connect", "play", "headers", "video_header", "media"}
    BY <2>2
  <2> QED
    BY <2>6, <2>7, <2>8 DEF SendsSomething
<1> QED
  BY <1>5, <1>6, <1>7, <1>8, <1>9, <1>10

LEMMA SenderKeeps ==
  ASSUME IInv, SendsSomething
  PROVE  IInv'
BY SendsKeeps DEF SendsSomething

-----------------------------------------------------------------------------
(* The receiver takes what is under way.                                   *)

\* A header read before the payload was there changes nothing of what follows.
LEMMA TakesAgain ==
  ASSUME NEW r \in ReceiverType, NEW c \in ChunkType,
         NEW q, q = [head |-> [r.head EXCEPT ![c.cs_id] = HeaderAt(r, c)], size |-> r.size,
                     got |-> r.got]
  PROVE  /\ q \in ReceiverType /\ q.got = r.got
         /\ Exactly(q, c) <=> Exactly(r, c)
         /\ After(q, c) = After(r, c)
<1>1. c.cs_id \in CsIds
  BY DEF ChunkType
<1>2. r.head \in [CsIds -> Assembly] /\ r.head[c.cs_id] \in Assembly
  BY <1>1 DEF ReceiverType
<1>3. HeaderAt(r, c) \in Assembly
  BY <1>2, ReadHeaderType DEF HeaderAt
<1>4. /\ q.head = [r.head EXCEPT ![c.cs_id] = HeaderAt(r, c)]
      /\ q.size = r.size /\ q.got = r.got
  OBVIOUS
<1>5. HeaderAt(q, c) = HeaderAt(r, c)
  <2>1. q.head[c.cs_id] = HeaderAt(r, c)
    BY <1>1, <1>2, <1>4
  <2> QED
    BY <1>2, <2>1, ReadAgain DEF HeaderAt
<1>6. \A e : [q.head EXCEPT ![c.cs_id] = e] = [r.head EXCEPT ![c.cs_id] = e]
  BY <1>1, <1>2, <1>4
<1>7. q \in ReceiverType
  <2>1. q.head \in [CsIds -> Assembly]
    BY <1>2, <1>3, <1>4
  <2> QED
    BY <2>1 DEF ReceiverType
<1>8. More(q, c) = More(r, c)
  BY <1>5 DEF More
<1>9. Done(q, c) = Done(r, c)
  BY <1>5, <1>8 DEF Done
<1>10. Message(q, c) = Message(r, c)
  BY <1>5, <1>8, <1>9 DEF Message
<1>11. After(q, c) = After(r, c)
  BY <1>4, <1>5, <1>6, <1>8, <1>9, <1>10 DEF After
<1> QED
  BY <1>4, <1>5, <1>7, <1>11 DEF Exactly

\* What Good says depends on sent alone.
LEMMA GoodStays ==
  ASSUME NEW r, Good(r), UNCHANGED sent
  PROVE  Good(r)'
BY DEF Good, Faithful

LEMMA SyncedStays ==
  ASSUME NEW r, Synced(r), UNCHANGED sender
  PROVE  Synced(r)'
BY DEF Synced, Agrees, AllExact, sender

LEMMA HeaderKeeps ==
  ASSUME IInv, ParseHeaderOnly
  PROVE  IInv'
<1>1. SenderOK /\ PhaseInv /\ wire \in Seq(ChunkType)
  BY DEF IInv, SenderOK
<1>2. PICK run : LooksAhead(run)
  BY DEF IInv
<1>3. PICK W : W = Len(wire)
  OBVIOUS
<1>4. PICK c : c = wire[1]
  OBVIOUS
<1>5. PICK r : r = Receiver
  OBVIOUS
<1>6. PICK q : q = [head |-> [r.head EXCEPT ![c.cs_id] = HeaderAt(r, c)], size |-> r.size,
                    got |-> r.got]
  OBVIOUS
<1>7. PICK next : next = [run EXCEPT ![0] = q]
  OBVIOUS
<1>8. UNCHANGED <<sender, wire>> /\ wire # << >>
  BY DEF ParseHeaderOnly
<1>9. Receiver' = q
  BY <1>4, <1>5, <1>6 DEF ParseHeaderOnly, Receiver, HeaderAt
<1>10. W \in Nat \ {0} /\ c \in ChunkType
  BY <1>1, <1>3, <1>4, <1>8
<1>11. /\ DOMAIN run = 0..W /\ run[0] = r /\ \A i \in 0..W : Good(run[i])
       /\ \A i \in 1..W : Exactly(run[i - 1], wire[i]) /\ run[i] = After(run[i - 1], wire[i])
       /\ Synced(run[W])
  BY <1>2, <1>3, <1>5 DEF LooksAhead
<1>12. Good(r) /\ r \in ReceiverType
  BY <1>10, <1>11 DEF Good
<1>13. /\ q \in ReceiverType /\ q.got = r.got
       /\ Exactly(q, c) <=> Exactly(r, c)
       /\ After(q, c) = After(r, c)
  BY <1>6, <1>10, <1>12, TakesAgain
<1>14. Good(q)
  BY <1>12, <1>13 DEF Good
<1>15. DOMAIN next = 0..W /\ next[0] = q /\ \A i \in 1..W : next[i] = run[i]
  BY <1>7, <1>10, <1>11
<1>16. ASSUME NEW i \in 0..W PROVE Good(next[i])'
  <2>1. PICK p : p = next[i]
    OBVIOUS
  <2>2. Good(p)
    BY <1>10, <1>11, <1>14, <1>15, <2>1
  <2>3. Good(p)'
    BY <1>8, <2>2, GoodStays DEF sender
  <2> QED
    BY <2>1, <2>3
<1>17. ASSUME NEW i \in 1..W
       PROVE  Exactly(next[i - 1], wire[i]) /\ next[i] = After(next[i - 1], wire[i])
  <2>1. CASE i = 1
    BY <1>4, <1>11, <1>13, <1>15, <2>1
  <2>2. CASE i # 1
    <3>1. i - 1 \in 1..W
      BY <1>10, <2>2
    <3> QED
      BY <1>11, <1>15, <3>1
  <2> QED
    BY <2>1, <2>2
<1>18. Synced(next[W])'
  <2>1. PICK p : p = next[W]
    OBVIOUS
  <2>2. Synced(p)
    BY <1>10, <1>11, <1>15, <2>1
  <2>3. Synced(p)'
    BY <1>8, <2>2, SyncedStays
  <2> QED
    BY <2>1, <2>3
<1>19. LooksAhead(next)'
  BY <1>3, <1>8, <1>9, <1>15, <1>16, <1>17, <1>18 DEF LooksAhead
<1>20. SenderOK' /\ PhaseInv'
  BY <1>1, <1>8 DEF SenderOK, PhaseInv, sender
<1> QED
  BY <1>19, <1>20 DEF IInv

\* Reading a chunk is what the look ahead says it is.
LEMMA ParseIsAfter ==
  ASSUME ParseChunk
  PROVE  Receiver' = After(Receiver, wire[1])
<1>1. PICK r : r = Receiver
  OBVIOUS
<1>2. PICK c : c = wire[1]
  OBVIOUS
<1>3. r.head = csid_head_ /\ r.size = in_chunk_size_ /\ r.got = delivered
  BY <1>1 DEF Receiver
<1>4. HeaderAt(r, c) = ReadHeader(csid_head_[wire[1].cs_id], wire[1])
  BY <1>2, <1>3 DEF HeaderAt
<1>5. CASE Len(More(r, c).msg) = HeaderAt(r, c).length
  <2>1. /\ delivered' = Append(delivered, Message(r, c))
        /\ csid_head_' = [csid_head_ EXCEPT ![c.cs_id] = KeepHeader(Done(r, c))]
        /\ in_chunk_size_' = IF HeaderAt(r, c).type = "set_chunk_size" THEN kOutChunk
                             ELSE in_chunk_size_
    BY <1>2, <1>4, <1>5 DEF ParseChunk, More, Done, Message, OnSetChunkSize
  <2> QED
    BY <1>1, <1>2, <1>3, <1>5, <2>1 DEF Receiver, After
<1>6. CASE Len(More(r, c).msg) # HeaderAt(r, c).length
  <2>1. /\ UNCHANGED <<delivered, in_chunk_size_>>
        /\ csid_head_' = [csid_head_ EXCEPT ![c.cs_id] = More(r, c)]
    BY <1>2, <1>4, <1>6 DEF ParseChunk, More
  <2> QED
    BY <1>1, <1>2, <1>3, <1>6, <2>1 DEF Receiver, After
<1> QED
  BY <1>5, <1>6

LEMMA ChunkKeeps ==
  ASSUME IInv, ParseChunk
  PROVE  IInv'
<1>1. SenderOK /\ PhaseInv /\ wire \in Seq(ChunkType)
  BY DEF IInv, SenderOK
<1>2. PICK run : LooksAhead(run)
  BY DEF IInv
<1>3. PICK W : W = Len(wire)
  OBVIOUS
<1>4. PICK next : next = [i \in 0..(W - 1) |-> run[i + 1]]
  OBVIOUS
<1>5. UNCHANGED sender /\ wire # << >> /\ wire' = Tail(wire)
  BY DEF ParseChunk
<1>6. /\ W \in Nat \ {0} /\ wire' \in Seq(ChunkType) /\ Len(wire') = W - 1
      /\ \A i \in 1..(W - 1) : wire'[i] = wire[i + 1]
  BY <1>1, <1>3, <1>5, HeadTailProperties
<1>7. /\ DOMAIN run = 0..W /\ run[0] = Receiver /\ \A i \in 0..W : Good(run[i])
      /\ \A i \in 1..W : Exactly(run[i - 1], wire[i]) /\ run[i] = After(run[i - 1], wire[i])
      /\ Synced(run[W])
  BY <1>2, <1>3 DEF LooksAhead
<1>8. Receiver' = run[1]
  <2>1. run[1] = After(Receiver, wire[1])
    BY <1>6, <1>7
  <2>2. Receiver' = After(Receiver, wire[1])
    BY ParseIsAfter
  <2> QED
    BY <2>1, <2>2
<1>9. DOMAIN next = 0..(W - 1) /\ \A i \in 0..(W - 1) : next[i] = run[i + 1]
  BY <1>4
<1>10. ASSUME NEW i \in 0..(W - 1) PROVE Good(next[i])'
  <2>1. PICK p : p = next[i]
    OBVIOUS
  <2>2. i + 1 \in 0..W
    BY <1>6
  <2>3. Good(p)
    BY <1>7, <1>9, <2>1, <2>2
  <2>4. Good(p)'
    BY <1>5, <2>3, GoodStays DEF sender
  <2> QED
    BY <2>1, <2>4
<1>11. ASSUME NEW i \in 1..(W - 1)
       PROVE  Exactly(next[i - 1], wire'[i]) /\ next[i] = After(next[i - 1], wire'[i])
  <2>1. i - 1 \in 0..(W - 1) /\ i \in 0..(W - 1) /\ (i - 1) + 1 = i /\ (i + 1) - 1 = i /\ i + 1 \in 1..W
    BY <1>6
  <2>2. next[i - 1] = run[i] /\ next[i] = run[i + 1] /\ wire'[i] = wire[i + 1]
    BY <1>6, <1>9, <2>1
  <2>3. Exactly(run[(i + 1) - 1], wire[i + 1]) /\ run[i + 1] = After(run[(i + 1) - 1], wire[i + 1])
    BY <1>7, <2>1
  <2> QED
    BY <2>1, <2>2, <2>3
<1>12. Synced(next[W - 1])'
  <2>1. PICK p : p = next[W - 1]
    OBVIOUS
  <2>2. W - 1 \in 0..(W - 1) /\ (W - 1) + 1 = W
    BY <1>6
  <2>3. Synced(p)
    BY <1>7, <1>9, <2>1, <2>2
  <2>4. Synced(p)'
    BY <1>5, <2>3, SyncedStays
  <2> QED
    BY <2>1, <2>4
<1>13. next[0] = Receiver'
  <2>1. 0 \in 0..(W - 1) /\ 0 + 1 = 1
    BY <1>6
  <2> QED
    BY <1>8, <1>9, <2>1
<1>14. LooksAhead(next)'
  BY <1>6, <1>9, <1>10, <1>11, <1>12, <1>13 DEF LooksAhead
<1>15. SenderOK' /\ PhaseInv'
  BY <1>1, <1>5, <1>6 DEF SenderOK, PhaseInv, sender
<1> QED
  BY <1>14, <1>15 DEF IInv

-----------------------------------------------------------------------------
(* The theorems.                                                           *)

LEMMA InitLooksAhead ==
  ASSUME Init
  PROVE  IInv
<1>1. TsMod \in Nat \ {0} /\ TsWide \in Nat \ {0}
  BY WireIsNarrow
<1>2. 0 \in Stamps /\ 0 \in 0..(TsMod - 1) /\ "command" \in Types /\ 0 % TsMod = 0
  BY <1>1 DEF Stamps, Types
<1>3. << >> \in Seq(SentType) /\ << >> \in Seq(ChunkType) /\ << >> \in Seq(Nat \X Nat)
      /\ << >> \in Seq(DeliveredType) /\ Len(<< >>) = 0
  OBVIOUS
<1>4. SenderOK
  <2>1. csid_pre_info_ \in [CsIds -> PreInfo]
    BY <1>2 DEF Init, PreInfo
  <2> QED
    BY <1>3, <2>1, BoundAssumption DEF Init, SenderOK
<1>5. PhaseInv
  BY DEF Init, PhaseInv
<1>6. PICK r : r = Receiver
  OBVIOUS
<1>7. /\ r.head = [c \in CsIds |-> [calc |-> 0, delta |-> 0, length |-> 0, type |-> "command",
                                    stream |-> 0, msg |-> << >>]]
      /\ r.size = kDefaultChunk /\ r.got = << >>
  BY <1>6 DEF Init, Receiver
<1>8. r \in ReceiverType
  <2>1. [calc |-> 0, delta |-> 0, length |-> 0, type |-> "command", stream |-> 0, msg |-> << >>]
          \in Assembly
    BY <1>2, <1>3 DEF Assembly
  <2>2. r.head \in [CsIds -> Assembly]
    BY <1>7, <2>1
  <2> QED
    BY <1>3, <1>6, <1>7, <2>2 DEF Receiver, ReceiverType
<1>9. Good(r)
  BY <1>3, <1>7, <1>8 DEF Good, Init
<1>10. Synced(r)
  <2>1. ASSUME NEW c \in CsIds PROVE Agrees(r.head[c], c)
    BY <1>2, <1>7 DEF Agrees, Init
  <2> QED
    BY <1>3, <1>7, <2>1 DEF Synced, Init
<1>11. PICK run : run = [i \in 0..0 |-> r]
  OBVIOUS
<1>12. Len(wire) = 0
  BY DEF Init
<1>13. DOMAIN run = 0..0 /\ run[0] = r /\ \A i \in 0..0 : i = 0
  BY <1>11
<1>14. LooksAhead(run)
  BY <1>6, <1>9, <1>10, <1>12, <1>13 DEF LooksAhead
<1> QED
  BY <1>4, <1>5, <1>14 DEF IInv

LEMMA NextKeeps ==
  ASSUME IInv, [Next]_vars
  PROVE  IInv'
<1>1. CASE UNCHANGED vars
  <2>1. PICK run : LooksAhead(run)
    BY DEF IInv
  <2>2. UNCHANGED sender /\ UNCHANGED sent /\ UNCHANGED wire /\ Receiver' = Receiver
    BY <1>1 DEF vars, sender, receiver, Receiver
  <2>3. \A i \in 0..Len(wire) : Good(run[i])'
    <3> SUFFICES ASSUME NEW i \in 0..Len(wire) PROVE Good(run[i])'
      BY <2>2
    <3>1. Good(run[i])
      BY <2>1 DEF LooksAhead
    <3> QED
      BY <2>2, <3>1, GoodStays
  <2>4. PICK p : p = run[Len(wire)]
    OBVIOUS
  <2>5. Synced(p)'
    <3>1. Synced(p)
      BY <2>1, <2>4 DEF LooksAhead
    <3> QED
      BY <2>2, <3>1, SyncedStays
  <2>6. LooksAhead(run)'
    BY <2>1, <2>2, <2>3, <2>4, <2>5 DEF LooksAhead
  <2>7. SenderOK' /\ PhaseInv'
    BY <2>2 DEF IInv, SenderOK, PhaseInv, sender
  <2> QED
    BY <2>6, <2>7 DEF IInv
<1>2. CASE ParseHeaderOnly
  BY <1>2, HeaderKeeps
<1>3. CASE ParseChunk
  BY <1>3, ChunkKeeps
<1>4. CASE \/ SetOutChunkSize
           \/ \E c \in CsIds, l \in Lengths : AnswerPlay(c, l)
           \/ \E l \in Lengths : SendMetaData(l) \/ SendAudioHeader(l) \/ SendVideoHeader(l)
           \/ \E t \in {"audio", "video"}, dts \in Stamps, l \in Lengths : SendMediaData(t, dts, l)
  BY <1>4, SenderSends, SenderKeeps
<1> QED
  BY <1>1, <1>2, <1>3, <1>4 DEF Next

\* Whatever was sent and however much of it has been read, both ends agree on
\* what is under way: the invariant the others follow from.
THEOREM LookAhead == Spec => []IInv
<1>1. Init => IInv
  BY InitLooksAhead
<1>2. IInv /\ [Next]_vars => IInv'
  BY NextKeeps
<1> QED
  BY <1>1, <1>2, PTL DEF Spec

\* The part of it about the receiver as it is.
LEMMA ReceiverIsGood ==
  ASSUME IInv
  PROVE  /\ SenderOK /\ Receiver \in ReceiverType
         /\ csid_head_ \in [CsIds -> Assembly] /\ in_chunk_size_ \in {kDefaultChunk, kOutChunk}
         /\ Len(delivered) \in Nat /\ Len(delivered) <= Len(sent)
         /\ \A k \in 1..Len(delivered) : Faithful(delivered[k], k)
         /\ wire # << >> => Exactly(Receiver, wire[1])
         /\ wire # << >> => Good(After(Receiver, wire[1]))
<1>1. PICK run : LooksAhead(run)
  BY DEF IInv
<1>2. Len(wire) \in Nat /\ SenderOK /\ (wire # << >> => Len(wire) > 0)
  BY DEF IInv, SenderOK
<1>3. Good(Receiver)
  BY <1>1, <1>2 DEF LooksAhead
<1>4. /\ Receiver.head = csid_head_ /\ Receiver.size = in_chunk_size_ /\ Receiver.got = delivered
  BY DEF Receiver
<1>5. ASSUME wire # << >> PROVE Exactly(Receiver, wire[1]) /\ Good(After(Receiver, wire[1]))
  <2>1. 1 \in 1..Len(wire) /\ 1 - 1 = 0 /\ 1 \in 0..Len(wire) /\ 0 \in 0..Len(wire)
    BY <1>2, <1>5
  <2> QED
    BY <1>1, <2>1 DEF LooksAhead
<1>6. Receiver \in ReceiverType /\ Len(delivered) \in Nat
  BY <1>3, <1>4, LenProperties DEF Good, ReceiverType
<1> QED
  BY <1>2, <1>3, <1>4, <1>5, <1>6 DEF Good, ReceiverType

\* Every variable stays in the range of its C++ type.
THEOREM TypeCorrect == Spec => []TypeOK
<1>1. IInv => TypeOK
  BY ReceiverIsGood, LenProperties DEF SenderOK, TypeOK
<1> QED
  BY <1>1, LookAhead, PTL

\* Parse never takes more or less of a chunk than SendData put there.
THEOREM BoundariesAgree == Spec => []ChunkBoundariesAgree
<1>1. IInv => ChunkBoundariesAgree
  BY ReceiverIsGood DEF ChunkBoundariesAgree, Exactly, HeaderAt, Receiver, ReadLen
<1> QED
  BY <1>1, LookAhead, PTL

\* No timestamp is shifted on its way.
THEOREM StampsFollow == Spec => []TimestampsFollow
<1>1. IInv => TimestampsFollow
  BY ReceiverIsGood DEF TimestampsFollow, Faithful
<1> QED
  BY <1>1, LookAhead, PTL

-----------------------------------------------------------------------------
(* The refinement.                                                         *)


LEMMA LengthsOfBoth ==
  ASSUME Len(sent) \in Nat, Len(delivered) \in Nat
  PROVE  /\ Len(Submitted) = Len(sent) /\ Len(Received) = Len(delivered)
         /\ \A k \in 1..Len(sent) : Submitted[k] =
              [cs_id |-> sent[k].cs_id, type |-> sent[k].type,
               stream |-> IF sent[k].type = "set_chunk_size" THEN 0 ELSE 1,
               msg |-> Content(k, sent[k].length)]
BY DEF Submitted, Received

\* A message sent is a message more for the channel to deliver.
LEMMA SendingSends ==
  ASSUME IInv, NEW e \in SentType, sent' = Append(sent, e), UNCHANGED delivered
  PROVE  Channel!SendMessage
<1>1. sent \in Seq(SentType) /\ Len(sent) \in Nat /\ Len(delivered) \in Nat
  BY ReceiverIsGood, LenProperties DEF SenderOK
<1>2. /\ Len(sent') = Len(sent) + 1
      /\ \A k \in 1..Len(sent) : sent'[k] = sent[k]
  BY <1>1, AppendProperties
<1>3. Submitted' = [i \in 1..(Len(sent) + 1) |->
                      [cs_id |-> sent'[i].cs_id, type |-> sent'[i].type,
                       stream |-> IF sent'[i].type = "set_chunk_size" THEN 0 ELSE 1,
                       msg |-> Content(i, sent'[i].length)]]
  BY <1>2 DEF Submitted, Content
<1>4. Len(Submitted') = Len(Submitted) + 1
  BY <1>1, <1>3, LengthsOfBoth
<1>5. ASSUME NEW k \in 1..Len(Submitted) PROVE Submitted'[k] = Submitted[k]
  <2>1. k \in 1..Len(sent) /\ k \in 1..(Len(sent) + 1)
    BY <1>1, <1>5, LengthsOfBoth
  <2> QED
    BY <1>1, <1>2, <1>3, <2>1, LengthsOfBoth
<1>6. Received' = Received
  BY DEF Received
<1> QED
  BY <1>4, <1>5, <1>6 DEF Channel!SendMessage

\* A message completed is the next one of the channel.
LEMMA CompletingDelivers ==
  ASSUME IInv, ParseChunk
  PROVE  Channel!DeliverMessage \/ UNCHANGED <<Submitted, Received>>
<1>1. UNCHANGED sent /\ wire # << >>
  BY DEF ParseChunk, sender
<1>2. Submitted' = Submitted
  BY <1>1 DEF Submitted, Content
<1>3. PICK a : a = After(Receiver, wire[1])
  OBVIOUS
<1>4. Receiver' = a
  BY <1>3, ParseIsAfter
<1>5. delivered' = a.got
  BY <1>4 DEF Receiver
<1>6. Good(a) /\ Len(sent) \in Nat /\ Len(delivered) \in Nat
  BY <1>1, <1>3, ReceiverIsGood, LenProperties DEF SenderOK
<1>7. CASE a.got = delivered
  BY <1>2, <1>5, <1>7 DEF Received
<1>8. ASSUME NEW d, a.got = Append(delivered, d) PROVE Channel!DeliverMessage
  <2>1. PICK n : n = Len(delivered)
    OBVIOUS
  <2>2. delivered \in Seq(DeliveredType) /\ a.got \in Seq(DeliveredType)
    <3>1. Receiver \in ReceiverType /\ Receiver.got = delivered
      BY ReceiverIsGood DEF Receiver
    <3> QED
      BY <1>6, <3>1 DEF Good, ReceiverType
  <2>3. /\ Len(delivered') = n + 1 /\ delivered'[n + 1] = d
        /\ \A k \in 1..n : delivered'[k] = delivered[k]
    BY <1>5, <1>8, <2>1, <2>2, AppendProperties
  <2>4. n \in Nat /\ n + 1 <= Len(sent) /\ Faithful(d, n + 1)
    <3>1. Len(a.got) = n + 1 /\ a.got[n + 1] = d /\ n \in Nat /\ n + 1 \in 1..Len(a.got)
      BY <1>5, <1>6, <2>1, <2>3
    <3> QED
      BY <1>6, <3>1 DEF Good
  <2>5. PICK e : e = [cs_id |-> d.cs_id, type |-> d.type, stream |-> d.stream, msg |-> d.msg]
    OBVIOUS
  <2>6. Submitted[n + 1] = e
    <3>1. n + 1 \in 1..Len(sent)
      BY <1>6, <2>4
    <3> QED
      BY <1>6, <2>4, <2>5, <3>1, LengthsOfBoth DEF Faithful
  <2>7. Received' = Append(Received, e)
    <3>1. Received' = [i \in 1..(n + 1) |->
                         [cs_id |-> delivered'[i].cs_id, type |-> delivered'[i].type,
                          stream |-> delivered'[i].stream, msg |-> delivered'[i].msg]]
      BY <2>3 DEF Received
    <3>2. Received = [i \in 1..n |->
                         [cs_id |-> delivered[i].cs_id, type |-> delivered[i].type,
                          stream |-> delivered[i].stream, msg |-> delivered[i].msg]]
      BY <2>1 DEF Received
    <3>3. Len(Received) = n /\ n + 1 \notin 1..n /\ 1..n \subseteq 1..(n + 1) /\ n + 1 \in 1..(n + 1)
      BY <2>4, <3>2
    <3>4. Append(Received, e) = [i \in 1..(n + 1) |-> IF i = n + 1 THEN e ELSE Received[i]]
      BY <2>4, <3>2, <3>3
    <3>5. ASSUME NEW i \in 1..(n + 1)
          PROVE  [cs_id |-> delivered'[i].cs_id, type |-> delivered'[i].type,
                  stream |-> delivered'[i].stream, msg |-> delivered'[i].msg]
                   = IF i = n + 1 THEN e ELSE Received[i]
      <4>1. CASE i = n + 1
        BY <2>3, <2>5, <4>1
      <4>2. CASE i # n + 1
        <5>1. i \in 1..n
          BY <2>4, <4>2
        <5> QED
          BY <2>3, <3>2, <4>2, <5>1
      <4> QED
        BY <4>1, <4>2
    <3> QED
      BY <3>1, <3>4, <3>5
  <2> QED
    BY <1>2, <1>6, <2>1, <2>4, <2>6, <2>7, LengthsOfBoth DEF Channel!DeliverMessage
<1>9. a.got = delivered \/ \E d : a.got = Append(delivered, d)
  BY <1>3 DEF After, Receiver
<1> QED
  BY <1>7, <1>8, <1>9

\* What the player's client is given is what the server sent, each message
\* once, whole, in order, with its type, its cs_id and the player's stream:
\* the chunk stream implements the message channel.
THEOREM ChunkStreamDelivers == Spec => MessagesDelivered
<1>1. Init => Channel!ChannelInit
  BY DEF Init, Channel!ChannelInit, Submitted, Received
<1>2. IInv /\ [Next]_vars => [Channel!SendMessage \/ Channel!DeliverMessage]_<<Submitted, Received>>
  <2> SUFFICES ASSUME IInv, [Next]_vars
               PROVE  [Channel!SendMessage \/ Channel!DeliverMessage]_<<Submitted, Received>>
    OBVIOUS
  <2>1. CASE UNCHANGED sent /\ UNCHANGED delivered
    BY <2>1 DEF Submitted, Received, Content
  <2>2. ASSUME NEW cs, NEW type, NEW stream, NEW timestamp, NEW delta, NEW length, NEW force_fmt0,
               Sends(cs, type, stream, timestamp, delta, length, force_fmt0)
        PROVE  Channel!SendMessage
    <3>1. PICK e : e = SentAs(cs, type, timestamp, delta, length)
      OBVIOUS
    <3>2. sent' = Append(sent, e) /\ UNCHANGED delivered
      BY <2>2, <3>1, SendDataIs DEF Sends, receiver
    <3>3. e \in SentType
      BY <2>2, <3>1, SentAsType DEF Sends
    <3> QED
      BY <3>2, <3>3, SendingSends
  <2>3. CASE ParseChunk
    BY <2>3, CompletingDelivers
  <2>4. CASE \/ SetOutChunkSize
             \/ \E c \in CsIds, l \in Lengths : AnswerPlay(c, l)
             \/ \E l \in Lengths : SendMetaData(l) \/ SendAudioHeader(l) \/ SendVideoHeader(l)
             \/ \E t \in {"audio", "video"}, dts \in Stamps, l \in Lengths : SendMediaData(t, dts, l)
    BY <2>2, <2>4, SenderSends DEF SendsSomething
  <2> QED
    BY <2>1, <2>3, <2>4 DEF Next, ParseHeaderOnly, vars, sender, receiver
<1> QED
  BY <1>1, <1>2, LookAhead, PTL DEF Spec, MessagesDelivered, Channel!ChannelSpec
=============================================================================
