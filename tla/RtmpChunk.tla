------------------------------ MODULE RtmpChunk ------------------------------
(***************************************************************************)
(* The RTMP chunk stream (RtmpProtocol): SendData, which cuts a message    *)
(* into chunks and leaves out of its header what the message before it on  *)
(* the same cs_id already said, against Parse, which puts it together      *)
(* again.  The two are the ends of one connection to a player: what the    *)
(* server sends one, from its answer to connect to live media.             *)
(*                                                                         *)
(* A message is its number in the order of sending; its bytes are pairs of *)
(* that number and a position.  TCP may hand Parse any part of a chunk: a  *)
(* header that is complete is applied again at every attempt until all the *)
(* payload is there.  Fields keep their width: 24 bits for the timestamps  *)
(* on the wire (TsMod values), 32 in memory (TsWide).                      *)
(*                                                                         *)
(* The client sends play on the message stream createStream gave it (1),   *)
(* and the answer takes the cs_id of the request.                          *)
(***************************************************************************)
EXTENDS Integers, Sequences

CONSTANTS
  TsMod,          \* 2^24
  TsWide,         \* 2^32
  kDefaultChunk,  \* 128
  kOutChunk,      \* 60000
  Lengths,        \* lengths of metadata, headers and media
  MaxMessages,    \* bound: messages sent
  MaxWire         \* bound: chunks under way when a message is sent

ASSUME WidthAssumption ==
  /\ TsMod \in Nat \ {0} /\ TsWide \in Nat \ {0}
  /\ TsWide % TsMod = 0
ASSUME ChunkAssumption == kDefaultChunk \in Nat \ {0} /\ kOutChunk \in Nat \ {0}
ASSUME LengthAssumption == Lengths \subseteq Nat \ {0}
ASSUME BoundAssumption == MaxMessages \in Nat /\ MaxWire \in Nat

VARIABLES
  phase,           \* what the server may send next
  csid_pre_info_,  \* sender: the last message of each cs_id
  out_chunk_size_,
  wire,            \* chunks sent and not yet parsed
  csid_head_,      \* receiver: the message being put together, by cs_id
  in_chunk_size_,
  sent,            \* messages passed to SendData
  delivered        \* messages passed to OnRtmpMessage

sender   == <<phase, csid_pre_info_, out_chunk_size_, sent>>
receiver == <<csid_head_, in_chunk_size_, delivered>>
vars     == <<sender, wire, receiver>>

CsIds  == {2, 3, 4, 6}
Types  == {"set_chunk_size", "command", "metadata", "audio", "video"}
Stamps == 0..(TsWide - 1)

Smaller(a, b) == IF a <= b THEN a ELSE b

PreInfo == [timestamp : Stamps, delta : Stamps, length : Nat, type : Types]
Assembly == [calc : Stamps, delta : 0..(TsMod - 1), length : Nat, type : Types,
             stream : Nat, msg : Seq(Nat \X Nat)]

Init ==
  /\ phase = "connect"
  /\ csid_pre_info_ = [c \in CsIds |->
       [timestamp |-> 0, delta |-> 0, length |-> 0, type |-> "command"]]
  /\ out_chunk_size_ = kDefaultChunk
  /\ wire = << >>
  /\ csid_head_ = [c \in CsIds |->
       [calc |-> 0, delta |-> 0, length |-> 0, type |-> "command", stream |-> 0,
        msg |-> << >>]]
  /\ in_chunk_size_ = kDefaultChunk
  /\ sent = << >>
  /\ delivered = << >>

-----------------------------------------------------------------------------
(* Sending.  The operators named Slip... are slips of the definition after *)
(* them, used to test that the properties notice: no specification here    *)
(* uses them.                                                              *)

Content(n, length) == [i \in 1..length |-> <<n, i>>]

SlipFmtIgnoresLength(pre, length, type, delta, force_fmt0) ==
  IF pre.length = 0 \/ force_fmt0 THEN 0
  ELSE IF pre.type # type THEN 1
  ELSE IF pre.delta # delta THEN 2
  ELSE 3

\* How little of the header will do.
Fmt(pre, length, type, delta, force_fmt0) ==
  IF pre.length = 0 \/ force_fmt0 THEN 0
  ELSE IF pre.length # length \/ pre.type # type THEN 1
  ELSE IF pre.delta # delta THEN 2
  ELSE 3

ChunkCount(length) == ((length - 1) \div out_chunk_size_) + 1

SlipPieceNotAdvanced(n, length, i) ==          \* data_pos stays where it was
  SubSeq(Content(n, length), 1, Smaller(out_chunk_size_, length - (i - 1) * out_chunk_size_))

\* The payload of the i-th chunk.
Piece(n, length, i) ==
  SubSeq(Content(n, length), (i - 1) * out_chunk_size_ + 1,
         Smaller(i * out_chunk_size_, length))

\* RtmpProtocol::SendData; exact tells whether the timestamps of this cs_id
\* have fitted in 24 bits so far.
SendData(cs_id, type, stream, timestamp, delta, length, force_fmt0) ==
  LET n     == Len(sent) + 1
      pre   == csid_pre_info_[cs_id]
      exact == /\ \A i \in 1..Len(sent) : sent[i].cs_id = cs_id => sent[i].exact
               /\ delta < TsMod
               /\ pre.timestamp + delta = timestamp \/ type \notin {"audio", "video"}
  IN  /\ n <= MaxMessages
      /\ Len(wire) <= MaxWire
      /\ sent' = Append(sent, [cs_id |-> cs_id, type |-> type, length |-> length,
                               timestamp |-> timestamp, exact |-> exact])
      /\ wire' = wire \o
           [i \in 1..ChunkCount(length) |->
              [cs_id |-> cs_id,
               fmt |-> IF i = 1 THEN Fmt(pre, length, type, delta, force_fmt0) ELSE 3,
               timestamp |-> delta % TsMod, length |-> length, type |-> type,
               stream |-> stream, payload |-> Piece(n, length, i)]]
      /\ csid_pre_info_' = [csid_pre_info_ EXCEPT
           ![cs_id] = [timestamp |-> timestamp, delta |-> delta, length |-> length, type |-> type]]

\* SendRtmpMessage: timestamp 0, and a full header but for audio and video.
SendRtmpMessage(cs_id, stream, type, length) ==
  SendData(cs_id, type, stream, 0, 0, length, type \notin {"audio", "video"})

\* SetOutChunkSize, in the answer to connect.
SetOutChunkSize ==
  /\ phase = "connect"
  /\ out_chunk_size_' = kOutChunk
  /\ SendRtmpMessage(2, 0, "set_chunk_size", 1)
  /\ phase' = "play"
  /\ UNCHANGED receiver

\* The answer to play, on the cs_id of the request.
AnswerPlay(cs_id, length) ==
  /\ phase = "play"
  /\ SendRtmpMessage(cs_id, 1, "command", length)
  /\ phase' = "headers"
  /\ UNCHANGED <<out_chunk_size_, receiver>>

\* OnNewSubscriber: metadata when there is some, once more if the headers
\* were not there the first time; then the headers.
SendMetaData(length) ==
  /\ phase = "headers"
  /\ SendRtmpMessage(4, 1, "metadata", length)
  /\ UNCHANGED <<phase, out_chunk_size_, receiver>>

SendAudioHeader(length) ==
  /\ phase = "headers"
  /\ SendRtmpMessage(4, 1, "audio", length)
  /\ phase' = "video_header"
  /\ UNCHANGED <<out_chunk_size_, receiver>>

SendVideoHeader(length) ==
  /\ phase = "video_header"
  /\ SendRtmpMessage(6, 1, "video", length)
  /\ phase' = "media"
  /\ UNCHANGED <<out_chunk_size_, receiver>>

\* Unsigned 32 bit subtraction.
Delta(cs_id, dts) == (dts - csid_pre_info_[cs_id].timestamp) % TsWide

\* The fast-out, then the live frames; the message stream is left at 0.
SendMediaData(type, dts, length) ==
  LET cs_id == IF type = "audio" THEN 4 ELSE 6
  IN  /\ phase = "media"
      /\ SendData(cs_id, type, 0, dts, Delta(cs_id, dts), length, FALSE)
      /\ UNCHANGED <<phase, out_chunk_size_, receiver>>

-----------------------------------------------------------------------------
(* Parsing.                                                                *)

SlipReadHeaderAddsAtOnce(h, c) ==       \* the delta added with every attempt
  CASE c.fmt = 0 -> [h EXCEPT !.calc = c.timestamp, !.length = c.length,
                              !.type = c.type, !.stream = c.stream]
    [] c.fmt = 1 -> [h EXCEPT !.calc = (@ + c.timestamp) % TsWide, !.length = c.length,
                              !.type = c.type]
    [] c.fmt = 2 -> [h EXCEPT !.calc = (@ + c.timestamp) % TsWide]
    [] c.fmt = 3 -> h

\* What a header of each format changes in the message of its cs_id.
ReadHeader(h, c) ==
  CASE c.fmt = 0 -> [h EXCEPT !.calc = c.timestamp, !.length = c.length,
                              !.type = c.type, !.stream = c.stream]
    [] c.fmt = 1 -> [h EXCEPT !.delta = c.timestamp, !.length = c.length, !.type = c.type]
    [] c.fmt = 2 -> [h EXCEPT !.delta = c.timestamp]
    [] c.fmt = 3 -> h

ReadLen(h) == Smaller(h.length - Len(h.msg), in_chunk_size_)

\* A header without all of its payload: kNoEnoughData.
ParseHeaderOnly ==
  /\ wire # << >>
  /\ csid_head_' = [csid_head_ EXCEPT ![wire[1].cs_id] = ReadHeader(@, wire[1])]
  /\ UNCHANGED <<sender, wire, in_chunk_size_, delivered>>

\* OnRtmpMessage, as far as the chunk stream goes.
OnSetChunkSize(h) ==
  in_chunk_size_' = IF h.type = "set_chunk_size" THEN kOutChunk ELSE in_chunk_size_

\* A header is kept for the next message of its cs_id, the payload is not.
SlipKeepNothing(h) ==
  [calc |-> h.calc, delta |-> h.delta, length |-> h.length, type |-> h.type,
   stream |-> 0, msg |-> << >>]

KeepHeader(h) == [h EXCEPT !.msg = << >>]

ParseChunk ==
  LET c    == wire[1]
      h    == ReadHeader(csid_head_[c.cs_id], c)
      more == [h EXCEPT !.msg = @ \o c.payload]
      done == [more EXCEPT !.calc = (@ + h.delta) % TsWide]
  IN  /\ wire # << >>
      /\ Len(c.payload) = ReadLen(h)          \* see ChunkBoundariesAgree
      /\ wire' = Tail(wire)
      /\ IF Len(more.msg) = h.length
         THEN /\ delivered' = Append(delivered,
                   [cs_id |-> c.cs_id, type |-> h.type, stream |-> h.stream,
                    timestamp |-> done.calc, msg |-> more.msg])
              /\ csid_head_' = [csid_head_ EXCEPT ![c.cs_id] = KeepHeader(done)]
              /\ OnSetChunkSize(h)
         ELSE /\ csid_head_' = [csid_head_ EXCEPT ![c.cs_id] = more]
              /\ UNCHANGED <<delivered, in_chunk_size_>>
      /\ UNCHANGED sender

-----------------------------------------------------------------------------
Next ==
  \/ SetOutChunkSize
  \/ \E c \in CsIds, l \in Lengths : AnswerPlay(c, l)
  \/ \E l \in Lengths : SendMetaData(l) \/ SendAudioHeader(l) \/ SendVideoHeader(l)
  \/ \E t \in {"audio", "video"}, dts \in Stamps, l \in Lengths : SendMediaData(t, dts, l)
  \/ ParseHeaderOnly \/ ParseChunk

Spec == Init /\ [][Next]_vars

-----------------------------------------------------------------------------
(* Properties.                                                             *)

\* Every variable stays in the range of its C++ type as the code uses it.
TypeOK ==
  /\ phase \in {"connect", "play", "headers", "video_header", "media"}
  /\ csid_pre_info_ \in [CsIds -> PreInfo]
  /\ csid_head_ \in [CsIds -> Assembly]
  /\ out_chunk_size_ \in {kDefaultChunk, kOutChunk}
  /\ in_chunk_size_ \in {kDefaultChunk, kOutChunk}
  /\ Len(sent) \in 0..MaxMessages /\ Len(delivered) <= Len(sent)

\* Parse takes as the payload of a chunk exactly what SendData put there: the
\* lengths the headers leave out and the two chunk sizes agree at every chunk,
\* so the reader never loses its place in the stream.
ChunkBoundariesAgree ==
  wire # << >> =>
    Len(wire[1].payload) = ReadLen(ReadHeader(csid_head_[wire[1].cs_id], wire[1]))

\* Every message arrives once, whole and in order, its type and its cs_id with
\* it, however chunks are cut, compressed and torn by reads; and on the message
\* stream of the player, which SendMediaData never writes: it is what the
\* headers sent before the frames left there.
Received == [i \in 1..Len(delivered) |->
               [cs_id |-> delivered[i].cs_id, type |-> delivered[i].type,
                stream |-> delivered[i].stream, msg |-> delivered[i].msg]]
Submitted == [i \in 1..Len(sent) |->
                [cs_id |-> sent[i].cs_id, type |-> sent[i].type,
                 stream |-> IF sent[i].type = "set_chunk_size" THEN 0 ELSE 1,
                 msg |-> Content(i, sent[i].length)]]

Channel == INSTANCE MessageChannel WITH
             sent <- Submitted, delivered <- Received

MessagesDelivered == Channel!ChannelSpec

\* A frame reaches the player with the timestamp it had, modulo the 24 bits of
\* the wire, and with exactly that timestamp as long as every step from the
\* frame before it went forward and fitted in them: reusing a delta, reading a
\* header several times and reusing a cs_id for another type shift nothing.
TimestampsFollow ==
  \A i \in 1..Len(delivered) :
    /\ delivered[i].timestamp % TsMod = sent[i].timestamp % TsMod
    /\ sent[i].exact => delivered[i].timestamp = sent[i].timestamp
=============================================================================
