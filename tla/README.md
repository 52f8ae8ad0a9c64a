# A TLA+ model of tms

tms is a media server in C++: RTMP, SRT and WebRTC publishers, and RTMP, HTTP-FLV, HLS, SRT and WebRTC
players, in one process with one thread. This directory holds TLA+ modules translated from its source,
configurations that check them with TLC, and theorems about them that TLAPS proves. All paths below are
relative to the repository; `rtmp_protocol.cpp` is `src/rtmp_protocol.cpp` and so on.

Contents: 1 inventory, 2 modules, 3 runs and bounds, 4 fairness, 5 proofs, 6 disagreements between code and
comments and observations, 7 what is not modelled, 8 plan, 9 running it.

## 1. The system

`main` opens the listening sockets and calls `Epoller::WaitIO` and `SrtEpoller::WaitIO` for ever. A ready
socket's `OnRead` fills an `IoBuffer` and hands it to the protocol handler that belongs to the connection; the
handler parses what is complete, and runs everything a message causes to its end: registration of a stream,
remuxing, and `Send` to every subscriber. There is no lock and no second thread. What makes the code hard is
therefore not races but

- handlers that reach, through raw pointers, objects that another connection's close has freed;
- `Send` to *another* connection in the middle of a loop, whose failure runs that connection's `HandleClose`;
- input torn anywhere by TCP, output that the kernel takes partly or not at all;
- caches that are trimmed while players still rely on what they hold;
- legal sequences of commands that no test of the repository (there are none) exercises.

| Component | State | Operations | Interacts with | Hard behaviour | What makes it correct |
|---|---|---|---|---|---|
| Event loop (`common/epoller`, `fd`, `tcp_socket`) | interest of every Fd, here and in the kernel; write buffers; the batch of events being handled | WaitIO, AddFd/ModFd/DelFd, OnRead, OnWrite, Send, accept, delete | kernel; all protocols | partial and failed writes; Fds deleted in the middle of a batch | output is neither cut nor forgotten; a deleted Fd is never called; a closed connection is found |
| `common/io_buffer` | memory block, start, end, capacity | reads, writes, growth, shrinking | every socket and parser | reuse and growth by different rules | a queue of bytes that stays in its block |
| Registry (`local_stream_center`) | app/stream → publisher | Register, UnRegister, lookup, random lookup | all sessions | entries of freed publishers; eviction by somebody else's close | a registered RTMP publisher is open and publishes that stream |
| `media_publisher`, `media_subscriber` | subscriber_, wait_header_subscriber_, publisher_ | Add/RemoveSubscriber, header arrival, destructors | sessions, muxer | subscribers that come and go between headers | back links are mutual; nobody is served too early or forgotten |
| RTMP session (`rtmp_protocol`) | role_, app_, stream_, csid tables | handshake, connect, publish, play, media, close | registry, muxer, loop | refusals, failed replies, repeated closes | as for the registry and the subscribers |
| RTMP chunk stream (`rtmp_protocol`) | csid_head_, csid_pre_info_, chunk sizes | SendData, Parse | IoBuffer, session | header compression, chunk size change, torn headers | what is sent is what is parsed, with its timestamp |
| `media_muxer` | frame queues, TS segments, playlist, key frame ids | OnAudio, OnVideo, headers, PacketTs, UpdateM3U8, GetFastOut | sessions, HLS | trimming under readers | late joiners can decode; playlists name segments that exist and never change |
| HLS (`http_hls_protocol`) | request | GET of playlist and segment | muxer | old playlists | served as long as promised |
| HTTP-FLV (`http_flv_protocol`) | subscription, tag sizes | GET, distribution, close | registry, muxer | as a subscriber | as a subscriber |
| SRT (`srt_protocol`, `srt_epoller`, `srt_socket`) | subscription, registration, TS reader | accept, data, close | registry, TS reader | subscribes before it knows its stream; never unregisters | as for the registry |
| WebRTC (`webrtc_protocol`, `webrtc_session_mgr`, `udp_socket`) | credentials of the last offer (global), sessions by ufrag, DTLS and SRTP state | STUN, DTLS, SCTP data channel, RTP/RTCP | WebSocket signalling, registry | offers and checks of several browsers; loss, repetition and reordering; no timer | a session has one offer's credentials and is established; a browser hears one publisher |
| WebSocket (`web_socket_protocol`) | upgraded or not | upgrade, frames, offers | HTTP parser, WebRTC sessions | torn frames, frames behind the upgrade | frames are parsed as sent |
| TLS (`common/ssl`) | connect status | handshake, OnRead, OnWrite | loop | write interest and fatal errors | as for the event loop |
| HTTP parser, sender, files (`http_*`) | parser state | Decode, responses | IoBuffer, HTTP-FLV, WebSocket | torn requests | a request torn anywhere parses the same |
| RTMP handshake (`rtmp_protocol`) | handshake_status_, version | C0, C1, C2; S0, S1, S2 | IoBuffer, RTMP session | the reply goes through the buffer that is read; chunks right behind C2 | the client is sent the reply to its own C1; chunks start behind C2 |
| TS reader (`ts_reader`) | PES under collection by PID | packet, section, PES | SRT session, muxer | payload units over many packets | a PES comes out whole |
| DASH and MP4 (`dash_muxer`, `mp4_muxer`, `http_dash_protocol`) | frames since the last cut, segments by time, MPD, chunks and sample tables | frames, headers, GET | RTMP session | two tracks cut at one track's key frames; segments erased under players; publishers replaced | segments follow one another without a gap, stay as long as the MPD promises and fit their initialisation segment; tables lead to the samples |
| Pure code: AMF0, Any, SDP, bit buffers, base64, CRC, util | none | encode, decode | everywhere | malformed input | round trips |
| Timers, logging, `echo_protocol`, tools | – | – | – | timers have no handler attached: dead code | – |

`PROJECT.json` lists every component with its status, and every hazard with its line and the properties that
would catch it.

## 2. The modules

One action is one handler run to its end (`StreamRouting`, `MediaMuxer`, `MediaFiles`, `IoBuffer`, `WebrtcSession`),
or one step of the server between two calls into the kernel (`EventLoop`), or one message or chunk (`RtmpChunk`), or
one packet (`TsReader`), or one round of a loop (`NalSplit`), or one read, and one call of `Parse`
(`FirstRequest`). Operators named `Slip...` are plausible slips of the definition that follows them. No specification uses them; put in the place of that
definition they must make TLC find the corresponding property violated.

**MediaMuxer** – the frame caches, the segments, the playlist and the two HLS requests. `video_queue_`,
`audio_queue_`, `ts_queue_`, `m3u8_` and the counters have the code's names. A video payload is the group of pictures
it belongs to and whether it opens it; a segment is the kind of frame that opened it and how many frames it holds.
`OnVideo` is the whole handler: cut (playlist first, then the number), enqueue, pack, trim. `player` is a client's
copy of the playlist, fetched segment by segment while frames arrive. The half of the trim test that compares with
`20 * calc_fps` is left out because those counters are never reset: no timer calls `EveryNSecond`.

**StreamRouting** – the registry, the publishers' two sets, the pointers back, and the session handlers of RTMP,
HTTP-FLV and SRT. A connection is a slot of the heap that is used again after it is freed, so a dangling pointer may
come to point to another object of the same class. Each handler includes the close and deletion that follow when
it returns an error. Undefined behaviour (a call into a freed publisher, erasing the element an iteration stands on,
clearing `csid_head_` below `Parse`) either ends the process, which is a behaviour that stops, or leaves what the
action says. Clients send one connect and one publish or play (RTMP), or one request (FLV).

**IoBuffer** and **ByteFifo** – the block of memory with its two pointers as offsets; fresh memory holds `Garbage`.
`ByteFifo` is what it promises, a queue of bytes; `BufferIsFifo` is the refinement, with `queue` mapped to what lies
between `start_` and `end_`.

**EventLoop** – `WaitIO` with a program counter, the interest set as the Fd and as the kernel see it, the write
buffer, and the bytes the kernel has accepted. Kernel and peers are environment actions that interleave with
every step of the server. A handler is whatever `HandleRead` may do to sockets: send on any open connection, return,
or ask for its own connection to be closed. A failed `Send` (result 0 or less, EAGAIN included) drops the message
and leaves the connection open, as the code does.

**RtmpChunk** and **MessageChannel** – both ends of the chunk stream to a player: `SendData` with its per-cs_id
compression, `Parse` with its per-cs_id assembly, over a wire that may hand over a header any number of times before
its payload is complete. Messages are numbered, their bytes are pairs of number and position. The phases are the
order in which the server sends: chunk size, answer to play, metadata, headers, media. `MessageChannel` is the
abstract channel it implements (`MessagesDelivered`).

**TsReader** – from the packets of an SRT publisher to the calls of the header and frame callbacks. A unit of a PID is
cut into pieces, one a packet, and a piece is what it starts with (a NAL, an ADTS frame, or nothing). `CollectPacket`
is the order of `ParseTsSegment`: `ParsePES` of what was collected if a unit starts, then `CollectPES`. The publisher
interleaves two PIDs and tables at will, several packets travel in an SRT message, and any message may be lost.
`video_stream_type_` has any value until the first PMT, as no constructor writes it. What is misread after a loss (a
unit without its start, audio behind a gap, H.264 read as H.265) is one junk call or none; the rest is exact.

**NalSplit** – the loop of `OnH264Video` and `OnH265Video` that cuts bytes into NALs, on real bytes, against the
byte stream format of Annex B. `TsReader` takes its result for granted for the start codes it is right for.

**WebrtcSession** – `WebSocketProtocol`'s handling of an offer and `WebrtcProtocol` from the first check to relayed
media: `OnOffer`, `OnStun`, `OnDtls` with the handshake, `OnSctp`, `OnRtpRtcp`. The credentials of the last offer are
globals of the code and of the model (`g_local_ice_pwd`, `g_remote_ice_ufrag`; the other three are written next to
these). A datagram is a record of what it carries; `net` is a set the network takes from in any order, loses from and
delivers twice. `dtls_` is the state of the SSL object: `hello` (ClientHello sent), `finished` (client's flight sent),
`done`. OpenSSL, libsrtp and the browsers are external, with the retransmissions their protocols prescribe; OpenSSL's
timer can run out, but does something only when a datagram is handed to it, since no timer of the program calls it.

**Frames**, **Mp4Boxes**, **DashMuxer**, **Mp4Muxer**, **MediaFiles** – the two MP4 muxers of a publisher. `Frames` is
what they are given. `Mp4Boxes` is the movie box as a record of what a reader relies on. `DashMuxer` has samples,
data, segments and MPD per track under the code's names, each a function of the track; `DashOnVideo` is the
whole handler with `Flush`, the renewal of the initialisation segments and of the MPD, and `Reset`. `Mp4Muxer` has the
chunks and the tables; the end of the module is how a reader finds a sample by ISO 14496-12. `MediaFiles` gives both
the same frames from one publisher clock, adds a DASH player, renewed codec headers, a clock set back and a
publisher replaced by another of its name.

**HttpParse**, **HttpHandlers**, **RtmpHandshake**, **FlvTags**, **FirstRequest** – a connection from its first byte.
`HttpParse` is `Decode`, which goes on where the last read ended, and the loop HLS and DASH have in its place; their
loops over the bytes are recursive functions. `HttpHandlers` is `Parse` of the five HTTP handlers, with the WebSocket
frames. `RtmpHandshake` is the handshake part of `RtmpProtocol::Parse` and `FlvTags` what `HttpFlvProtocol` writes per
frame. `FirstRequest` composes them: TCP hands over what the client wrote in reads that end anywhere (`OnRead`), and the handler's `Parse` runs until it asks for
more (`HandleHttp`, `HandleRtmp`: one turn of the loop in `HandleRead`). Clients go on when they are answered (`GoOn`): a
RTMP client with C2 and its first chunks, a WebSocket client that has waited with its frames. A word is one byte, but the
separators the parsers look for are bytes of their own, and WebSocket frames are bytes throughout. `IsRequest` is what a
client may ask. The expected answers are stated from the request as a record, not from its bytes.

**MC...** modules instantiate these for TLC; **...Proofs** hold the theorems.

## 3. Runs

| Run | Shows | Bounds and why they suffice |
|---|---|---|
| MCMediaMuxer | late joiners get a complete group of pictures, playlists and segments agree, advertised segments never change, playlists move by one | `VideoCap` 6, `AudioCap` 2, `MinTs` 4 for 800, 800, 10: with 10 video frames every pattern of key frames occurs, and the queues are trimmed with and without a key frame in front; 3 audio frames exceed `AudioCap` |
| MCMediaSequence, MCOnceFull | two comments the code does not keep, see 6 | as above, one audio frame |
| MCStreamRouting | registry, sets and pointers under every order of connects, refusals, failed sends and closes | 2 RTMP slots, 1 FLV, 1 SRT, 2 streams: two publishers of one name, a publisher under its players, every slot reused. Symmetry over RTMP slots and streams is sound as no property tells them apart |
| MCIoBuffer | block and pointers stay consistent; the buffer is a FIFO | sizes 2, 4, 2 for 64K, 128K, 64K; capacity up to 9 lets the block grow twice, be reused and shrink |
| MCEventLoop | write interest, batches, message boundaries; what is buffered is sent, what the peer closed is deleted | 2 connections, 3 messages of 2 units, a kernel buffer of 1 unit: writes are full, partial or refused, and a message waits behind another |
| MCRtmpChunk | chunks agree at both ends, timestamps follow, messages are delivered once and in order | lengths 3 and 4 against chunk sizes 2 and 3: one chunk, exactly two, and a remainder. 2 and 4 timestamp values for 2^24 and 2^32: deltas overflow the wire and wrap. 7 messages: the four before media, then three of media |
| MCTsReader | whatever is lost, units that arrive whole leave whole, in order and once; time stamps; headers before key pictures | 3 units per PID in 8 packets, 2 in a message: a unit, the loss of any part of the next, and one more that ends it, while the other PID and tables come in between. Three shapes of H.264 and H.265 video and one of audio; time stamps 2, 3, 4 with `Wrap` 4 in place of 2^30, so that the last is the first one misread |
| MCNalSplit | the NAL loop against Annex B | all inputs of up to 14 bytes over 0, 1, 2: three start codes of four bytes with NALs of any contents between them; 2 stands for every other byte |
| MCWebrtcSession | credentials, what ends the process, whose media is relayed; every session is established unless one of two datagrams is lost | 2 browsers, one with a data channel, 1 RTP packet each, 1 datagram lost or delivered twice, any reordering: offers and checks of two browsers interleave, each datagram of the exchange is the one that is lost or repeated |
| MCMediaFiles | DASH segments tile the track, stay as promised and fit their initialisation segments; the tables of an MP4 file lead to its samples; which request is undefined | 5 video frames, any of them key, audio in between at will, 1 fault (clock set back, header renewed, publisher replaced); `DASH_CACHE` 1 and segments of 2 for 3 and 5000 ms: four segments can be cut, and the fourth erases the first; chunks of 2 bytes for 1 MB, frames of 1 or 2: a chunk is filled, exceeded and ended by the other track |
| MCFirstRequest | what is answered and handed on does not depend on where TCP cuts; the handshake is in step; FLV tags chain | each request with every sequence of reads of up to 40 bytes or all there is, more than the longest request but one of the WebSocket ones; 226 requests over five handlers, with wrong methods, depths, types, queries and names, and WebSocket frames with and without a mask and with 7 and 16 bits of length; RTMP clients of both handshakes, with a wrong version and without a digest, the socket taking 0 to 7 of the 7 parts of the reply; 2 FLV tags of every kind and size |

The bounds are constants named in the guards: `MaxVideo`, `MaxAudio` (frames), `MaxCapacity`, `MaxData`, `MaxRead`
(bytes), `MaxMessages`, `MaxRequests` (messages sent, times a peer sends), `MaxWire` (chunks under way when a message
is sent), `MaxUnits`, `MaxPackets`, `PerMessage` (units of a PID, packets, packets in a message), `MaxLen` (bytes of
an access unit), `MaxFaults` (datagrams lost or repeated, faults of a publisher), `MaxFrames` (video frames),
`MaxTags` (FLV tags). `MaxRead` in `FirstRequest` bounds what a read takes, short of all there is. `MCRtmpChunk`,
`MCTsReader`, `MCNalSplit`, `MCWebrtcSession`, `MCMediaFiles` and `MCFirstRequest` switch deadlock checking off: a
connection whose messages are all parsed or whose request is answered may stay idle for ever, a publisher may stop
sending, the loop ends, and a process that has ended does nothing.

What the properties say is in the comment over each; the ones with most behind them:

- `FastOutDecodable` – the trim looks at counts only. That the last key frame survives rests on more than `MinTs`
  segments existing, hence more than two key frames being cached. With the segment test dropped it fails.
- `ServedWhileFresh` – a client may hold a playlist until `MinTs` newer segments have been opened.
- `SubscribersBackLinked`, `SubscribersServed` – every subscriber a publisher holds is open and points back,
  and stays held until it closes, unless its publisher was freed or a send to it failed. Those two exceptions are
  the code's: a closing publisher does not tell its subscribers (`OnStop` does nothing).
- `RtmpRegistrationLive` – although a refused publisher evicts the registered one on its close, what is registered is
  always open and publishes that very stream. It holds for RTMP; SRT entries do outlive their connection, which is
  why the property is about RTMP slots only.
- `MessagesWhole` – dropped messages are dropped whole, also with partial writes before and after them.
- `TimestampsFollow` – exact as long as the timestamps of a cs_id go forward in steps of less than 2^24;
  modulo 2^24 always.
- `IntactUnitsDelivered` – the reader ignores continuity counters and lengths, so a unit with a hole swallows what
  follows up to the next start. The property says that the damage stays there. It excludes video from before the PMT.
- `OwnTimestamp` – two exceptions, both the code's: pieces whose start was lost go out with the time of the unit
  before, and bits 32..30 of a time are shifted by 29 instead of 30, so times from 2^30 (3 h 18 min) on are misread.
- `SessionsEstablished` – nothing in the server sends a datagram again by itself. That a session is established all the
  same rests on the browser: its checks, its DTLS flight and its SCTP chunks come again, and each lets OpenSSL look at its
  timer. The two datagrams for which that is not enough are named in `Stranded`.
- `EndsOnlyByRepetition` – `OnDtls` uses the result of `SSL_read` as a length before it looks at it. No order in which a
  browser's first datagrams can arrive makes that negative; a repeated one does.
- `TimeShiftBufferHeld` – the erasing rule counts segments, the promise of the MPD is in time, and the segments of audio
  and video have different lengths.
- `FragmentsTile` – the last frame of a segment is kept for the next in two different ways: the audio frame is in the data
  already, the key frame not yet.
- `EndsOnlyWhenReplaced` – the one request that is undefined (`GetM4s` of an empty map) needs a player with a predecessor's
  MPD.
- `SamplesWhereTablesSay` – except in the first file of a muxer, see 6.
- `AnsweredAsAsked` – for HTTP-FLV, files and WebSocket under every cut. HLS and DASH keep nothing between two reads: a
  request that is cut is never answered, and the property says that this is all.
- `HandshakeInStep` – unless the socket takes only part of the reply (a reply of 3 KB on a fresh connection).
- `NalsWhole` – holds for start codes of four bytes only: in front of `00 00 01` the loop drops a byte.

## 4. Fairness

`EventLoop` and `WebrtcSession` state fairness. In `EventLoop`, `WF_vars(Server)`: `main.cpp` loops for ever and a
handler returns (the number of messages a model's handler sends is bounded). `WF_vars(PeerReads(x))`: `BufferedIsSent`
says that output is sent *as long as the peer reads*; a peer that stops reading keeps its output waiting, as it
should. Nothing is assumed about peers connecting, sending or closing. `OnRead` reads until there is nothing left, so
a peer that sends without pause would starve the others: `MaxRequests` excludes that.

In `WebrtcSession` the server is only assumed to handle what arrives. `WF_vars(Arrive(c))`: what is under way arrives
unless it is lost. `WF_vars(OnClientFlight(c))`: so does the answer to the server's flight while that flight is sent
again and again. `WF_vars(Check(c) \/ ServerFlightAgain(c) \/ SendChunk(c))`: browsers repeat what is not answered, as
ICE, DTLS and SCTP prescribe. `SF_vars(ResendFlight(c))`: OpenSSL's timer runs out between some two of the datagrams
that keep being handed to it. Nothing is assumed about offers or media.

The other modules have safety properties only and no fairness.

## 5. Proofs

All theorems hold for every value of the constants that satisfies the `ASSUME`s of the module; TLC checks those
assumptions and the same properties on the instances above. A proof has one step per action and under it one step per
part of the invariant the action touches.

**MediaMuxerProofs.** `IInv == TypeOK /\ Retained /\ PlaylistRecent /\ PlayerBehind`. `Retained` is what makes the
properties inductive: nothing has been received yet, or for some number `lo` of dropped segments the segments kept are
`lo .. ts_seq_`, dropped only while `MinTs` remained, and the frames kept are the newest ones, from which exactly the
first `lo` key frames have been dropped. A trim looks at counts, never at key frames; that the current group of
pictures survives is an argument of counting with `lo` as the link. `PlaylistRecent` and `PlayerBehind` say that the
playlist lists the three segments before the one being filled and that no client asks for a later one. From `IInv`
follow `FastOutDecodable`, `PlaylistServable`, `TsContiguous`, `ServedWhileFresh` and, as a step property,
`AdvertisedSegmentsFrozen` and `PlaylistAdvancesByOne`; with it, `SegmentsStartWithKeyFrame` is inductive, and so is
`AudioKept` (the newest audio frames are kept and no more than needed was dropped), from which `FastOutAudioComplete`
follows. Assumptions: both caps positive, `MinTs >= 4` (the code's 10).

**StreamRoutingProofs.** `IInv` is `TypeOK`, the four invariants of the run and `Unsubscribed`: freed slots and RTMP
connections that have no role yet have no `publisher_`. Without it a slot that is used again could be in some
publisher's set. `RegistrationEndsWithAPublisher` follows as a step property. Assumptions: slots of different
classes are different, `None` is neither slot nor stream.

**EventLoopProofs.** `WriteArmedIffPending` and `BatchAlive` need each other and three facts more: `Control` (the
program counter against the socket being handled), `Fresh` (a connection that is not accepted yet has nothing buffered,
so registering it for reading only is right) and `Writable` (what `epoll_wait` reported as writable and is not handled
yet still has output, and the kernel still has room for it). `Writable` is why `OnWrite` cannot fail on an open peer,
hence `OnlyHandlersClose`. For `MessagesWhole`, `Whole` describes a stream of whole messages; `Send` appends one or
drops it, `OnWrite` moves units from the buffer to the kernel and leaves their concatenation alone. Assumptions:
`Room` and `Units` positive, the listener and `None` are not connections.

The same module has the proofs about the buffer behind every socket: `start_ <= end_ <= capacity_` with the typing of
the block and `ContentsWritten` are inductive together; refinement of `ByteFifo` then needs one step per action.
Assumption: the sizes are natural numbers and `Garbage` is not a byte.

**TsReaderProofs.** For any shapes of units, any interleaving of PIDs, tables and messages, and any losses. The pieces
of a PID stand in one line (`Line`): those heard, those of the message that is parsed, those of the message being
filled and those not sent yet, each before the next in the order the publisher made them. What is in `pes_` is the end of
what was heard, from the last piece that starts a unit (`Collected`). Hence, when `ParsePES` runs, each unit with pieces
in `pes_` is over: nothing of it will be heard again (`Closed`). That is what makes statements about calls of the past
inductive although what was heard keeps growing. Three of them: `Stamped` (a frame's time is that of its unit; it uses
that `ReadStamp` is the identity below 2^30), `SetsLed` (of a key picture that was heard with its sets, the last PPS is
dispatched before any slice, with all sets in front of it) and `Intact` (a unit heard from end to end is found in `calls`
as its frames, and nowhere else). For the last, what was dispatched for a unit is compared with the pieces between two
starts place by place (`Placed`), which also shows that another unit's calls cannot contain them. Assumptions: the PIDs
differ, the bounds are numbers, `Wrap` is even, units are not empty, and a unit with an IDR slice starts with its
parameter sets, of which a PPS is the last and not the only one. That is what encoders send and what the reader needs:
it announces at a PPS, and at none that comes first.

The same module proves the NAL loop right for access units of any length. Its invariant (`Scanned`, `Found`) speaks of
`00 00 01` alone: what was found so far are the stretches between consecutive such codes below `i`. That every code has a
fourth zero byte in front enters only at the end, where a stretch less one byte becomes a NAL. Assumption: 0 and 1 are
bytes and bytes are numbers.

**WebrtcSessionProofs.** For any number of browsers, packets and faults. Four invariants over `TypeOK`. `Halves`: the
globals agree, and what protocols took from them, as long as no offer was abandoned. `Voice`: only the registered
publisher has subscribers and it stays registered, so what is under way or accepted came from it. `Once`: a packet
that is under way although libsrtp has accepted it was delivered twice. `InStep`: as long as nothing of a handshake was
repeated, each of its datagrams is under way only between the step that sends it and the one that takes it, so none is
left for a protocol that is done. Assumptions: `None` is not a browser, the bounds are numbers.

**MediaFilesProofs.** As long as the publisher was not replaced, a segment map whose track was cut is not empty
(`CutsFill`) and so is that of every track a player was told of (`ToldOf`): room is made only for a segment that is
stored in the same step, and the MPD a player learns from is written only when both tracks have been cut, since it needs
`DASH_CACHE` of each. For the files themselves `FilesInv` ties what the muxers hold to what they were given: the samples
of a track are the media consumed since its last cut, the segments kept are the ones cut last, and the numbers in the
names grow by one. `TimesInv` says that while the clock was not set back the times in the files are sums of the media's
(`Timed`); from it the fragments tile. `FileInv` follows the mp4 file while it is built (`FileBuilding`): what lies at an
offset is what the sample tables count up to there. The sums and choices in it are recursive functions; that a sum over
a chunk is the difference of two sums (`TotalIs`), that chunks partition the samples (`ChunksOfIs`) and the like is
shown by looking at the smallest number for which it fails. From the three follow `TimeShiftBufferHeld`,
`FragmentsTile`, `InitFitsSegments` and `SamplesWhereTablesSay`. Assumptions: `DASH_CACHE` is positive, the steps of the
media clock are numbers, `None` is no number, the preamble of a file has a length.

**RtmpChunkProofs.** Sender and receiver keep the same state per chunk stream, but at different times: between them is
what is under way. The invariant looks ahead: were the receiver to take all that is under way, byte by byte, it would
never misread (no chunk of another length than was sent, no time stamp read where none was written) and would end in
the state the sender is in now. `Spec` adds to the far end of what is under way and takes from the near one, so each
action keeps it. `ChunkBoundariesAgree`, `TimestampsFollow` and the refinement of `MessageChannel` follow. Assumptions:
chunk sizes are positive, the width of the narrow time stamp divides that of the wide one, messages have lengths,
the bounds are numbers.

**FirstRequestProofs.** For requests and frames of any length and cuts anywhere; one invariant per kind of port.

`HandshakeInStep`: how much of the client's bytes the session has used follows from `handshake_status_`, and the rest is
in the buffer and on the wire (`HandshakeTypes`, `BeforeReply`, `InStep`). `TagsChain`: the sizes kept from the last tag
are those of the last tag sent (`TagsInv`).

`AnsweredAsAsked` rests on what the parsers' loops do to a request of the shape `HttpRequest`. These are recursive
functions; that one over `a \o b` is the one over `b` begun where `a` left it is shown from the recursion with the least
place at which it fails, and from it what each loop makes of a URL, a request line, the header lines (`UrlPath`,
`RequestKey`, `ScanLines`), and that the whole request ends `Decode` at its last byte and no earlier one
(`ScanWhole`, `ScanPart`). Then:

- HTTP-FLV and files (`PageInv`): the parser is what a scan of the bytes read so far makes of it, and the buffer and the
  wire hold the rest (`Pending`); or the request was answered and nothing is left.
- WebSocket (`SocketInv`): the same until the answer; from then on the messages heard are those of the first frames, and
  the buffer and the wire hold the bytes of the others. The lengths of 7 and 16 bits are read back as written, a masked
  message is unmasked, and a frame that has not all come is left where it is.
- HLS and DASH (`StreamInv`): nothing is kept between reads. Either the first read took the request, and the fields cut
  out of the request line are those of the request (`HlsGives`, `DashGives`), or what is left of the request has no method
  in it and is never taken for one (`QuietRest`, `QuietScan`).

Assumptions: words are not separators or methods; a request has at most one key, without a colon; frames are shorter than
64K, so that their length has 7 or 16 bits (they carry offers); HLS and DASH clients ask for at most two directories and no query, a DASH client
for a track or a track and a time; streams have names of one word; exclusive or is its own inverse.

The type invariants are theorems of the other modules (`...TypeCorrect`, `BufferStaysInBounds`), and so is that no
unwritten byte of a buffer is ever read (`NoGarbageRead`); the runs spend their time on the other properties.

Only model-checked: liveness, and with it `BufferedIsSent`, `ClosedIsDeleted` and `SessionsEstablished`, which is beyond
the prover and stays with TLC. Every safety property of every passing run is a theorem.

## 6. Where the code and its comments disagree, and what else was seen

Two comments are refuted by runs:

- `EXT-X-MEDIA-SEQUENCE` (`media_muxer.cpp:86`) is the number of the *last* segment of the list; the example at the
  top of the function gives that of the first. Run `MCMediaSequence`.
- The comments over the trims (`media_muxer.cpp:530`, `562`) say that once the queue is full it stays full. A trim that
  takes a key frame erases a segment, and the test requires more than ten. Run `MCOnceFull`.

No document of the repository says otherwise of the following, so no run expects a violation; where a property is
concerned it names the case as an exception.

- RTMP and registry: a second `play` on a connection adds it to another publisher's set while the first still holds it
  (`rtmp_protocol.cpp:1176`). A version of RTMP other than 3 ends the process by `assert(false)` (`HandshakeInStep`).
  What the socket does not take of the handshake reply stays in front of what the client says next. A full chunk header
  does not reset `timestamp_delta` (`:422`).
- Media muxer: codec headers that change are stored but not sent to players that were served (`media_muxer.cpp:604`);
  without video no segment is cut, and the audio queue and the only segment grow for ever (`:533`); each slice of a key
  picture is a key frame to the muxer (`:541`).
- Loop: `OnRead` reads until EAGAIN, so a peer that never stops sending keeps every other waiting
  (`tcp_socket.cpp:46`). A fatal `SSL_write` leaves write interest on (`ssl_socket.cpp:103`).
- HTTP: `Decode` keeps `path_` and its positions after a request, so a second one on the connection is not
  recognised. On a HTTP-FLV connection it would be answered with a 404 in the middle of the stream. `Connection: close` is
  announced and not carried out by the file and DASH handlers. A `?` makes the parser forget the last part of the path: a
  FLV request with a query is not served. HLS sends `.ts` with the content type of a playlist.
- WebSocket: `Send` writes 16 bits of length for messages of any length.
- DASH: no MPD for a stream without audio; `video_mpd_info_` and `audio_mpd_info_` are never trimmed. After the
  publisher's clock is set back no video segment is cut until it passes the old times (`setBack` in `TimeShiftBufferHeld`).
- MP4: the chunk offsets of a muxer's first file start at `chunk_offset_`, which no constructor sets (`began` in
  `SamplesWhereTablesSay`). The run lengths of `stts` are one sample behind. A finished file is freed: only a dump that is
  compiled out would keep it.
- WebRTC: the exceptions in `CredentialsOfOneOffer`, `EndsOnlyByRepetition`, `RelayedIntact` and `Stranded`. `send_map_` is
  never filled, so a NACK is never answered.

## 7. Not modelled

- Pure functions without state: AMF0, Any, SDP text, bit buffers, base64, CRC, util. Each is sequential, has no order
  or interleaving to explore, and would be a transliteration; unit tests reach them.
- Cryptography: handshake digests and DH, DTLS, SRTP, TLS records, STUN integrity. It is external or abstracted to
  whether it succeeds.
- The layout of TS, FLV, MP4 and RTP bytes; times of samples in MP4 (`stts`, `ctts`); adaptation fields and what a table
  behind one is misread as; null packets (`TsReader` collects them and never parses them).
- A second HTTP request on a connection, HTTP chunked bodies (the code has none), aggregate RTMP messages,
  acknowledgements, and extended timestamps as encoders of others write them.
- The client and push roles of RTMP (nothing starts them; the client's handshake copies C2 shifted by four bytes),
  `ConnectIp` and `ConnectHost`, timers (no handler is attached), logging, option parsing, the stand-alone tools.
- TLS sockets, SRT sockets and their epoll: planned, see 8.
- Fragmented and control WebSocket frames, which the code does not tell from others; binding requests of the server,
  which nothing sends; the DTLS accept side, which nothing enters.

## 8. Plan

Done: `MediaMuxer`, `StreamRouting`, `IoBuffer`, `EventLoop`, `NalSplit`, `WebrtcSession`, `MediaFiles`, `RtmpChunk`
(a refinement of `MessageChannel`), `TsReader` and `FirstRequest`, all with proofs. Left, in this order:

1. `SslSocket` and the SRT loop, composed with `EventLoop`'s interest set.
2. `TsReader` composed with `MediaMuxer` (each slice of a key picture is a key frame to it).
3. A second request on a HTTP connection, with the stream that is being sent on it.

## 9. Running

`tlc -config X.cfg MCX.tla` for each run of `PROJECT.json`, `tlapm XProofs.tla` for the proofs. The largest runs
(`MCWebrtcSession`, `MCTsReader`) take about a minute; the proofs take a few minutes each, `FirstRequestProofs` about ten.
