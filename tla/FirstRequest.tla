----------------------------- MODULE FirstRequest -----------------------------
(***************************************************************************)
(* A connection from its first byte on: TCP hands the server what the      *)
(* client wrote in reads that end anywhere (TcpSocket::OnRead), and after  *)
(* each the handler of the port parses what is in read_buffer_ until no    *)
(* more of it can be used (HandleRead).                                    *)
(*                                                                         *)
(* External: the client.  A HTTP client makes one request; a WebSocket     *)
(* client sends its frames with it, or waits for the answer; a RTMP client *)
(* waits for S1 before it sends C2, and for S2 before it goes on.  The     *)
(* publisher of a stream that is played over HTTP-FLV is StreamRouting's,  *)
(* any Send may come.                                                      *)
(***************************************************************************)
EXTENDS HttpHandlers, RtmpHandshake, FlvTags

CONSTANTS
  Words,            \* what stands between the marks of a request
  HTTP, One,        \* two of them
  Requests,         \* protocol -> the requests a client may make
  Versions, Bodies, \* what C0 and the last part of C1 may be
  Sizes, Times,     \* of the frames a player is sent
  MaxRead,          \* bound: a read takes that much at most, or all there is
  MaxTags           \* bound: tags sent to a player

VARIABLES
  protocol,    \* of the port
  request,     \* what the client asks
  wire,        \* what of it no read has taken
  reads,       \* reads that took some of it, 2 for more
  read_buffer_,
  handling,    \* HandleRead is not through with what was read
  session,     \* the handler
  said,        \* what the server sent
  heard,       \* what came of it
  state,       \* "open", "closed", or "aborted" by an assertion
  short,       \* the socket did not take the whole reply of the handshake
  flv,         \* what the player of a stream is sent
  played       \* the times of the frames it was sent for

vars == <<protocol, request, wire, reads, read_buffer_, handling, session, said, heard, state,
          short, flv, played>>

-----------------------------------------------------------------------------
(* The client.                                                             *)

CRLF == <<CR, LF>>

Directories(dirs) == FlattenSeq([i \in DOMAIN dirs |-> <<Slash, dirs[i]>>])

RequestUrl(q) == Directories(q.dirs) \o <<Slash>> \o q.name \o <<Dot, q.type>> \o q.query

Header(h) == <<h[1], Colon, Space>> \o h[2] \o CRLF

Lines(headers) == FlattenSeq([i \in DOMAIN headers |-> Header(headers[i])])

\* A WebSocket frame; masking is its own inverse.
FrameLength(bit, len) ==
  IF len < 126 THEN <<bit + len>> ELSE <<bit + 126, len \div 256, len % 256>>

FrameBytes(f) ==
  IF f.mask = <<>> THEN <<129>> \o FrameLength(0, Len(f.message)) \o f.message
  ELSE <<129>> \o FrameLength(128, Len(f.message)) \o f.mask \o Unmask(f.mask, f.message)

FramesBytes(frames) == FlattenSeq([i \in DOMAIN frames |-> FrameBytes(frames[i])])

Bytes(q) ==
  <<q.method, Space>> \o RequestUrl(q) \o <<Space, HTTP, Slash, One, Dot, One>> \o CRLF
  \o Lines(q.headers) \o CRLF \o (IF q.written THEN FramesBytes(q.frames) ELSE <<>>)

\* C0 and C1.
Hellos == {<<version, "c1.time", zero, body>> :
             version \in Versions, zero \in {"0", "c1.version"}, body \in Bodies}

C2 == <<"c2.time", "c2.time2", "c2.body">>
Chunks == <<"connect", "createStream">>

-----------------------------------------------------------------------------
(* What a client may ask for.                                              *)

Marks == {CR, LF, Space, Dot, Slash, Colon, Query}

ASSUME WordsAssumption ==
  /\ Words \cap Marks = {} /\ {GET, HEAD} \cap (Words \cup Marks) = {} /\ GET # HEAD
  /\ {HTTP, One, Audio, Video, Underscore} \subseteq Words
  /\ Audio # Video /\ Underscore \notin {Audio, Video}
  /\ M4S # MP4 /\ M4S # MPD /\ MP4 # MPD

\* The value of a header ends with its line, that of the key before a colon.
\* A WebSocket client has one key, and no other client sends frames; they have
\* been written, with the request or since then, or it waits.
Values == (Words \cup Marks) \ {CR, LF}

HttpRequest ==
  [method : Words \cup {GET, HEAD}, dirs : Seq(Words), name : Seq(Words) \ {<<>>}, type : Words,
   query : Seq(Words \cup {Query}), headers : Seq(Words \X Seq(Values)),
   frames : Seq([message : Seq(0 .. 255), mask : {<<>>} \cup [1 .. 4 -> 0 .. 255]]),
   written : BOOLEAN]

Keys(q) == {i \in DOMAIN q.headers : q.headers[i][1] = SecWebSocketKey}

\* A HLS or DASH client asks for app/stream/file, or less than that; a DASH
\* client for a track, or for a track and a time.
IsFileOfStream(q) == Len(q.dirs) <= 2 /\ q.query = <<>>

IsDashName(name) ==
  /\ name[1] # Underscore
  /\ \/ Len(name) = 1
     \/ Len(name) = 3 /\ name[2] = Underscore /\ name[3] \notin {Underscore, Audio, Video}

IsRequest(p, q) ==
  /\ q \in HttpRequest
  /\ q.query # <<>> => q.query[1] = Query
  /\ \A i, j \in Keys(q) : i = j
  /\ \A i \in Keys(q) : ~Has(Colon, q.headers[i][2])
  /\ \A i \in DOMAIN q.frames : Len(q.frames[i].message) < 65536
  /\ p # "websocket" => q.frames = <<>> /\ q.written
  /\ p \in {"hls", "dash"} => IsFileOfStream(q)
  /\ p = "dash" => IsDashName(q.name)

ASSUME RequestsAssumption ==
  /\ DOMAIN Requests \subseteq {"flv", "file", "websocket", "hls", "dash"}
  /\ \A p \in DOMAIN Requests : \A q \in Requests[p] : IsRequest(p, q)

\* Streams have one-word names; a segment is of a track and has a time.
ASSUME StreamsAssumption ==
  /\ \A stream \in Streams : \E app, name \in Words : stream = <<<<app>>, <<name>>>>
  /\ \A held \in Held : held[1] = <<M4S>> =>
       \E track \in {Audio, Video}, time \in Words : held[2] = <<track, time>>

ASSUME FramesAssumption ==
  /\ Sizes \subseteq Nat /\ Times \subseteq Nat /\ \A dts \in Times : dts \div k24 < 256
  /\ MaxRead \in Nat /\ MaxTags \in Nat

-----------------------------------------------------------------------------
Init ==
  /\ \/ \E p \in DOMAIN Requests : \E q \in Requests[p] :
          /\ protocol = p /\ request = q /\ wire = Bytes(q)
          /\ session = IF p \in {"hls", "dash"} THEN <<>>
                       ELSE [parser |-> HttpParser, upgrade |-> FALSE]
     \/ \E hello \in Hellos :
          /\ protocol = "rtmp" /\ request = hello /\ wire = hello
          /\ session = Session
  /\ reads = 0 /\ read_buffer_ = <<>> /\ handling = FALSE
  /\ said = <<>> /\ heard = <<>>
  /\ state = "open" /\ short = FALSE
  /\ flv = NoTags /\ played = <<>>

\* A RTMP client that has been sent so much of the reply goes on, a WebSocket
\* client when it has been sent the answer.
GoOn ==
  /\ state = "open"
  /\ \/ /\ protocol = "websocket" /\ said # <<>> /\ ~request.written
        /\ request' = [request EXCEPT !.written = TRUE]
        /\ wire' = wire \o FramesBytes(request.frames)
     \/ /\ protocol = "rtmp"
        /\ Len(said) >= s0_len + s1_len /\ Len(request) = s0_len + s1_len
        /\ request' = request \o C2 /\ wire' = wire \o C2
     \/ /\ protocol = "rtmp"
        /\ Len(said) >= s0_len + s1_len + s2_len
        /\ Len(request) = s0_len + s1_len + s2_len
        /\ request' = request \o Chunks /\ wire' = wire \o Chunks
  /\ UNCHANGED <<protocol, reads, read_buffer_, handling, session, said, heard, state, short,
                 flv, played>>

-----------------------------------------------------------------------------
(* The server.                                                             *)

OnRead ==
  /\ ~handling /\ state = "open"
  /\ \E n \in 1 .. MaxRead \cup {Len(wire)} :
       /\ n > 0 /\ n <= Len(wire)
       /\ read_buffer_' = read_buffer_ \o SubSeq(wire, 1, n)
       /\ wire' = SubSeq(wire, n + 1, Len(wire))
  /\ reads' = IF reads = 2 THEN 2 ELSE reads + 1
  /\ handling' = TRUE
  /\ UNCHANGED <<protocol, request, session, said, heard, state, short, flv, played>>

Parse(s, bytes) ==
  CASE protocol = "flv" -> FlvParse(s, bytes)
    [] protocol = "file" -> FileParse(s, bytes)
    [] protocol = "websocket" -> WebSocketParse(s, bytes)
    [] protocol = "hls" -> HlsParse(s, bytes)
    [] protocol = "dash" -> DashParse(s, bytes)

After(ret) ==
  CASE ret \in {kClose, kError} -> "closed"
    [] ret = "assert" -> "aborted"
    [] OTHER -> "open"

\* One turn of do { ret = Parse(io_buffer); } while (ret == kSuccess).
HandleHttp ==
  /\ protocol # "rtmp" /\ handling
  /\ \E r \in {Parse(session, read_buffer_)} :
       /\ session' = r.session
       /\ read_buffer_' = r.rest
       /\ said' = said \o r.said /\ heard' = heard \o r.heard
       /\ state' = After(r.ret) /\ handling' = (r.ret = kSuccess)
  /\ UNCHANGED <<protocol, request, wire, reads, short, flv, played>>

Replied(s) == s.handshake_status \in {"kStatus_2", "kStatus_Done"}

\* room: what the socket takes of a reply; all of it, or some.
HandleRtmp ==
  /\ protocol = "rtmp" /\ handling
  /\ \E room \in 0 .. 7 : \E r \in {RtmpParse(session, read_buffer_, room)} :
       /\ session' = r.session
       /\ read_buffer_' = r.rest
       /\ said' = said \o r.sent
       /\ state' = After(r.ret) /\ handling' = (r.ret = kSuccess)
       /\ short' = (short \/ (~Replied(session) /\ Replied(r.session) /\ room < 7))
  /\ UNCHANGED <<protocol, request, wire, reads, heard, flv, played>>

\* The publisher sends to its subscriber.
Send ==
  /\ protocol = "flv" /\ heard # <<>> /\ ~handling /\ Len(flv.tags) < MaxTags
  /\ \E size \in Sizes :
       \/ /\ flv' \in {SendMetaData(flv, size), SendVideoHeader(flv, size),
                       SendAudioHeader(flv, size)}
          /\ played' = Append(played, 0)
       \/ \E dts \in Times :
            /\ flv' \in {SendVideo(flv, size, dts), SendAudio(flv, size, dts)}
            /\ played' = Append(played, dts)
  /\ UNCHANGED <<protocol, request, wire, reads, read_buffer_, handling, session, said, heard,
                 state, short>>

Next == OnRead \/ HandleHttp \/ HandleRtmp \/ GoOn \/ Send

Spec == Init /\ [][Next]_vars

-----------------------------------------------------------------------------
(* What the client should get, told from what it asks and not from the     *)
(* bytes of it.                                                            *)

Served(status, connection, content) ==
  [said |-> <<Response(status, connection, content)>>, heard |-> <<>>, state |-> "open"]
Silence(state_) == [said |-> <<>>, heard |-> <<>>, state |-> state_]

FlvExpected(q) ==
  LET asks == q.method = GET /\ Len(q.dirs) = 1 /\ q.type = FLV /\ q.query = <<>>
  IN  IF ~asks THEN Served(404, "close", "no found")
      ELSE IF <<<<q.dirs[1]>>, q.name>> \in Streams
      THEN [Served(200, "keep-alive", "flv header") EXCEPT
              !.heard = <<<<<<q.dirs[1]>>, q.name>>>>]
      ELSE Silence("closed")

FileExpected(q) ==
  IF q.method = GET /\ q.type = HTML /\ q.query = <<>> /\ q.name \in Files
  THEN Served(200, "close", q.name) ELSE Served(404, "close", "no found")

WebSocketExpected(q) ==
  IF Keys(q) = {} THEN Silence("closed")
  ELSE [Served(101, "upgrade", q.headers[CHOOSE i \in Keys(q) : TRUE][2]) EXCEPT
          !.heard = IF q.written THEN [i \in DOMAIN q.frames |-> q.frames[i].message] ELSE <<>>]

Published(q) ==
  Len(q.dirs) = 2 /\ <<<<q.dirs[1]>>, <<q.dirs[2]>>>> \in Streams

HlsExpected(q) ==
  LET content == <<<<q.type>>, IF q.type = TS THEN q.name ELSE <<>>>>
  IN  IF q.method # GET THEN Silence("open")
      ELSE IF Published(q) /\ q.type \notin {TS, M3U8} THEN Silence("open")
      ELSE IF Published(q) /\ content \in Held THEN Served(200, "keep-alive", content)
      ELSE [Served(404, "close", <<>>) EXCEPT !.state = "closed"]

DashExpected(q) ==
  LET name == CASE q.type = MPD -> <<>>
                [] q.type = M4S /\ Len(q.name) = 3 -> <<q.name[1], q.name[3]>>
                [] OTHER -> IF q.name[1] \in {Audio, Video} THEN <<q.name[1]>> ELSE <<>>
      content == <<<<q.type>>, name>>
  IN  IF q.method \notin {GET, HEAD} THEN Silence("open")
      ELSE IF Published(q) /\ q.type \notin {M4S, MP4, MPD} THEN Silence("open")
      ELSE IF Published(q) /\ content \in Held THEN Served(200, "keep-alive", content)
      ELSE Served(404, "close", "no found")

Expected ==
  CASE protocol = "flv" -> FlvExpected(request)
    [] protocol = "file" -> FileExpected(request)
    [] protocol = "websocket" -> WebSocketExpected(request)
    [] protocol = "hls" -> HlsExpected(request)
    [] protocol = "dash" -> DashExpected(request)

Got == [said |-> said, heard |-> heard, state |-> state]

-----------------------------------------------------------------------------
(* Properties.                                                             *)

\* However TCP cuts it, a HTTP-FLV, file or WebSocket client gets what it
\* asked for when all of it has come, the frames behind the request
\* included, which are not taken for a part of it.  A HLS or DASH client does
\* if one read took its request; if not, it is never answered, and never
\* wrongly.
AnsweredAsAsked ==
  protocol # "rtmp" /\ wire = <<>> /\ ~handling =>
    IF protocol \in {"hls", "dash"} /\ reads > 1 THEN Got = Silence("open")
    ELSE Got = Expected

\* What a client expects of S0, S1 and S2 (the RTMP specification, and for
\* the digests the comments in Parse).
ReplyTo(hello) ==
  IF hello[3] = "0" THEN <<hello[1], "s1.time", "0", "s1.fake", hello[2], "s1.time", hello[4]>>
  ELSE <<hello[1], "random", "random",
         IF hello[4] = "c1.digest0" THEN "s1.digest0" ELSE "s1.digest1", "random", "random",
         IF hello[4] = "c1.digest0" THEN "hash of c1.digest0" ELSE "hash of c1.digest1">>

\* Unless the socket does not take the whole reply, the client is sent S0, S1
\* and S2 made from its own C1 and nothing else, and the chunks are read from
\* the byte behind its C2 on, whether they came with it or not.  Only
\* another version of RTMP ends the process.
HandshakeInStep ==
  protocol = "rtmp" =>
    /\ state = "aborted" => request[1] # "3"
    /\ ~short =>
         /\ said \in {<<>>, ReplyTo(request)}
         /\ Replied(session) => said # <<>>
         /\ IsPrefix(session.heard, Chunks)
         /\ wire = <<>> /\ ~handling /\ Len(request) > 7 => session.heard = Chunks

\* Every tag says of itself and of the one before what was written of them,
\* and its time is that of the frame.
TagsChain ==
  \A i \in DOMAIN flv.tags :
    LET tag == flv.tags[i]
    IN  /\ tag.data_size = tag.lead + tag.data
        /\ tag.pre = IF i = 1 THEN 0
                     ELSE 11 + flv.tags[i - 1].lead + flv.tags[i - 1].data
        /\ tag.time + k24 * tag.timeExtended = played[i]
=============================================================================
