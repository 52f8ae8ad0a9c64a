----------------------------- MODULE HttpHandlers -----------------------------
(***************************************************************************)
(* What the HTTP handlers do with the bytes in their buffer: HttpFlv-,     *)
(* HttpFile-, WebSocket-, HttpHls- and HttpDashProtocol::Parse.  Each      *)
(* result has the session after it, what is left in the buffer, what was   *)
(* sent (said), and what has come of it (heard): a subscription, or the    *)
(* message of a WebSocket frame.                                           *)
(***************************************************************************)
EXTENDS HttpParse

CONSTANTS
  FLV, HTML, TS, M3U8, M4S, MP4, MPD,     \* file types
  Audio, Video, Underscore,
  SecWebSocketKey,                        \* a header
  Streams,          \* <<app, stream>>, each a sequence, that have a publisher
  Files,            \* names of the pages there are
  Held,             \* <<type, name>> the muxers of every publisher hold
  XorOf(_, _)         \* of two bytes

ASSUME XorAssumption ==
  \A a, b \in 0 .. 255 : XorOf(a, b) \in 0 .. 255 /\ XorOf(XorOf(a, b), b) = a

Result(session, ret, rest, said, heard) ==
  [session |-> session, ret |-> ret, rest |-> rest, said |-> said, heard |-> heard]

Waits(session, rest) == Result(session, kNoEnoughData, rest, <<>>, <<>>)

\* HttpSender: the status line, the Connection header, the content.
Response(status, connection, content) ==
  [status |-> status, connection |-> connection, content |-> content]

NotFound == Response(404, "close", "no found")

-----------------------------------------------------------------------------
IsFlvRequest(p) ==
  FileType(p) = <<FLV>> /\ Len(p.path) = 2 /\ p.path[1] # <<>> /\ FileName(p) # <<>>

\* Who asks for a publisher that is not there is not answered.
FlvAnswer(s, d) ==
  LET t == [s EXCEPT !.parser = d.parser]
      stream == <<d.parser.path[1], FileName(d.parser)>>
  IN  IF d.ret # kSuccess THEN Result(t, d.ret, d.rest, <<>>, <<>>)
      ELSE IF ~IsFlvRequest(d.parser) THEN Result(t, kSuccess, d.rest, <<NotFound>>, <<>>)
      ELSE IF stream \notin Streams THEN Result(t, kError, d.rest, <<>>, <<>>)
      ELSE Result(t, kSuccess, d.rest, <<Response(200, "keep-alive", "flv header")>>, <<stream>>)

FlvParse(s, bytes) == FlvAnswer(s, Decode(s.parser, bytes))

FileAnswer(s, d) ==
  LET t == [s EXCEPT !.parser = d.parser]
      found == FileType(d.parser) = <<HTML>> /\ FileName(d.parser) \in Files
  IN  IF d.ret # kSuccess THEN Result(t, d.ret, d.rest, <<>>, <<>>)
      ELSE Result(t, kSuccess, d.rest,
                  <<IF found THEN Response(200, "close", FileName(d.parser)) ELSE NotFound>>, <<>>)

FileParse(s, bytes) == FileAnswer(s, Decode(s.parser, bytes))

-----------------------------------------------------------------------------
(* WebSocket.                                                              *)

Upgrade(s, d) ==
  LET t == [s EXCEPT !.parser = d.parser, !.upgrade = d.ret = kSuccess]
      key == <<SecWebSocketKey>>
  IN  IF d.ret # kSuccess THEN Result(t, d.ret, d.rest, <<>>, <<>>)
      ELSE IF key \notin DOMAIN d.parser.header THEN Result(t, kClose, d.rest, <<>>, <<>>)
      ELSE Result(t, kSuccess, d.rest,
                  <<Response(101, "upgrade", d.parser.header[key])>>, <<>>)

\* Of the two bytes of the header, and of the length behind them.
Masked(header) == header[2] >= 128
PayloadLen(header) == header[2] % 128
PeekLen(header) == CASE PayloadLen(header) = 126 -> 2
                     [] PayloadLen(header) = 127 -> 8
                     [] OTHER -> 0

BigEndian(bytes) ==
  LET value[k \in 0 .. Len(bytes)] == IF k = 0 THEN 0 ELSE value[k - 1] * 256 + bytes[k]
  IN  value[Len(bytes)]

ExtendedLength(bytes) ==
  IF PeekLen(bytes) = 0 THEN PayloadLen(bytes)
  ELSE BigEndian(SubSeq(bytes, 3, 2 + PeekLen(bytes)))

\* Four bytes at a time, then what is left.
Unmask(mask, data) ==
  [i \in DOMAIN data |-> XorOf(data[i], mask[((i - 1) % 4) + 1])]

Complete(bytes) ==
  /\ Len(bytes) >= 2
  /\ Len(bytes) >= 2 + PeekLen(bytes)
  /\ Len(bytes) >= 2 + PeekLen(bytes) + ExtendedLength(bytes) + (IF Masked(bytes) THEN 4 ELSE 0)

\* The message is an offer; one that succeeds (OnOffer of WebrtcSession).
Frame(s, bytes) ==
  LET start == 2 + PeekLen(bytes)
      len == ExtendedLength(bytes)
      data == SubSeq(bytes, start + 1, start + len + (IF Masked(bytes) THEN 4 ELSE 0))
      message == IF Masked(bytes) THEN Unmask(SubSeq(data, 1, 4), SubSeq(data, 5, Len(data)))
                 ELSE data
  IN  Result(s, kSuccess, SubSeq(bytes, start + Len(data) + 1, Len(bytes)), <<>>, <<message>>)

WebSocketParse(s, bytes) ==
  IF ~s.upgrade THEN Upgrade(s, Decode(s.parser, bytes))
  ELSE IF Complete(bytes) THEN Frame(s, bytes)
  ELSE Waits(s, bytes)

-----------------------------------------------------------------------------
(* HLS and DASH: all that is in the buffer is read, whatever comes of it.  *)

Content(type, name) == <<type, name>>

HlsAnswer(f) ==
  IF <<f.app, f.stream>> \notin Streams
  THEN Result(<<>>, kClose, <<>>, <<Response(404, "close", <<>>)>>, <<>>)
  ELSE IF f.type \notin {<<TS>>, <<M3U8>>} THEN Result(<<>>, kSuccess, <<>>, <<>>, <<>>)
  ELSE LET name == IF f.type = <<TS>> THEN f.name ELSE <<>>
       IN  IF Content(f.type, name) \in Held
           THEN Result(<<>>, kSuccess, <<>>,
                       <<Response(200, "keep-alive", Content(f.type, name))>>, <<>>)
           ELSE Result(<<>>, kClose, <<>>, <<Response(404, "close", <<>>)>>, <<>>)

\* What names a segment or an initialisation segment, <<>> if nothing does:
\* a track, and for a segment its time.
Track(part) == IF Has(Video, part) THEN <<Video>>
               ELSE IF Has(Audio, part) THEN <<Audio>> ELSE <<>>

TwoPieces(name) == Has(Underscore, name) /\ ~Has(Underscore, OtherPieces(name, Underscore))

DashName(f) ==
  LET track == Track(FirstPiece(f.name, Underscore))
  IN  CASE f.type = <<M4S>> ->
             IF ~TwoPieces(f.name) \/ track = <<>> THEN <<>>
             ELSE track \o SecondPiece(f.name, Underscore)
        [] f.type = <<MP4>> -> Track(f.name)
        [] OTHER -> <<>>

\* No answer closes the connection.
DashAnswer(f) ==
  LET content == Content(f.type, DashName(f))
      said == IF <<f.app, f.stream>> \notin Streams THEN <<Response(404, "close", "no found")>>
              ELSE IF f.type \notin {<<M4S>>, <<MP4>>, <<MPD>>} THEN <<>>
              ELSE IF content \in Held THEN <<Response(200, "keep-alive", content)>>
              ELSE <<Response(404, "close", "no found")>>
  IN  Result(<<>>, kSuccess, <<>>, said, <<>>)

Asked(f) == f.app # <<>> /\ f.stream # <<>>

Read(d, answer) ==
  IF d.ret # kSuccess THEN Waits(<<>>, <<>>)
  ELSE IF Asked(d.fields) THEN answer
  ELSE Result(<<>>, kSuccess, <<>>, <<>>, <<>>)

HlsParse(s, bytes) ==
  LET d == OneRead("Hls", bytes) IN Read(d, HlsAnswer(d.fields))
DashParse(s, bytes) ==
  LET d == OneRead("Dash", bytes) IN Read(d, DashAnswer(d.fields))
=============================================================================
