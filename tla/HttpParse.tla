------------------------------ MODULE HttpParse ------------------------------
(***************************************************************************)
(* How the server reads a HTTP request: HttpParse::Decode, which goes on   *)
(* where the last read ended, for HTTP-FLV, files and WebSocket, and the   *)
(* copies of its loop in HttpHlsProtocol and HttpDashProtocol, which know  *)
(* one read only and do something else at the end of a line.               *)
(*                                                                         *)
(* The characters the parsers look for are bytes; a word between two of    *)
(* them is one token, so that a read never ends inside a word (all of them *)
(* append to key and value what is no such character).  The arguments      *)
(* behind '?', which nothing asks for, are not kept.                       *)
(***************************************************************************)
EXTENDS Integers, Sequences

CONSTANTS GET, HEAD     \* the words that mark a request line

CR == 13
LF == 10
Space == 32
Dot == 46
Slash == 47
Colon == 58
Query == 63

kSuccess == "kSuccess"
kError == "kError"
kClose == "kClose"
kNoEnoughData == "kNoEnoughData"

\* What HLS and DASH look for in the request line, and how far in it they are.
NoFields == [spaces |-> 0, slashes |-> 0, dots |-> 0,
             app |-> <<>>, stream |-> <<>>, name |-> <<>>, type |-> <<>>]

\* n and the positions are counted from the first byte of the connection (for
\* HLS and DASH, of the read); between two reads n is next_pos_.
Parser(loop) ==
  [loop |-> loop, r_pos |-> -1, n_pos |-> -1, m_pos |-> -1, key_value |-> FALSE,
   key |-> <<>>, value |-> <<>>, path |-> <<>>, header |-> <<>>, fields |-> NoFields,
   n |-> 0, ret |-> kNoEnoughData]

HttpParser == Parser("Decode")

Has(word, key) == \E i \in DOMAIN key : key[i] = word

\* Util::SepStr: where its first piece ends, this piece, and the others.
Cut(input, sep) ==
  IF Has(sep, input)
  THEN CHOOSE i \in DOMAIN input : input[i] = sep /\ \A j \in 1 .. i - 1 : input[j] # sep
  ELSE Len(input) + 1

FirstPiece(input, sep) == SubSeq(input, 1, Cut(input, sep) - 1)
OtherPieces(input, sep) == SubSeq(input, Cut(input, sep) + 1, Len(input))
SecondPiece(input, sep) == FirstPiece(OtherPieces(input, sep), sep)

-----------------------------------------------------------------------------
(* The request line, for Decode.                                           *)

\* '/' ends a part of the path; '?' ends the path and its last part is then
\* forgotten.
NoPath == [first |-> TRUE, query |-> FALSE, part |-> <<>>, parts |-> <<>>]

PathChar(s, c) ==
  CASE c = Slash /\ ~s.first -> [s EXCEPT !.parts = Append(@, s.part), !.part = <<>>]
    [] c = Slash /\ s.first -> [s EXCEPT !.first = FALSE]
    [] c = Query -> [s EXCEPT !.first = FALSE, !.query = TRUE]
    [] OTHER -> [s EXCEPT !.first = FALSE, !.part = IF s.query THEN @ ELSE Append(@, c)]

PathScan(s, url) ==
  LET after[k \in 0 .. Len(url)] == IF k = 0 THEN s ELSE PathChar(after[k - 1], url[k])
  IN  after[Len(url)]

PathOf(url) ==
  LET end == PathScan(NoPath, url)
  IN  IF ~end.query /\ end.part # <<>> THEN Append(end.parts, end.part) ELSE end.parts

RequestLine(p) ==
  IF ~Has(Space, p.key) THEN p
  ELSE IF FirstPiece(p.key, Space) # <<GET>> THEN [p EXCEPT !.ret = kError]
  ELSE [p EXCEPT !.path = @ \o PathOf(SecondPiece(p.key, Space))]

-----------------------------------------------------------------------------
(* The request line, for HLS and DASH: it is not split at its spaces, what *)
(* it holds is told by the spaces, slashes and dots in front of it.        *)

Field(s, c) ==
  CASE c = Space -> [s EXCEPT !.spaces = @ + 1]
    [] c = Slash -> [s EXCEPT !.slashes = @ + 1]
    [] c = Dot -> [s EXCEPT !.dots = @ + 1]
    [] OTHER ->
         IF s.slashes = 1 THEN [s EXCEPT !.app = Append(@, c)]
         ELSE IF s.slashes = 2 THEN [s EXCEPT !.stream = Append(@, c)]
         ELSE IF s.slashes = 3 /\ s.spaces < 2 /\ s.dots = 1 THEN [s EXCEPT !.type = Append(@, c)]
         ELSE IF s.slashes = 3 /\ s.spaces < 2 THEN [s EXCEPT !.name = Append(@, c)]
         ELSE s

FieldScan(s, key) ==
  LET after[k \in 0 .. Len(key)] == IF k = 0 THEN s ELSE Field(after[k - 1], key[k])
  IN  after[Len(key)]

Fields(fields, key) ==
  FieldScan([fields EXCEPT !.spaces = 0, !.slashes = 0, !.dots = 0], key)

-----------------------------------------------------------------------------
(* The loop.                                                               *)

NextLine(p) ==
  IF p.ret = kError THEN p
  ELSE [p EXCEPT !.key = <<>>, !.value = <<>>, !.key_value = FALSE]

IsRequestLine(p) == Has(GET, p.key) \/ (p.loop = "Dash" /\ Has(HEAD, p.key))

\* The lines behind the request line are nothing to HLS and DASH.
EndOfLine(p) ==
  NextLine(
    IF p.loop = "Decode" /\ IsRequestLine(p) THEN RequestLine(p)
    ELSE IF p.loop = "Decode" THEN
      [p EXCEPT !.header = [k \in DOMAIN @ \cup {p.key} |-> IF k = p.key THEN p.value ELSE @[k]]]
    ELSE IF IsRequestLine(p) THEN [p EXCEPT !.fields = Fields(@, p.key)]
    ELSE p)

Add(p, c) == IF p.key_value THEN [p EXCEPT !.value = Append(@, c)]
             ELSE [p EXCEPT !.key = Append(@, c)]

Newline(p) ==
  IF p.n = p.r_pos + 1 /\ p.n = p.n_pos + 2 THEN [p EXCEPT !.ret = kSuccess]
  ELSE IF p.n = p.r_pos + 1 THEN [EndOfLine(p) EXCEPT !.n_pos = p.n]
  ELSE [p EXCEPT !.n_pos = p.n]

\* HLS and DASH drop the colon in a value, which they do not look at.
Char(p, c) ==
  CASE c = CR -> [p EXCEPT !.r_pos = p.n]
    [] c = LF -> Newline(p)
    [] c = Colon -> [(IF p.key_value THEN Add(p, c) ELSE p)
                       EXCEPT !.m_pos = p.n, !.key_value = TRUE]
    [] c = Space /\ p.m_pos + 1 = p.n -> p
    [] OTHER -> Add(p, c)

Loop(p, c) ==
  IF p.ret # kNoEnoughData THEN p ELSE [Char(p, c) EXCEPT !.n = @ + 1]

Scan(p, bytes) ==
  LET after[k \in 0 .. Len(bytes)] == IF k = 0 THEN p ELSE Loop(after[k - 1], bytes[k])
  IN  after[Len(bytes)]

-----------------------------------------------------------------------------
(* Decode: the parser after it, what it returns, and what is left in the   *)
(* buffer.  next_pos_ is kept only when all has been read.                 *)
Decoded(p, q, bytes) ==
  [parser |-> IF q.ret = kNoEnoughData THEN q
              ELSE [q EXCEPT !.n = p.n, !.ret = kNoEnoughData],
   ret    |-> q.ret,
   rest   |-> IF q.ret = kError THEN bytes ELSE SubSeq(bytes, q.n - p.n + 1, Len(bytes))]

SlipDecode(p, bytes) ==              \* each read from 0
  Decoded([p EXCEPT !.n = 0], Scan([p EXCEPT !.n = 0], bytes), bytes)
Decode(p, bytes) == Decoded(p, Scan(p, bytes), bytes)

\* file_name_ and file_type_: the last part of the path, cut at its first dot.
LastPart(p) == IF p.path = <<>> THEN <<>> ELSE p.path[Len(p.path)]
FileName(p) == FirstPiece(LastPart(p), Dot)
FileType(p) == OtherPieces(LastPart(p), Dot)

\* HttpHlsProtocol::Parse and HttpDashProtocol::Parse.
OneRead(loop, bytes) == Scan(Parser(loop), bytes)
=============================================================================
