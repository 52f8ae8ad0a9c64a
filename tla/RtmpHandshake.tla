---------------------------- MODULE RtmpHandshake ----------------------------
(***************************************************************************)
(* The handshake of RtmpProtocol::Parse, as the server.  C0 is one token;  *)
(* C1, C2, S1 and S2 are three: the first four bytes, the next four, and   *)
(* the 1528 behind them.                                                   *)
(*                                                                         *)
(* The reply is written behind what is left in the buffer that was read,   *)
(* and the buffer sent from there: what the write to the socket does not   *)
(* take stays in it, in front of what the client says next.                *)
(*                                                                         *)
(* A digest is the scheme it is found by.  Keys and hashes are not         *)
(* modelled, but that the hash in S2 is over the client's digest.          *)
(***************************************************************************)
EXTENDS Integers, SequencesExt

s0_len == 1
s1_len == 3
s2_len == 3

Session == [handshake_status |-> "kStatus_0", version |-> "3", heard |-> <<>>]

Outcome(session, ret, rest, sent) ==
  [session |-> session, ret |-> ret, rest |-> rest, sent |-> sent]

NotEnough(s, bytes) == Outcome(s, "kNoEnoughData", bytes, <<>>)

Behind(bytes, len) == SubSeq(bytes, len + 1, Len(bytes))

\* GuessScheme: in which scheme the body of C1 has a digest.
Scheme(body) == CASE body = "c1.digest0" -> 0
                  [] body = "c1.digest1" -> 1
                  [] OTHER -> -1

-----------------------------------------------------------------------------
SimpleReply(version, c1) ==
  <<version, "s1.time", "0", "s1.fake", c1[1], "s1.time", c1[3]>>

S1Digest(scheme) == IF scheme = 0 THEN "s1.digest0" ELSE "s1.digest1"
S2Hash(scheme) == IF scheme = 0 THEN "hash of c1.digest0" ELSE "hash of c1.digest1"

ComplexReply(scheme) ==
  <<"3", "random", "random", S1Digest(scheme), "random", "random", S2Hash(scheme)>>

\* WriteToFd: the socket takes at most room tokens, and none of its return
\* value is looked at.
WriteToFd(s, buffer, room) ==
  LET taken == IF room < Len(buffer) THEN room ELSE Len(buffer)
  IN  Outcome([s EXCEPT !.handshake_status = "kStatus_2"], "kSuccess",
              Behind(buffer, taken), SubSeq(buffer, 1, taken))

\* kStatus_0
ReadC0(s, bytes) ==
  IF Len(bytes) < s0_len THEN NotEnough(s, bytes)
  ELSE Outcome([s EXCEPT !.version = bytes[1], !.handshake_status = "kStatus_1"],
               "kSuccess", Behind(bytes, s0_len), <<>>)

\* kStatus_1.  Of another version the encrypted one is noted; both are
\* followed by the assertion at the end of Parse.
SlipReadC1(s, bytes, room) ==        \* C1 is looked at, but not taken
  IF Len(bytes) < s1_len THEN NotEnough(s, bytes)
  ELSE IF s.version # "3" THEN Outcome(s, "assert", bytes, <<>>)
  ELSE IF bytes[2] = "0" THEN
    WriteToFd(s, Behind(bytes, s1_len) \o SimpleReply(s.version, bytes), room)
  ELSE IF Scheme(bytes[3]) = -1 THEN Outcome(s, "kClose", Behind(bytes, s1_len), <<>>)
  ELSE WriteToFd(s, Behind(bytes, 2) \o ComplexReply(Scheme(bytes[3])), room)
ReadC1(s, bytes, room) ==
  IF Len(bytes) < s1_len THEN NotEnough(s, bytes)
  ELSE IF s.version # "3" THEN Outcome(s, "assert", bytes, <<>>)
  ELSE IF bytes[2] = "0" THEN
    WriteToFd(s, Behind(bytes, s1_len) \o SimpleReply(s.version, bytes), room)
  ELSE IF Scheme(bytes[3]) = -1 THEN Outcome(s, "kClose", Behind(bytes, s1_len), <<>>)
  ELSE WriteToFd(s, Behind(bytes, s1_len) \o ComplexReply(Scheme(bytes[3])), room)

\* kStatus_2: C2 is not compared with S1.
ReadC2(s, bytes) ==
  IF Len(bytes) < s2_len THEN NotEnough(s, bytes)
  ELSE Outcome([s EXCEPT !.handshake_status = "kStatus_Done"], "kSuccess",
               Behind(bytes, s2_len), <<>>)

\* Chunks (RtmpChunk).
ReadChunks(s, bytes) ==
  Outcome([s EXCEPT !.heard = @ \o bytes], "kNoEnoughData", <<>>, <<>>)

RtmpParse(s, bytes, room) ==
  CASE s.handshake_status = "kStatus_0" -> ReadC0(s, bytes)
    [] s.handshake_status = "kStatus_1" -> ReadC1(s, bytes, room)
    [] s.handshake_status = "kStatus_2" -> ReadC2(s, bytes)
    [] s.handshake_status = "kStatus_Done" -> ReadChunks(s, bytes)
=============================================================================
