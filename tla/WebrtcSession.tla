---------------------------- MODULE WebrtcSession ----------------------------
(***************************************************************************)
(* One WebRTC session per browser: the offer over a WebSocket              *)
(* (WebSocketProtocol), the ICE checks, the DTLS handshake, the data       *)
(* channel and the relay of media (WebrtcProtocol), over UDP.              *)
(*                                                                         *)
(* The server is one thread: one action is the handling of one offer or of *)
(* one datagram, every call it makes included.  A datagram is handled by   *)
(* the protocol of the server socket until the browser has a connected     *)
(* socket and a protocol of its own; protocols are never deleted.  The     *)
(* network may hold datagrams back, reorder, lose and duplicate them.      *)
(*                                                                         *)
(* External: the browsers, with the retransmissions ICE, DTLS and SCTP     *)
(* prescribe; OpenSSL, whose own timer is looked at only when a datagram   *)
(* is handed to it (no timer of the program does it); libsrtp, which keeps *)
(* the sequence numbers it has accepted.  A browser keeps its address,     *)
(* makes one offer, and no other protocol publishes.  An SCTP record that  *)
(* overtakes the end of the handshake counts as lost.                      *)
(***************************************************************************)
EXTENDS Naturals, FiniteSets

CONSTANTS
  Clients,      \* browsers; also the ufrag and the address of each
  Talkers,      \* the browsers that open a data channel
  MaxPackets,   \* RTP packets a browser sends
  MaxFaults,    \* datagrams the network loses or duplicates
  None          \* no browser, the empty password

ASSUME WebrtcAssumption ==
  /\ None \notin Clients
  /\ Talkers \subseteq Clients
  /\ MaxPackets \in Nat /\ MaxFaults \in Nat

VARIABLES
  up,                          \* the process runs
  g_local_ice_pwd,             \* the browser whose offer set it, with the ufrag
  g_remote_ice_ufrag,          \* the same for the browser's own, with the pwd
  local_pwd_, remote_ufrag_,   \* of each protocol, None until it is connected
  dtls_,                       \* state of each protocol's SSL object
  datachannel_open_,           \* the protocols whose data channel is open
  seen,                        \* RTP sequence numbers srtp_recv_ has accepted
  register_publisher_stream_,  \* the protocols that have had a RTP packet
  publisher,                   \* of stream webrtc/test in the registry
  wait_header_subscriber_,     \* of each protocol as a publisher
  offer,                       \* what became of each browser's offer
  writable,                    \* browsers with a valid answer to a check
  peer,                        \* state of each browser's DTLS endpoint
  association,                 \* state of each browser's SCTP endpoint
  sent,                        \* RTP packets each browser has sent
  accepted,                    \* relayed packets each browser has accepted
  net,                         \* datagrams under way
  faults,                      \* how many the network lost or duplicated
  lost, duplicated,            \* which ones, if Unrepeated and OnceOnly
  resent                       \* browsers that sent a DTLS flight again

ice     == <<g_local_ice_pwd, g_remote_ice_ufrag, local_pwd_, remote_ufrag_>>
relay   == <<seen, register_publisher_stream_, publisher, wait_header_subscriber_>>
browser == <<offer, writable, peer, association, sent, accepted>>
vars    == <<up, ice, dtls_, datachannel_open_, relay, browser,
             net, faults, lost, duplicated, resent>>

Seqs == 1 .. MaxPackets

-----------------------------------------------------------------------------
(* Datagrams, named by what they carry; peer is the browser's end.         *)

\* A check sent before the connected socket exists may wait in the queue of
\* the server socket until after.
Request(c, early) == [kind |-> "request", peer |-> c, early |-> early]
Answer(c, pwd)    == [kind |-> "answer", peer |-> c, pwd |-> pwd]
ClientHello(c)    == [kind |-> "ClientHello", peer |-> c]
ServerFlight(c)   == [kind |-> "ServerHelloDone", peer |-> c]
ClientFlight(c)   == [kind |-> "ClientFinished", peer |-> c]
ServerFinished(c) == [kind |-> "ServerFinished", peer |-> c]
Chunk(c, type)    == [kind |-> "sctp", peer |-> c, type |-> type]
Reply(c, type)    == [kind |-> "sctpReply", peer |-> c, type |-> type]
Rtp(c, n)         == [kind |-> "rtp", peer |-> c, seq |-> n]
Rtcp(c)           == [kind |-> "rtcp", peer |-> c]
Relayed(c, p, n, clean) ==
  [kind |-> "relayed", peer |-> c, from |-> p, seq |-> n, clean |-> clean]

ChunkTypes == {"INIT", "COOKIE_ECHO", "OPEN", "STRING", "SACK", "HEARTBEAT"}
ReplyTypes == {"INIT_ACK", "COOKIE_ACK", "ACK", "SACK", "STRING", "CWR",
               "HEARTBEAT_ACK"}

Datagrams ==
  [kind : {"request"}, peer : Clients, early : BOOLEAN]
    \cup [kind : {"answer"}, peer : Clients, pwd : Clients \cup {None}]
    \cup [kind : {"ClientHello", "ServerHelloDone", "ClientFinished", "ServerFinished",
                  "rtcp"}, peer : Clients]
    \cup [kind : {"sctp"}, peer : Clients, type : ChunkTypes]
    \cup [kind : {"sctpReply"}, peer : Clients, type : ReplyTypes]
    \cup [kind : {"rtp"}, peer : Clients, seq : Seqs]
    \cup [kind : {"relayed"}, peer : Clients, from : Clients, seq : Seqs, clean : BOOLEAN]

\* Those a protocol hands to OpenSSL.
ToDtls(c) == {ServerFlight(c), ServerFinished(c)} \cup {Chunk(c, t) : t \in ChunkTypes}

\* What nothing sends again of its own accord.
Unrepeated == UNION {{ClientHello(c), ServerFinished(c)} : c \in Clients}

\* What a protocol cannot take twice.
OnceOnly == UNION {ToDtls(c) \cup {Rtp(c, n) : n \in Seqs} : c \in Clients}

Heard == [from : Clients, seq : Seqs, clean : BOOLEAN]

TypeOK ==
  /\ up \in BOOLEAN
  /\ g_local_ice_pwd \in Clients \cup {None}
  /\ g_remote_ice_ufrag \in Clients \cup {None}
  /\ local_pwd_ \in [Clients -> Clients \cup {None}]
  /\ remote_ufrag_ \in [Clients -> Clients \cup {None}]
  /\ dtls_ \in [Clients -> {"NULL", "hello", "finished", "done"}]
  /\ datachannel_open_ \subseteq Clients
  /\ seen \in [Clients -> SUBSET Seqs]
  /\ register_publisher_stream_ \subseteq Clients
  /\ publisher \in Clients \cup {None}
  /\ wait_header_subscriber_ \in [Clients -> SUBSET Clients]
  /\ offer \in [Clients -> {"none", "answered", "aborted"}]
  /\ writable \subseteq Clients
  /\ peer \in [Clients -> {"listening", "hello", "flight", "done"}]
  /\ association \in [Clients -> {"INIT", "COOKIE_ECHO", "OPEN", "acked", "open"}]
  /\ sent \in [Clients -> 0 .. MaxPackets]
  /\ accepted \in [Clients -> SUBSET Heard]
  /\ net \subseteq Datagrams
  /\ faults \in 0 .. MaxFaults
  /\ lost \subseteq Datagrams
  /\ duplicated \subseteq Datagrams
  /\ resent \subseteq Clients

Init ==
  /\ up = TRUE
  /\ g_local_ice_pwd = None
  /\ g_remote_ice_ufrag = None
  /\ local_pwd_ = [c \in Clients |-> None]
  /\ remote_ufrag_ = [c \in Clients |-> None]
  /\ dtls_ = [c \in Clients |-> "NULL"]
  /\ datachannel_open_ = {}
  /\ seen = [c \in Clients |-> {}]
  /\ register_publisher_stream_ = {}
  /\ publisher = None
  /\ wait_header_subscriber_ = [c \in Clients |-> {}]
  /\ offer = [c \in Clients |-> "none"]
  /\ writable = {}
  /\ peer = [c \in Clients |-> "listening"]
  /\ association = [c \in Clients |-> "INIT"]
  /\ sent = [c \in Clients |-> 0]
  /\ accepted = [c \in Clients |-> {}]
  /\ net = {}
  /\ faults = 0
  /\ lost = {}
  /\ duplicated = {}
  /\ resent = {}

-----------------------------------------------------------------------------
(* The network.  Definitions named Slip... are slips of the definition     *)
(* after them, used to test that the properties notice.                    *)

\* d is delivered and out is sent.
Receive(d, out) ==
  /\ up /\ d \in net
  /\ net' = (net \ {d}) \cup out
  /\ UNCHANGED <<faults, lost, duplicated>>

\* The same, and d will be delivered once more.  Answers, replies, reports
\* and relayed packets mean nothing when they come again: they are only
\* received.
Duplicate(d, out) ==
  /\ up /\ d \in net
  /\ faults < MaxFaults
  /\ faults' = faults + 1
  /\ net' = net \cup out
  /\ duplicated' = duplicated \cup ({d} \cap OnceOnly)
  /\ UNCHANGED lost

Exchange(d, out) == Receive(d, out) \/ Duplicate(d, out)
Deliver(d, out) == Exchange(d, out) /\ UNCHANGED resent

Send(d) ==
  /\ up
  /\ net' = net \cup {d}
  /\ UNCHANGED <<faults, lost, duplicated>>

Lose(d) ==
  /\ up
  /\ faults < MaxFaults
  /\ faults' = faults + 1
  /\ net' = net \ {d}
  /\ lost' = lost \cup ({d} \cap Unrepeated)
  /\ UNCHANGED <<up, ice, dtls_, datachannel_open_, relay, browser, duplicated, resent>>

-----------------------------------------------------------------------------
(* The offer (WebSocketProtocol).  The credentials of the last offer are   *)
(* global: the protocols take them from there when they are created.       *)

\* An offer that is not JSON or not SDP changes nothing; without the file of
\* the answer, the browser's half of the credentials has changed already.
SlipOnOffer(c) ==                    \* the answer's credentials are made once
  /\ up /\ offer[c] = "none"
  /\ \/ /\ offer' = [offer EXCEPT ![c] = "aborted"]
        /\ g_remote_ice_ufrag' = c
        /\ UNCHANGED g_local_ice_pwd
     \/ /\ offer' = [offer EXCEPT ![c] = "answered"]
        /\ g_remote_ice_ufrag' = c
        /\ g_local_ice_pwd' = IF g_local_ice_pwd = None THEN c ELSE g_local_ice_pwd
  /\ UNCHANGED <<up, local_pwd_, remote_ufrag_, dtls_, datachannel_open_, relay,
                 writable, peer, association, sent, accepted,
                 net, faults, lost, duplicated, resent>>

OnOffer(c) ==
  /\ up /\ offer[c] = "none"
  /\ \/ /\ offer' = [offer EXCEPT ![c] = "aborted"]
        /\ g_remote_ice_ufrag' = c
        /\ UNCHANGED g_local_ice_pwd
     \/ /\ offer' = [offer EXCEPT ![c] = "answered"]
        /\ g_remote_ice_ufrag' = c
        /\ g_local_ice_pwd' = c
  /\ UNCHANGED <<up, local_pwd_, remote_ufrag_, dtls_, datachannel_open_, relay,
                 writable, peer, association, sent, accepted,
                 net, faults, lost, duplicated, resent>>

-----------------------------------------------------------------------------
(* OnStun.                                                                 *)

Connected(c) == dtls_[c] # "NULL"

\* A new ufrag: a connected socket, a protocol with whatever credentials are
\* current, and the ClientHello, which SetConnectState sends once.  The
\* answer is signed by the server socket's protocol, whose local_pwd_ is
\* empty.
OnStunNew(c) ==
  \E early \in BOOLEAN :
    /\ ~Connected(c)
    /\ Deliver(Request(c, early), {Answer(c, None), ClientHello(c)})
    /\ local_pwd_' = [local_pwd_ EXCEPT ![c] = g_local_ice_pwd]
    /\ remote_ufrag_' = [remote_ufrag_ EXCEPT ![c] = g_remote_ice_ufrag]
    /\ dtls_' = [dtls_ EXCEPT ![c] = "hello"]
    /\ UNCHANGED <<up, g_local_ice_pwd, g_remote_ice_ufrag, datachannel_open_, relay,
                   browser>>

\* A known ufrag: the answer only.  A check that was queued at the server
\* socket before is answered by the server socket's protocol.
OnStunKnown(c) ==
  \E early \in BOOLEAN :
    /\ Connected(c)
    /\ \E pwd \in {local_pwd_[c]} \cup IF early THEN {None} ELSE {} :
         Deliver(Request(c, early), {Answer(c, pwd)})
    /\ UNCHANGED <<up, ice, dtls_, datachannel_open_, relay, browser>>

-----------------------------------------------------------------------------
(* OnDtls and Handshake.                                                   *)

\* The server's flight is answered; when it comes again (or anything of the
\* next epoch comes) OpenSSL answers again if its timer has expired.
OnServerFlight(c) ==
  /\ dtls_[c] = "hello"
  /\ Deliver(ServerFlight(c), {ClientFlight(c)})
  /\ dtls_' = [dtls_ EXCEPT ![c] = "finished"]
  /\ UNCHANGED <<up, ice, datachannel_open_, relay, browser>>

SlipOnDtlsAgain(c, out) ==          \* the datagram never reaches SSL_do_handshake
  /\ dtls_[c] = "finished"
  /\ \E d \in {ServerFlight(c)} \cup {Chunk(c, t) : t \in ChunkTypes} : Deliver(d, {})
  /\ UNCHANGED <<up, ice, dtls_, datachannel_open_, relay, browser>>

OnDtlsAgain(c, out) ==
  /\ dtls_[c] = "finished"
  /\ \E d \in {ServerFlight(c)} \cup {Chunk(c, t) : t \in ChunkTypes} : Deliver(d, out)
  /\ UNCHANGED <<up, ice, dtls_, datachannel_open_, relay, browser>>

IgnoreDtls(c) == OnDtlsAgain(c, {})
ResendFlight(c) == OnDtlsAgain(c, {ClientFlight(c)})

OnServerFinished(c) ==
  /\ dtls_[c] = "finished"
  /\ Deliver(ServerFinished(c), {})
  /\ dtls_' = [dtls_ EXCEPT ![c] = "done"]
  /\ UNCHANGED <<up, ice, datachannel_open_, relay, browser>>

\* After the handshake SSL_read returns -1 for a datagram that carries no new
\* record, and OnDtls copies that many bytes before it looks at the result:
\* the process ends.
NoNewRecord(c) ==
  {ServerFlight(c), ServerFinished(c)}
    \cup ({Chunk(c, t) : t \in ChunkTypes} \cap duplicated)

SlipSslReadFails(c) ==                     \* dtls_handshake_done_ is not looked at
  /\ dtls_[c] # "NULL"
  /\ \E d \in {ServerFlight(c), ServerFinished(c)} : Deliver(d, {})
  /\ up' = FALSE
  /\ UNCHANGED <<ice, dtls_, datachannel_open_, relay, browser>>

SslReadFails(c) ==
  /\ dtls_[c] = "done"
  /\ \E d \in NoNewRecord(c) : Deliver(d, {})
  /\ up' = FALSE
  /\ UNCHANGED <<ice, dtls_, datachannel_open_, relay, browser>>

-----------------------------------------------------------------------------
(* OnSctp.  Nothing of what a chunk says is compared with an earlier one.  *)

SendSctpData(c) == IF c \in datachannel_open_ THEN {"STRING"} ELSE {}

DataReplies(c, type) ==
  CASE type = "OPEN"   -> {"ACK", "SACK"}
    [] type = "STRING" -> SendSctpData(c)

ControlReply(type) ==
  CASE type = "INIT"        -> "INIT_ACK"
    [] type = "COOKIE_ECHO" -> "COOKIE_ACK"
    [] type = "SACK"        -> "CWR"
    [] type = "HEARTBEAT"   -> "HEARTBEAT_ACK"

SctpReplies(c, type) ==
  IF type \in {"OPEN", "STRING"} THEN DataReplies(c, type) ELSE {ControlReply(type)}

OnSctp(c, type) ==
  /\ dtls_[c] = "done"
  /\ Deliver(Chunk(c, type), {Reply(c, t) : t \in SctpReplies(c, type)})
  /\ datachannel_open_' =
       IF type = "OPEN" THEN datachannel_open_ \cup {c} ELSE datachannel_open_
  /\ UNCHANGED <<up, ice, dtls_, relay, browser>>

-----------------------------------------------------------------------------
(* OnRtpRtcp.                                                              *)

\* The first packet registers the protocol, which fails once the stream has
\* a publisher, and subscribes it to the stream.
Subscribe(c) ==
  IF c \in register_publisher_stream_
  THEN UNCHANGED <<register_publisher_stream_, publisher, wait_header_subscriber_>>
  ELSE /\ register_publisher_stream_' = register_publisher_stream_ \cup {c}
       /\ publisher' = IF publisher = None THEN c ELSE publisher
       /\ wait_header_subscriber_' =
            [wait_header_subscriber_ EXCEPT ![publisher'] = @ \cup {c}]

\* The packet goes to the protocol's own subscribers.  A packet libsrtp has
\* seen before is relayed as well, as it came: still encrypted.
\* A subscriber whose handshake is not done is sent nothing.
SendData(s, d) == IF dtls_[s] = "done" THEN {d} ELSE {}

SlipRelay(c, n) ==                          \* to all protocols, as BroadcastH264
  UNION {SendData(s, Relayed(s, c, n, n \notin seen[c])) : s \in Clients}

SlipRelayEncrypted(c, n) ==                 \* data in place of unprotect_buf
  UNION {SendData(s, Relayed(s, c, n, FALSE)) : s \in wait_header_subscriber_'[c]}

Relay(c, n) ==
  UNION {SendData(s, Relayed(s, c, n, n \notin seen[c])) :
           s \in wait_header_subscriber_'[c]}

\* Before the handshake is done srtp_recv_ is not initialised: whether it
\* happens to be NULL or not, the packet is dropped.
OnRtp(c, n) ==
  /\ IF dtls_[c] = "done"
     THEN /\ Subscribe(c)
          /\ Deliver(Rtp(c, n), Relay(c, n))
          /\ seen' = [seen EXCEPT ![c] = @ \cup {n}]
     ELSE /\ Deliver(Rtp(c, n), {})
          /\ UNCHANGED relay
  /\ UNCHANGED <<up, ice, dtls_, datachannel_open_, browser>>

\* Nothing ever fills send_map_: a NACK finds no packet to send again, and
\* the other reports are only logged.
OnRtcp(c) ==
  /\ Receive(Rtcp(c), {})
  /\ UNCHANGED <<up, ice, dtls_, datachannel_open_, relay, browser, resent>>

-----------------------------------------------------------------------------
(* The browser.                                                            *)

server == <<up, ice, dtls_, datachannel_open_, relay>>

\* Nothing to or from c is under way: a bound on what a browser repeats.
Quiet(c) == \A d \in net : d.peer # c

\* A check is repeated until it is answered as it should be.
Check(c) ==
  /\ offer[c] = "answered" /\ c \notin writable
  /\ Quiet(c)
  /\ Send(Request(c, ~Connected(c)))
  /\ UNCHANGED <<server, browser, resent>>

\* Answers count when they are signed with the password of the answer to
\* the browser's own offer.  A ClientHello that came before waits for it.
OnAnswer(c, pwd) ==
  /\ Receive(Answer(c, pwd), IF pwd = c /\ peer[c] = "hello" THEN {ServerFlight(c)} ELSE {})
  /\ IF pwd = c
     THEN /\ writable' = writable \cup {c}
          /\ peer' = IF peer[c] = "hello" THEN [peer EXCEPT ![c] = "flight"] ELSE peer
     ELSE UNCHANGED <<writable, peer>>
  /\ UNCHANGED <<server, offer, association, sent, accepted, resent>>

OnClientHello(c) ==
  /\ Deliver(ClientHello(c),
             IF c \in writable /\ peer[c] = "listening" THEN {ServerFlight(c)} ELSE {})
  /\ peer' = IF peer[c] # "listening" THEN peer
             ELSE [peer EXCEPT ![c] = IF c \in writable THEN "flight" ELSE "hello"]
  /\ UNCHANGED <<server, offer, writable, association, sent, accepted>>

\* The DTLS timer.
ServerFlightAgain(c) ==
  /\ peer[c] = "flight"
  /\ Send(ServerFlight(c))
  /\ resent' = resent \cup {c}
  /\ UNCHANGED <<server, browser>>

\* The client's flight, when it comes again, is answered again.
OnClientFlight(c) ==
  /\ \/ /\ peer[c] = "flight"
        /\ Deliver(ClientFlight(c), {ServerFinished(c)})
        /\ peer' = [peer EXCEPT ![c] = "done"]
     \/ /\ peer[c] = "done"
        /\ Exchange(ClientFlight(c), {ServerFinished(c)})
        /\ resent' = resent \cup {c}
        /\ UNCHANGED peer
  /\ UNCHANGED <<server, offer, writable, association, sent, accepted>>

\* SCTP: the chunk the association waits to have answered, again and again;
\* a heartbeat while the channel's ACK is out, a message once it is open.
SendChunk(c) ==
  /\ c \in Talkers /\ peer[c] = "done"
  /\ Quiet(c)
  /\ Send(Chunk(c, CASE association[c] = "acked" -> "HEARTBEAT"
                     [] association[c] = "open"  -> "STRING"
                     [] OTHER                    -> association[c]))
  /\ UNCHANGED <<server, browser, resent>>

OnReply(c, type) ==
  /\ Receive(Reply(c, type), IF type \in {"ACK", "STRING"} THEN {Chunk(c, "SACK")} ELSE {})
  /\ association' = [association EXCEPT ![c] =
       CASE type = "INIT_ACK" /\ @ = "INIT"          -> "COOKIE_ECHO"
         [] type = "COOKIE_ACK" /\ @ = "COOKIE_ECHO" -> "OPEN"
         [] type = "SACK" /\ @ = "OPEN"              -> "acked"
         [] type = "ACK" /\ @ \in {"OPEN", "acked"}  -> "open"
         [] OTHER                                    -> @]
  /\ UNCHANGED <<server, offer, writable, peer, sent, accepted, resent>>

\* A bound: media starts when the data channel is open, if there is to be one.
SendRtp(c) ==
  /\ peer[c] = "done" /\ sent[c] < MaxPackets
  /\ c \in Talkers => association[c] = "open"
  /\ sent' = [sent EXCEPT ![c] = @ + 1]
  /\ Send(Rtp(c, sent'[c]))
  /\ UNCHANGED <<server, offer, writable, peer, association, accepted, resent>>

\* Of two copies of a packet the browser takes the first, and complains of
\* one it cannot decode.
OnRelayed(c, p, n, clean) ==
  /\ Receive(Relayed(c, p, n, clean), IF clean THEN {} ELSE {Rtcp(c)})
  /\ accepted' = IF \E h \in accepted[c] : h.from = p /\ h.seq = n THEN accepted
                 ELSE [accepted EXCEPT ![c] = @ \cup {[from |-> p, seq |-> n, clean |-> clean]}]
  /\ UNCHANGED <<server, offer, writable, peer, association, sent, resent>>

-----------------------------------------------------------------------------
ServerHandles(c) ==
  \/ OnStunNew(c) \/ OnStunKnown(c)
  \/ OnServerFlight(c) \/ IgnoreDtls(c) \/ ResendFlight(c)
  \/ OnServerFinished(c) \/ SslReadFails(c)
  \/ \E t \in ChunkTypes : OnSctp(c, t)
  \/ \E n \in Seqs : OnRtp(c, n)
  \/ OnRtcp(c)

BrowserHandles(c) ==
  \/ \E pwd \in Clients \cup {None} : OnAnswer(c, pwd)
  \/ OnClientHello(c) \/ OnClientFlight(c)
  \/ \E t \in ReplyTypes : OnReply(c, t)
  \/ \E p \in Clients, n \in Seqs, b \in BOOLEAN : OnRelayed(c, p, n, b)

BrowserSends(c) == Check(c) \/ ServerFlightAgain(c) \/ SendChunk(c) \/ SendRtp(c)

Arrive(c) == ServerHandles(c) \/ BrowserHandles(c)

\* Once the process has ended there is nothing left to follow: every action
\* has up in its guard.
Next ==
  \/ \E c \in Clients : OnOffer(c) \/ Arrive(c) \/ BrowserSends(c)
  \/ \E d \in net : Lose(d)

\* What is under way arrives unless it is lost, the answer to the server's
\* flight even while that is sent again; browsers repeat what waits for an
\* answer; OpenSSL's timer runs out between some two of the datagrams that
\* keep coming.  Of the server nothing is assumed beyond handling them.
Fairness ==
  \A c \in Clients :
    /\ WF_vars(Arrive(c))
    /\ WF_vars(OnClientFlight(c))
    /\ WF_vars(Check(c) \/ ServerFlightAgain(c) \/ SendChunk(c))
    /\ SF_vars(ResendFlight(c))

Spec == Init /\ [][Next]_vars /\ Fairness

-----------------------------------------------------------------------------
(* Properties.                                                             *)

\* OnStun fills a protocol from five globals that OnOffer sets one by one:
\* the two halves come from one offer unless an offer was abandoned between
\* them, its answer's file missing.
CredentialsOfOneOffer ==
  (\A c \in Clients : offer[c] # "aborted") => local_pwd_ = remote_ufrag_

\* The process ends only if a datagram for DTLS was delivered twice or a
\* browser sent a flight again: what OnDtls copies before it looks at the
\* result of SSL_read is there for every first delivery, in any order.
EndsOnlyByRepetition ==
  up \/ resent # {} \/ \E c \in Clients : duplicated \cap ToDtls(c) # {}

\* All relayed video has the same SSRC, so a browser must be sent that of
\* one publisher: two would share their sequence numbers.
OneVoice ==
  \A c \in Clients : \A h, k \in accepted[c] : h.from = k.from

\* A packet libsrtp refused is relayed all the same: a browser takes such a
\* packet for the real one only if the network delivered that packet twice.
RelayedIntact ==
  \A c \in Clients : \A h \in accepted[c] :
    h.clean \/ Rtp(h.from, h.seq) \in duplicated

\* A browser whose credentials its protocol has gets its session: the DTLS
\* handshake, and the data channel if it opens one.  Not so when the
\* ClientHello is lost, which nothing sends again, nor, without a data
\* channel, when the last flight is: only a datagram for DTLS that comes
\* later lets OpenSSL send its own again.
Established(c) == dtls_[c] = "done" /\ (c \in Talkers => c \in datachannel_open_)

Stranded(c) ==
  \/ local_pwd_[c] \notin {None, c}
  \/ ClientHello(c) \in lost
  \/ ServerFinished(c) \in lost /\ c \notin Talkers

SessionsEstablished ==
  \A c \in Clients :
    offer[c] = "answered" ~> (Established(c) \/ Stranded(c) \/ ~up)
=============================================================================
