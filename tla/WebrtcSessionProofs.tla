------------------------- MODULE WebrtcSessionProofs -------------------------
(***************************************************************************)
(* Proofs about WebrtcSession for any number of browsers, packets and      *)
(* faults of the network.                                                  *)
(*                                                                         *)
(* The invariant is a conjunction of four that stand alone over TypeOK.    *)
(* Halves: the globals agree whenever no offer was abandoned.  Voice: only *)
(* the registered publisher has subscribers, and it stays registered, so   *)
(* what is under way or accepted came from it.  Once: a packet that is     *)
(* under way and already known to libsrtp was duplicated.  InStep: as long *)
(* as nothing of a handshake was repeated, each of its datagrams is under  *)
(* way only between the step that sends it and the one that takes it, so   *)
(* none is left for a protocol that is done.                               *)
(***************************************************************************)
EXTENDS WebrtcSession, TLAPS

-----------------------------------------------------------------------------
(* Datagrams.                                                              *)

LEMMA DatagramTypes ==
  ASSUME NEW c \in Clients
  PROVE  /\ \A e \in BOOLEAN : Request(c, e) \in Datagrams
         /\ \A p \in Clients \cup {None} : Answer(c, p) \in Datagrams
         /\ ClientHello(c) \in Datagrams /\ ServerFlight(c) \in Datagrams
         /\ ClientFlight(c) \in Datagrams /\ ServerFinished(c) \in Datagrams
         /\ \A t \in ChunkTypes : Chunk(c, t) \in Datagrams
         /\ \A t \in ReplyTypes : Reply(c, t) \in Datagrams
         /\ \A n \in Seqs : Rtp(c, n) \in Datagrams
         /\ Rtcp(c) \in Datagrams
         /\ \A p \in Clients, n \in Seqs, b \in BOOLEAN : Relayed(c, p, n, b) \in Datagrams
BY DEF Datagrams, Request, Answer, ClientHello, ServerFlight, ClientFlight,
   ServerFinished, Chunk, Reply, Rtp, Rtcp, Relayed

\* Datagrams are told apart by their kind and their fields.
LEMMA DatagramKinds ==
  ASSUME NEW c, NEW t, NEW n, NEW p, NEW b
  PROVE  /\ Request(c, b).kind = "request" /\ Request(c, b).peer = c
         /\ Answer(c, p).kind = "answer" /\ Answer(c, p).peer = c
         /\ ClientHello(c).kind = "ClientHello" /\ ClientHello(c).peer = c
         /\ ServerFlight(c).kind = "ServerHelloDone" /\ ServerFlight(c).peer = c
         /\ ClientFlight(c).kind = "ClientFinished" /\ ClientFlight(c).peer = c
         /\ ServerFinished(c).kind = "ServerFinished" /\ ServerFinished(c).peer = c
         /\ Chunk(c, t).kind = "sctp" /\ Chunk(c, t).peer = c
         /\ Reply(c, t).kind = "sctpReply" /\ Reply(c, t).peer = c
         /\ Rtp(c, n).kind = "rtp" /\ Rtp(c, n).peer = c /\ Rtp(c, n).seq = n
         /\ Rtcp(c).kind = "rtcp" /\ Rtcp(c).peer = c
         /\ Relayed(c, p, n, b).kind = "relayed" /\ Relayed(c, p, n, b).peer = c
         /\ Relayed(c, p, n, b).from = p /\ Relayed(c, p, n, b).seq = n
         /\ Relayed(c, p, n, b).clean = b
BY DEF Request, Answer, ClientHello, ServerFlight, ClientFlight, ServerFinished, Chunk,
   Reply, Rtp, Rtcp, Relayed

LEMMA ExchangeNet ==
  ASSUME NEW d, NEW out, Exchange(d, out)
  PROVE  /\ up /\ d \in net
         /\ net' \subseteq net \cup out
         /\ d \in net' /\ d \in OnceOnly => d \in out \cup duplicated'
         /\ duplicated \subseteq duplicated'
         /\ duplicated' \subseteq duplicated \cup {d}
         /\ lost' = lost
         /\ faults \in 0 .. MaxFaults => faults' \in 0 .. MaxFaults
<1>1. CASE Receive(d, out)
  BY <1>1 DEF Receive
<1>2. CASE Duplicate(d, out)
  <2>1. faults \in 0 .. MaxFaults => faults' \in 0 .. MaxFaults
    BY <1>2, WebrtcAssumption DEF Duplicate
  <2> QED
    BY <1>2, <2>1 DEF Duplicate
<1> QED
  BY <1>1, <1>2 DEF Exchange

\* What every exchange leaves right, if what it sends is a set of datagrams.
LEMMA ExchangeTypes ==
  ASSUME TypeOK, NEW d, NEW out \in SUBSET Datagrams, Exchange(d, out)
  PROVE  /\ net' \subseteq Datagrams /\ faults' \in 0 .. MaxFaults
         /\ lost' \subseteq Datagrams /\ duplicated' \subseteq Datagrams
BY ExchangeNet DEF TypeOK

-----------------------------------------------------------------------------
(* Types.                                                                  *)

LEMMA InitTypes == Init => TypeOK
BY WebrtcAssumption DEF Init, TypeOK

LEMMA NetworkTypes ==
  ASSUME TypeOK, NEW d \in Datagrams, Send(d)
  PROVE  net' \subseteq Datagrams /\ faults' = faults /\ lost' = lost
         /\ duplicated' = duplicated
BY DEF Send, TypeOK

LEMMA OfferTypes ==
  ASSUME TypeOK, NEW c \in Clients, OnOffer(c)
  PROVE  TypeOK'
BY DEF OnOffer, TypeOK, relay

LEMMA IceTypes ==
  ASSUME TypeOK, NEW c \in Clients, OnStunNew(c) \/ OnStunKnown(c)
  PROVE  TypeOK'
<1>1. CASE OnStunNew(c)
  <2>1. PICK e \in BOOLEAN : Deliver(Request(c, e), {Answer(c, None), ClientHello(c)})
    BY <1>1 DEF OnStunNew
  <2>2. {Answer(c, None), ClientHello(c)} \in SUBSET Datagrams
    BY DatagramTypes
  <2> QED
    BY <1>1, <2>1, <2>2, ExchangeTypes DEF OnStunNew, Deliver, TypeOK, relay, browser
<1>2. CASE OnStunKnown(c)
  <2>1. PICK e \in BOOLEAN, pwd \in {local_pwd_[c], None} :
          Deliver(Request(c, e), {Answer(c, pwd)})
    BY <1>2 DEF OnStunKnown
  <2>2. {Answer(c, pwd)} \in SUBSET Datagrams
    BY DatagramTypes DEF TypeOK
  <2> QED
    BY <1>2, <2>1, <2>2, ExchangeTypes DEF OnStunKnown, Deliver, TypeOK, ice, relay, browser
<1> QED
  BY <1>1, <1>2

LEMMA DtlsTypes ==
  ASSUME TypeOK, NEW c \in Clients,
         \/ OnServerFlight(c) \/ IgnoreDtls(c) \/ ResendFlight(c)
         \/ OnServerFinished(c) \/ SslReadFails(c)
  PROVE  TypeOK'
<1>1. /\ {} \in SUBSET Datagrams
      /\ {ClientFlight(c)} \in SUBSET Datagrams
  BY DatagramTypes
<1>2. CASE OnServerFlight(c)
  BY <1>1, <1>2, ExchangeTypes DEF OnServerFlight, Deliver, TypeOK, ice, relay, browser
<1>3. CASE IgnoreDtls(c)
  BY <1>1, <1>3, ExchangeTypes
  DEF IgnoreDtls, OnDtlsAgain, Deliver, TypeOK, ice, relay, browser
<1>4. CASE ResendFlight(c)
  BY <1>1, <1>4, ExchangeTypes
  DEF ResendFlight, OnDtlsAgain, Deliver, TypeOK, ice, relay, browser
<1>5. CASE OnServerFinished(c)
  BY <1>1, <1>5, ExchangeTypes DEF OnServerFinished, Deliver, TypeOK, ice, relay, browser
<1>6. CASE SslReadFails(c)
  BY <1>1, <1>6, ExchangeTypes DEF SslReadFails, Deliver, TypeOK, ice, relay, browser
<1> QED
  BY <1>2, <1>3, <1>4, <1>5, <1>6

LEMMA SctpTypes ==
  ASSUME TypeOK, NEW c \in Clients, NEW type \in ChunkTypes, OnSctp(c, type)
  PROVE  TypeOK'
<1>1. SctpReplies(c, type) \subseteq ReplyTypes
  BY DEF SctpReplies, DataReplies, SendSctpData, ControlReply, ChunkTypes, ReplyTypes
<1>2. {Reply(c, t) : t \in SctpReplies(c, type)} \in SUBSET Datagrams
  BY <1>1, DatagramTypes
<1> QED
  BY <1>2, ExchangeTypes DEF OnSctp, Deliver, TypeOK, ice, relay, browser

LEMMA RelayTypes ==
  ASSUME TypeOK, NEW c \in Clients, NEW n \in Seqs, Subscribe(c)
  PROVE  /\ register_publisher_stream_' \subseteq Clients
         /\ publisher' \in Clients \cup {None}
         /\ wait_header_subscriber_' \in [Clients -> SUBSET Clients]
         /\ Relay(c, n) \in SUBSET Datagrams
<1>1. /\ register_publisher_stream_' \subseteq Clients
      /\ publisher' \in Clients \cup {None}
      /\ wait_header_subscriber_' \in [Clients -> SUBSET Clients]
  BY DEF Subscribe, TypeOK
<1>2. \A s \in wait_header_subscriber_'[c] :
        SendData(s, Relayed(s, c, n, n \notin seen[c])) \subseteq Datagrams
  BY <1>1, DatagramTypes DEF SendData
<1> QED
  BY <1>1, <1>2 DEF Relay

LEMMA MediaTypes ==
  ASSUME TypeOK, NEW c \in Clients, (\E n \in Seqs : OnRtp(c, n)) \/ OnRtcp(c)
  PROVE  TypeOK'
<1>1. ASSUME NEW n \in Seqs, OnRtp(c, n), dtls_[c] = "done"
      PROVE  TypeOK'
  BY <1>1, RelayTypes, ExchangeTypes DEF OnRtp, Deliver, TypeOK, ice, browser
<1>2. ASSUME NEW n \in Seqs, OnRtp(c, n), dtls_[c] # "done"
      PROVE  TypeOK'
  <2>1. {} \in SUBSET Datagrams
    OBVIOUS
  <2> QED
    BY <1>2, <2>1, ExchangeTypes DEF OnRtp, Deliver, TypeOK, ice, relay, browser
<1>3. CASE OnRtcp(c)
  BY <1>3, DatagramTypes DEF OnRtcp, Receive, TypeOK, ice, relay, browser
<1> QED
  BY <1>1, <1>2, <1>3

LEMMA SendTypes ==
  ASSUME TypeOK, NEW c \in Clients, BrowserSends(c)
  PROVE  TypeOK'
<1>1. CASE Check(c)
  <2>1. Request(c, ~Connected(c)) \in Datagrams
    BY DatagramTypes DEF Connected
  <2> QED
    BY <1>1, <2>1, NetworkTypes DEF Check, server, ice, relay, browser, TypeOK
<1>2. CASE ServerFlightAgain(c)
  BY <1>2, DatagramTypes, NetworkTypes DEF ServerFlightAgain, server, ice, relay, browser, TypeOK
<1>3. CASE SendChunk(c)
  <2>1. PICK t \in ChunkTypes : Send(Chunk(c, t))
    BY <1>3 DEF SendChunk, TypeOK, ChunkTypes
  <2>2. Chunk(c, t) \in Datagrams
    BY DatagramTypes
  <2> QED
    BY <1>3, <2>1, <2>2, NetworkTypes DEF SendChunk, server, ice, relay, browser, TypeOK
<1>4. CASE SendRtp(c)
  <2>1. sent' \in [Clients -> 0 .. MaxPackets] /\ sent'[c] \in Seqs
    BY <1>4, WebrtcAssumption DEF SendRtp, TypeOK, Seqs
  <2>2. Rtp(c, sent'[c]) \in Datagrams
    BY <2>1, DatagramTypes
  <2> QED
    BY <1>4, <2>1, <2>2, NetworkTypes DEF SendRtp, server, ice, relay, TypeOK
<1> QED
  BY <1>1, <1>2, <1>3, <1>4 DEF BrowserSends

LEMMA ReceiveTypes ==
  ASSUME TypeOK, NEW c \in Clients, BrowserHandles(c)
  PROVE  TypeOK'
<1> USE DEF server, ice, relay
<1>1. ASSUME NEW pwd \in Clients \cup {None}, OnAnswer(c, pwd)
      PROVE  TypeOK'
  BY <1>1, DatagramTypes DEF OnAnswer, Receive, TypeOK
<1>2. CASE OnClientHello(c)
  <2>1. (IF c \in writable /\ peer[c] = "listening" THEN {ServerFlight(c)} ELSE {})
          \in SUBSET Datagrams
    BY DatagramTypes
  <2> QED
    BY <1>2, <2>1, ExchangeTypes DEF OnClientHello, Deliver, TypeOK
<1>3. CASE OnClientFlight(c)
  <2>1. {ServerFinished(c)} \in SUBSET Datagrams
    BY DatagramTypes
  <2>2. Exchange(ClientFlight(c), {ServerFinished(c)})
    BY <1>3 DEF OnClientFlight, Deliver
  <2>3. /\ peer' \in [Clients -> {"listening", "hello", "flight", "done"}]
        /\ resent' \subseteq Clients
    BY <1>3 DEF OnClientFlight, Deliver, TypeOK
  <2> QED
    BY <1>3, <2>1, <2>2, <2>3, ExchangeTypes DEF OnClientFlight, TypeOK
<1>4. ASSUME NEW t \in ReplyTypes, OnReply(c, t)
      PROVE  TypeOK'
  <2>1. Chunk(c, "SACK") \in Datagrams
    BY DatagramTypes DEF ChunkTypes
  <2>2. association' \in [Clients -> {"INIT", "COOKIE_ECHO", "OPEN", "acked", "open"}]
    BY <1>4 DEF OnReply, TypeOK
  <2> QED
    BY <1>4, <2>1, <2>2 DEF OnReply, Receive, TypeOK
<1>5. ASSUME NEW p \in Clients, NEW n \in Seqs, NEW b \in BOOLEAN, OnRelayed(c, p, n, b)
      PROVE  TypeOK'
  <2>1. accepted' \in [Clients -> SUBSET Heard]
    BY <1>5 DEF OnRelayed, TypeOK, Heard
  <2> QED
    BY <1>5, <2>1, DatagramTypes DEF OnRelayed, Receive, TypeOK
<1> QED
  BY <1>1, <1>2, <1>3, <1>4, <1>5 DEF BrowserHandles

LEMMA TypesKept == TypeOK /\ [Next]_vars => TypeOK'
<1> SUFFICES ASSUME TypeOK, [Next]_vars PROVE TypeOK'
  OBVIOUS
<1>1. ASSUME NEW c \in Clients, OnOffer(c) \/ Arrive(c) \/ BrowserSends(c)
      PROVE  TypeOK'
  BY <1>1, OfferTypes, IceTypes, DtlsTypes, SctpTypes, MediaTypes, SendTypes, ReceiveTypes
  DEF Arrive, ServerHandles
<1>2. ASSUME NEW d \in net, Lose(d)
      PROVE  TypeOK'
  BY <1>2, WebrtcAssumption DEF Lose, ice, relay, browser, TypeOK
<1>3. CASE UNCHANGED vars
  BY <1>3 DEF vars, ice, relay, browser, TypeOK
<1> QED
  BY <1>1, <1>2, <1>3 DEF Next

\* Every variable keeps its type.
THEOREM SessionTypeCorrect == Spec => []TypeOK
BY InitTypes, TypesKept, PTL DEF Spec

-----------------------------------------------------------------------------
(* Credentials.                                                            *)

Halves ==
  (\A c \in Clients : offer[c] # "aborted") =>
    /\ g_local_ice_pwd = g_remote_ice_ufrag
    /\ local_pwd_ = remote_ufrag_

\* Only OnOffer and OnStunNew touch what Halves speaks of.
LEMMA OthersKeepIce ==
  ASSUME TypeOK, NEW c \in Clients, Arrive(c) \/ BrowserSends(c), ~OnStunNew(c)
  PROVE  UNCHANGED <<ice, offer>>
<1>1. CASE ServerHandles(c)
  BY <1>1 DEF ServerHandles, OnStunKnown, OnServerFlight, IgnoreDtls, ResendFlight,
     OnDtlsAgain, OnServerFinished, SslReadFails, OnSctp, OnRtp, OnRtcp, browser
<1>2. CASE BrowserHandles(c)
  BY <1>2 DEF BrowserHandles, OnAnswer, OnClientHello, OnClientFlight, OnReply, OnRelayed,
     server
<1>3. CASE BrowserSends(c)
  BY <1>3 DEF BrowserSends, Check, ServerFlightAgain, SendChunk, SendRtp, server, browser
<1> QED
  BY <1>1, <1>2, <1>3 DEF Arrive

LEMMA HalvesKept == TypeOK /\ Halves /\ [Next]_vars => Halves'
<1> SUFFICES ASSUME TypeOK, Halves, [Next]_vars PROVE Halves'
  OBVIOUS
<1>1. ASSUME NEW c \in Clients, OnOffer(c)
      PROVE  Halves'
  <2>1. CASE offer' = [offer EXCEPT ![c] = "aborted"]
    BY <2>1 DEF Halves, TypeOK
  <2>2. CASE offer' = [offer EXCEPT ![c] = "answered"]
    <3>1. (\A k \in Clients : offer'[k] # "aborted") =>
            \A k \in Clients : offer[k] # "aborted"
      BY <1>1, <2>2 DEF OnOffer, TypeOK
    <3>2. g_local_ice_pwd' = g_remote_ice_ufrag'
      BY <1>1, <2>2 DEF OnOffer, TypeOK
    <3> QED
      BY <1>1, <3>1, <3>2 DEF OnOffer, Halves
  <2> QED
    BY <1>1, <2>1, <2>2 DEF OnOffer
<1>2. ASSUME NEW c \in Clients, OnStunNew(c)
      PROVE  Halves'
  BY <1>2 DEF OnStunNew, Halves, browser, TypeOK
<1>3. CASE UNCHANGED <<ice, offer>>
  BY <1>3 DEF ice, Halves
<1>4. ASSUME NEW d \in net, Lose(d)
      PROVE  Halves'
  BY <1>4, <1>3 DEF Lose, browser
<1>5. CASE UNCHANGED vars
  BY <1>5, <1>3 DEF vars, browser
<1> QED
  BY <1>1, <1>2, <1>3, <1>4, <1>5, OthersKeepIce DEF Next

\* No protocol holds the password of one offer with the ufrag of another,
\* unless an offer ended between its two halves.
THEOREM CredentialsMatch == Spec => []CredentialsOfOneOffer
<1>1. Init => Halves
  BY DEF Init, Halves
<1>2. Halves => CredentialsOfOneOffer
  BY DEF Halves, CredentialsOfOneOffer
<1> QED
  BY <1>1, <1>2, HalvesKept, SessionTypeCorrect, PTL DEF Spec

-----------------------------------------------------------------------------
(* One publisher.                                                          *)

Voice ==
  /\ \A p \in Clients : wait_header_subscriber_[p] # {} => p = publisher
  /\ \A c, p \in Clients, n \in Seqs, b \in BOOLEAN :
       Relayed(c, p, n, b) \in net => p = publisher
  /\ \A c \in Clients : \A h \in accepted[c] : h.from = publisher

\* Only SendRtp and OnRtp send media, only OnRelayed accepts it.
Media == {"rtp", "relayed"}

LEMMA OthersKeepMedia ==
  ASSUME TypeOK, [Next]_vars,
         ~ \E c \in Clients : SendRtp(c),
         ~ \E c \in Clients, n \in Seqs : OnRtp(c, n),
         ~ \E c, p \in Clients, n \in Seqs, b \in BOOLEAN : OnRelayed(c, p, n, b)
  PROVE  /\ UNCHANGED <<relay, sent, accepted>> /\ duplicated \subseteq duplicated'
         /\ \A d \in net' : d \in net \/ d.kind \notin Media
<1> DEFINE Kept == /\ UNCHANGED <<relay, sent, accepted>>
                   /\ duplicated \subseteq duplicated'
                   /\ \A d \in net' : d \in net \/ d.kind \notin Media
<1>1. ASSUME NEW c \in Clients, OnOffer(c)
      PROVE  Kept
  BY <1>1 DEF OnOffer
<1>2. ASSUME NEW c \in Clients, ServerHandles(c), ~ \E n \in Seqs : OnRtp(c, n)
      PROVE  Kept
  <2>1. CASE OnStunNew(c) \/ OnStunKnown(c)
    <3>1. PICK d, pwd : Exchange(d, {Answer(c, pwd), ClientHello(c)})
                        \/ Exchange(d, {Answer(c, pwd)})
      BY <2>1 DEF OnStunNew, OnStunKnown, Deliver
    <3>2. /\ net' \subseteq net \cup {Answer(c, pwd), ClientHello(c)}
          /\ duplicated \subseteq duplicated'
      BY <3>1, ExchangeNet
    <3> QED
      BY <2>1, <3>2, DatagramKinds DEF OnStunNew, OnStunKnown, browser, Media
  <2>2. CASE \/ OnServerFlight(c) \/ IgnoreDtls(c) \/ ResendFlight(c)
             \/ OnServerFinished(c) \/ SslReadFails(c)
    BY <2>2, ExchangeNet, DatagramKinds DEF OnServerFlight, IgnoreDtls, ResendFlight,
       OnDtlsAgain, OnServerFinished, SslReadFails, Deliver, browser, Media
  <2>3. CASE \E t \in ChunkTypes : OnSctp(c, t)
    <3>1. PICK t \in ChunkTypes : OnSctp(c, t)
      BY <2>3
    <3>2. /\ net' \subseteq net \cup {Reply(c, r) : r \in SctpReplies(c, t)}
          /\ duplicated \subseteq duplicated'
      BY <3>1, ExchangeNet DEF OnSctp, Deliver
    <3>3. \A r : Reply(c, r).kind \notin Media
      BY DatagramKinds DEF Media
    <3> QED
      BY <3>1, <3>2, <3>3 DEF OnSctp, browser
  <2>4. CASE OnRtcp(c)
    BY <2>4 DEF OnRtcp, Receive, browser
  <2> QED
    BY <1>2, <2>1, <2>2, <2>3, <2>4 DEF ServerHandles
<1>3. ASSUME NEW c \in Clients, BrowserHandles(c),
             ~ \E p \in Clients, n \in Seqs, b \in BOOLEAN : OnRelayed(c, p, n, b)
      PROVE  Kept
  <2>1. CASE \E pwd \in Clients \cup {None} : OnAnswer(c, pwd)
    BY <2>1, DatagramKinds DEF OnAnswer, Receive, server, Media
  <2>2. CASE OnClientHello(c) \/ OnClientFlight(c)
    BY <2>2, ExchangeNet, DatagramKinds DEF OnClientHello, OnClientFlight, Deliver, server,
       Media
  <2>3. CASE \E t \in ReplyTypes : OnReply(c, t)
    BY <2>3, DatagramKinds DEF OnReply, Receive, server, Media
  <2> QED
    BY <1>3, <2>1, <2>2, <2>3 DEF BrowserHandles
<1>4. ASSUME NEW c \in Clients, Check(c) \/ ServerFlightAgain(c) \/ SendChunk(c)
      PROVE  Kept
  BY <1>4, DatagramKinds DEF Check, ServerFlightAgain, SendChunk, Send, server, browser, Media
<1>5. ASSUME NEW d \in net, Lose(d)
      PROVE  Kept
  BY <1>5 DEF Lose, browser
<1>6. CASE UNCHANGED vars
  BY <1>6 DEF vars, browser
<1> QED
  BY <1>1, <1>2, <1>3, <1>4, <1>5, <1>6 DEF Next, Arrive, BrowserSends

\* What OnRtp does once the handshake is done.
LEMMA RelayedByPublisher ==
  ASSUME TypeOK, Voice, NEW c \in Clients, NEW n \in Seqs, OnRtp(c, n), dtls_[c] = "done"
  PROVE  /\ \A p \in Clients : wait_header_subscriber_'[p] # {} => p = publisher'
         /\ publisher # None => publisher' = publisher
         /\ Relay(c, n) # {} => c = publisher'
         /\ \A d \in Relay(c, n) : \E s : d = Relayed(s, c, n, n \notin seen[c])
<1>1. Subscribe(c)
  BY DEF OnRtp
<1>2. /\ \A p \in Clients : wait_header_subscriber_'[p] # {} => p = publisher'
      /\ publisher # None => publisher' = publisher
  BY <1>1, WebrtcAssumption DEF Subscribe, Voice, TypeOK
<1> QED
  BY <1>2 DEF Relay, SendData

LEMMA VoiceKept == TypeOK /\ Voice /\ [Next]_vars => Voice'
<1> SUFFICES ASSUME TypeOK, Voice, [Next]_vars PROVE Voice'
  OBVIOUS
<1>1. ASSUME NEW k \in Clients, NEW m \in Seqs, OnRtp(k, m), dtls_[k] = "done"
      PROVE  Voice'
  <2>1. net' \subseteq net \cup Relay(k, m) /\ accepted' = accepted
    BY <1>1, ExchangeNet DEF OnRtp, Deliver, browser
  <2>2. \A c, p \in Clients, n \in Seqs, b \in BOOLEAN :
          Relayed(c, p, n, b) \in net => p = publisher /\ publisher # None
    BY WebrtcAssumption DEF Voice
  <2>3. \A c \in Clients : \A h \in accepted[c] : h.from = publisher /\ publisher # None
    BY WebrtcAssumption DEF Voice, TypeOK, Heard
  <2>4. \A c, p \in Clients, n \in Seqs, b \in BOOLEAN :
          Relayed(c, p, n, b) \in Relay(k, m) => p = publisher'
    BY <1>1, RelayedByPublisher, DatagramKinds
  <2> QED
    BY <1>1, <2>1, <2>2, <2>3, <2>4, RelayedByPublisher DEF Voice
<1>2. ASSUME NEW k \in Clients, NEW m \in Seqs, OnRtp(k, m), dtls_[k] # "done"
      PROVE  Voice'
  <2>1. net' \subseteq net /\ accepted' = accepted
    BY <1>2, ExchangeNet DEF OnRtp, Deliver, browser
  <2> QED
    BY <1>2, <2>1 DEF OnRtp, relay, Voice
<1>3. ASSUME NEW k \in Clients, NEW q \in Clients, NEW m \in Seqs, NEW e \in BOOLEAN,
             OnRelayed(k, q, m, e)
      PROVE  Voice'
  <2>1. /\ Relayed(k, q, m, e) \in net
        /\ net' \subseteq net \cup {Rtcp(k)}
        /\ UNCHANGED relay
    BY <1>3 DEF OnRelayed, Receive, server
  <2>2. \A c \in Clients : \A h \in accepted'[c] : h \in accepted[c] \/ h.from = q
    BY <1>3 DEF OnRelayed, TypeOK
  <2>3. \A c, p, n, b : Relayed(c, p, n, b) # Rtcp(k)
    BY DatagramKinds
  <2> QED
    BY <1>3, <2>1, <2>2, <2>3 DEF relay, Voice
<1>4. ASSUME NEW k \in Clients, SendRtp(k)
      PROVE  Voice'
  <2>1. \A c, p, n, b : Relayed(c, p, n, b) \in net' => Relayed(c, p, n, b) \in net
    BY <1>4, DatagramKinds DEF SendRtp, Send
  <2> QED
    BY <1>4, <2>1 DEF SendRtp, server, relay, Voice
<1>5. CASE /\ ~ \E c \in Clients : SendRtp(c)
           /\ ~ \E c \in Clients, n \in Seqs : OnRtp(c, n)
           /\ ~ \E c, p \in Clients, n \in Seqs, b \in BOOLEAN : OnRelayed(c, p, n, b)
  <2>1. \A c, p, n, b : Relayed(c, p, n, b).kind \in Media
    BY DatagramKinds DEF Media
  <2> QED
    BY <1>5, <2>1, OthersKeepMedia DEF relay, Voice
<1> QED
  BY <1>1, <1>2, <1>3, <1>4, <1>5

\* No browser ever hears two publishers.
THEOREM OnePublisherHeard == Spec => []OneVoice
<1>1. Init => Voice
  BY DEF Init, Voice
<1>2. Voice => OneVoice
  BY DEF Voice, OneVoice
<1> QED
  BY <1>1, <1>2, VoiceKept, SessionTypeCorrect, PTL DEF Spec

-----------------------------------------------------------------------------
(* Packets relayed as they came.                                           *)

Once ==
  /\ \A c \in Clients, n \in Seqs :
       /\ Rtp(c, n) \in net /\ n \in seen[c] => Rtp(c, n) \in duplicated
       /\ n > sent[c] => Rtp(c, n) \notin net /\ n \notin seen[c]
  /\ \A c, p \in Clients, n \in Seqs :
       Relayed(c, p, n, FALSE) \in net => Rtp(p, n) \in duplicated
  /\ RelayedIntact

LEMMA OnceKept == TypeOK /\ Once /\ [Next]_vars => Once'
<1> SUFFICES ASSUME TypeOK, Once, [Next]_vars PROVE Once'
  OBVIOUS
<1>1. ASSUME NEW k \in Clients, NEW m \in Seqs, OnRtp(k, m)
      PROVE  Once'
  <2>1. PICK out : /\ Exchange(Rtp(k, m), out)
                   /\ \A d \in out : \E s \in Clients :
                        d = Relayed(s, k, m, m \notin seen[k])
    <3>1. CASE dtls_[k] = "done"
      <4>1. wait_header_subscriber_'[k] \subseteq Clients
        BY <1>1, <3>1, RelayTypes DEF OnRtp
      <4>2. \A d \in Relay(k, m) : \E s \in Clients : d = Relayed(s, k, m, m \notin seen[k])
        BY <4>1 DEF Relay, SendData
      <4> QED
        BY <1>1, <3>1, <4>2 DEF OnRtp, Deliver
    <3>2. CASE dtls_[k] # "done"
      BY <1>1, <3>2 DEF OnRtp, Deliver
    <3> QED
      BY <3>1, <3>2
  <2>2. /\ UNCHANGED <<sent, accepted>> /\ duplicated \subseteq duplicated'
        /\ Rtp(k, m) \in net /\ net' \subseteq net \cup out
        /\ seen' \in [Clients -> SUBSET Seqs]
        /\ \A c \in Clients : seen'[c] \subseteq seen[c] \cup {m}
        /\ \A c \in Clients : c # k => seen'[c] = seen[c]
    BY <1>1, <2>1, ExchangeNet DEF OnRtp, browser, relay, TypeOK
  <2>3. Rtp(k, m) \in net' => Rtp(k, m) \in duplicated'
    <3>1. Rtp(k, m) \in OnceOnly
      BY DEF OnceOnly
    <3>2. Rtp(k, m) \notin out
      BY <2>1, DatagramKinds
    <3> QED
      BY <2>1, <3>1, <3>2, ExchangeNet
  <2>4. ASSUME NEW c \in Clients, NEW n \in Seqs
        PROVE  /\ Rtp(c, n) \in net' /\ n \in seen'[c] => Rtp(c, n) \in duplicated'
               /\ n > sent'[c] => Rtp(c, n) \notin net' /\ n \notin seen'[c]
    <3>0. \A s, b : Relayed(s, k, m, b) # Rtp(c, n)
      BY DatagramKinds
    <3>1. Rtp(c, n) \in net' => Rtp(c, n) \in net
      BY <2>1, <2>2, <3>0
    <3> QED
      BY <2>2, <2>3, <3>1 DEF Once
  <2>5. ASSUME NEW c \in Clients, NEW p \in Clients, NEW n \in Seqs,
               Relayed(c, p, n, FALSE) \in net'
        PROVE  Rtp(p, n) \in duplicated'
    <3>1. CASE Relayed(c, p, n, FALSE) \in net
      BY <2>2, <3>1 DEF Once
    <3>2. CASE Relayed(c, p, n, FALSE) \in out
      <4>0. \A s, b : Relayed(c, p, n, FALSE) = Relayed(s, k, m, b) => p = k /\ n = m /\ b = FALSE
        BY DEF Relayed
      <4>1. p = k /\ n = m /\ m \in seen[k]
        BY <2>1, <3>2, <4>0
      <4> QED
        BY <2>2, <4>1 DEF Once
    <3> QED
      BY <2>2, <2>5, <3>1, <3>2
  <2>6. RelayedIntact'
    BY <2>2 DEF Once, RelayedIntact
  <2> QED
    BY <2>4, <2>5, <2>6 DEF Once
<1>2. ASSUME NEW k \in Clients, NEW q \in Clients, NEW m \in Seqs, NEW e \in BOOLEAN,
             OnRelayed(k, q, m, e)
      PROVE  Once'
  <2>1. /\ Relayed(k, q, m, e) \in net
        /\ net' \subseteq net \cup {Rtcp(k)}
        /\ UNCHANGED <<relay, sent, duplicated>>
    BY <1>2 DEF OnRelayed, Receive, server
  <2>2. \A c \in Clients : \A h \in accepted'[c] :
          h \in accepted[c] \/ h = [from |-> q, seq |-> m, clean |-> e]
    BY <1>2 DEF OnRelayed, TypeOK
  <2>3. e \/ Rtp(q, m) \in duplicated
    BY <2>1 DEF Once
  <2>4. RelayedIntact'
    BY <2>1, <2>2, <2>3 DEF Once, RelayedIntact
  <2>5. \A c, p, n, b : Relayed(c, p, n, b) # Rtcp(k) /\ Rtp(c, n) # Rtcp(k)
    BY DatagramKinds
  <2> QED
    BY <2>1, <2>4, <2>5 DEF relay, Once
<1>3. ASSUME NEW k \in Clients, SendRtp(k)
      PROVE  Once'
  <2>1. /\ sent' = [sent EXCEPT ![k] = @ + 1] /\ net' = net \cup {Rtp(k, sent[k] + 1)}
        /\ sent[k] \in Nat /\ UNCHANGED <<relay, accepted, duplicated>>
    BY <1>3, WebrtcAssumption DEF SendRtp, Send, server, TypeOK
  <2>2. ASSUME NEW c \in Clients, NEW n \in Seqs
        PROVE  /\ Rtp(c, n) \in net' /\ n \in seen'[c] => Rtp(c, n) \in duplicated'
               /\ n > sent'[c] => Rtp(c, n) \notin net' /\ n \notin seen'[c]
    <3>0. Rtp(c, n) = Rtp(k, sent[k] + 1) => c = k /\ n = sent[k] + 1
      BY DatagramKinds
    <3>1. Rtp(c, n) \in net' => Rtp(c, n) \in net \/ (c = k /\ n = sent[k] + 1)
      BY <2>1, <3>0
    <3>2. /\ c = k => sent'[c] = sent[k] + 1
          /\ c # k => sent'[c] = sent[c]
          /\ sent[c] \in Nat /\ n \in Nat
      BY <2>1, WebrtcAssumption DEF TypeOK, Seqs
    <3>3. c = k /\ n > sent[k] => n \notin seen[c]
      BY DEF Once
    <3> QED
      BY <2>1, <3>1, <3>2, <3>3 DEF relay, Once
  <2>3. \A c, p, n, b : Relayed(c, p, n, b) # Rtp(k, sent[k] + 1)
    BY DatagramKinds
  <2> QED
    BY <2>1, <2>2, <2>3 DEF Once, RelayedIntact
<1>4. CASE /\ ~ \E c \in Clients : SendRtp(c)
           /\ ~ \E c \in Clients, n \in Seqs : OnRtp(c, n)
           /\ ~ \E c, p \in Clients, n \in Seqs, b \in BOOLEAN : OnRelayed(c, p, n, b)
  <2>1. \A c, p, n, b : Relayed(c, p, n, b).kind \in Media /\ Rtp(c, n).kind \in Media
    BY DatagramKinds DEF Media
  <2> QED
    BY <1>4, <2>1, OthersKeepMedia DEF relay, Once, RelayedIntact
<1> QED
  BY <1>1, <1>2, <1>3, <1>4

\* A browser takes a packet that was relayed encrypted for the real one only
\* if the network delivered the packet twice.
THEOREM AcceptedUnlessDuplicated == Spec => []RelayedIntact
<1>1. Init => Once
  BY DEF Init, Once, RelayedIntact
<1>2. Once => RelayedIntact
  BY DEF Once
<1> QED
  BY <1>1, <1>2, OnceKept, SessionTypeCorrect, PTL DEF Spec

-----------------------------------------------------------------------------
(* The handshake, as long as nothing of it is repeated.                    *)

Repeated(c) == resent # {} \/ duplicated \cap ToDtls(c) # {}

InOrder(c) ==
  /\ peer[c] # "listening" => dtls_[c] # "NULL"
  /\ ClientHello(c) \in net => dtls_[c] # "NULL"
  /\ peer[c] \in {"listening", "hello"} => dtls_[c] \in {"NULL", "hello"}
  /\ ServerFlight(c) \in net => dtls_[c] = "hello" /\ peer[c] = "flight"
  /\ ClientFlight(c) \in net => dtls_[c] \notin {"NULL", "hello"}
  /\ ServerFinished(c) \in net => dtls_[c] = "finished" /\ peer[c] = "done"
  /\ dtls_[c] = "done" => peer[c] = "done"

InStep == \A c \in Clients : Repeated(c) \/ InOrder(c)

Handshake(c) == {ClientHello(c), ServerFlight(c), ClientFlight(c), ServerFinished(c)}

\* A step that leaves both ends of c alone and sends nothing of its handshake.
LEMMA UntouchedInStep ==
  ASSUME NEW c \in Clients, Repeated(c) \/ InOrder(c),
         dtls_'[c] = dtls_[c], peer'[c] = peer[c],
         resent \subseteq resent', duplicated \subseteq duplicated',
         net' \cap Handshake(c) \subseteq net
  PROVE  Repeated(c)' \/ InOrder(c)'
<1>1. CASE Repeated(c)
  BY <1>1 DEF Repeated, ToDtls, ServerFlight, ServerFinished, Chunk
<1>2. CASE InOrder(c)
  <2>1. \A d \in Handshake(c) : d \in net' => d \in net
    OBVIOUS
  <2> QED
    BY <1>2, <2>1 DEF InOrder, Handshake, ClientHello, ServerFlight, ClientFlight,
       ServerFinished
<1> QED
  BY <1>1, <1>2

\* A step of k: other ends stay, and only relayed packets go to another.
StepOf(k) ==
  /\ resent \subseteq resent' /\ duplicated \subseteq duplicated'
  /\ \A c \in Clients : c # k => dtls_'[c] = dtls_[c] /\ peer'[c] = peer[c]
  /\ \A d \in net' : d \in net \/ d.kind = "relayed" \/ d.peer = k

LEMMA ServerStep ==
  ASSUME TypeOK, NEW k \in Clients, ServerHandles(k)
  PROVE  StepOf(k)
<1>1. CASE OnStunNew(k) \/ OnStunKnown(k)
  <2>1. PICK d, pwd : Exchange(d, {Answer(k, pwd), ClientHello(k)})
                      \/ Exchange(d, {Answer(k, pwd)})
    BY <1>1 DEF OnStunNew, OnStunKnown, Deliver
  <2>2. /\ net' \subseteq net \cup {Answer(k, pwd), ClientHello(k)}
        /\ duplicated \subseteq duplicated'
    BY <2>1, ExchangeNet
  <2>3. /\ UNCHANGED <<resent, peer>>
        /\ \A c \in Clients : c # k => dtls_'[c] = dtls_[c]
    BY <1>1 DEF OnStunNew, OnStunKnown, Deliver, browser, TypeOK
  <2> QED
    BY <2>2, <2>3, DatagramKinds DEF StepOf
<1>2. CASE \/ OnServerFlight(k) \/ IgnoreDtls(k) \/ ResendFlight(k)
           \/ OnServerFinished(k) \/ SslReadFails(k)
  <2>1. /\ net' \subseteq net \cup {ClientFlight(k)} /\ duplicated \subseteq duplicated'
        /\ UNCHANGED <<resent, peer>>
    BY <1>2, ExchangeNet DEF OnServerFlight, IgnoreDtls, ResendFlight, OnDtlsAgain,
       OnServerFinished, SslReadFails, Deliver, browser
  <2>2. \A c \in Clients : c # k => dtls_'[c] = dtls_[c]
    BY <1>2 DEF OnServerFlight, IgnoreDtls, ResendFlight, OnDtlsAgain, OnServerFinished,
       SslReadFails, TypeOK
  <2> QED
    BY <2>1, <2>2, DatagramKinds DEF StepOf
<1>3. CASE \E t \in ChunkTypes : OnSctp(k, t)
  <2>1. PICK t \in ChunkTypes : OnSctp(k, t)
    BY <1>3
  <2>2. /\ net' \subseteq net \cup {Reply(k, r) : r \in SctpReplies(k, t)}
        /\ duplicated \subseteq duplicated'
    BY <2>1, ExchangeNet DEF OnSctp, Deliver
  <2>3. \A r : Reply(k, r).peer = k
    BY DatagramKinds
  <2> QED
    BY <2>1, <2>2, <2>3 DEF OnSctp, Deliver, browser, StepOf
<1>4. CASE \E n \in Seqs : OnRtp(k, n)
  <2>1. PICK n \in Seqs : OnRtp(k, n)
    BY <1>4
  <2>2. PICK out : Exchange(Rtp(k, n), out) /\ \A d \in out : d.kind = "relayed"
    BY <2>1, DatagramKinds DEF OnRtp, Deliver, Relay, SendData
  <2> QED
    BY <2>1, <2>2, ExchangeNet DEF OnRtp, Deliver, browser, StepOf
<1>5. CASE OnRtcp(k)
  BY <1>5 DEF OnRtcp, Receive, browser, StepOf
<1> QED
  BY <1>1, <1>2, <1>3, <1>4, <1>5 DEF ServerHandles

LEMMA BrowserStep ==
  ASSUME TypeOK, NEW k \in Clients, BrowserHandles(k) \/ BrowserSends(k)
  PROVE  StepOf(k)
<1> USE DEF server, browser
<1>1. CASE \E pwd \in Clients \cup {None} : OnAnswer(k, pwd)
  <2>1. PICK pwd \in Clients \cup {None} : OnAnswer(k, pwd)
    BY <1>1
  <2>2. /\ net' \subseteq net \cup {ServerFlight(k)}
        /\ UNCHANGED <<resent, duplicated, dtls_>>
    BY <2>1 DEF OnAnswer, Receive
  <2>3. \A c \in Clients : c # k => peer'[c] = peer[c]
    BY <2>1 DEF OnAnswer, TypeOK
  <2> QED
    BY <2>2, <2>3, DatagramKinds DEF StepOf
<1>2. CASE OnClientHello(k)
  <2>1. Exchange(ClientHello(k), {}) \/ Exchange(ClientHello(k), {ServerFlight(k)})
    BY <1>2 DEF OnClientHello, Deliver
  <2>2. net' \subseteq net \cup {ServerFlight(k)} /\ duplicated \subseteq duplicated'
    BY <2>1, ExchangeNet
  <2> QED
    BY <1>2, <2>2, DatagramKinds DEF OnClientHello, Deliver, StepOf, TypeOK
<1>3. CASE OnClientFlight(k)
  <2>1. Exchange(ClientFlight(k), {ServerFinished(k)})
    BY <1>3 DEF OnClientFlight, Deliver
  <2>2. net' \subseteq net \cup {ServerFinished(k)} /\ duplicated \subseteq duplicated'
    BY <2>1, ExchangeNet
  <2>3. /\ resent \subseteq resent' /\ dtls_' = dtls_
        /\ \A c \in Clients : c # k => peer'[c] = peer[c]
    BY <1>3 DEF OnClientFlight, Deliver, TypeOK
  <2> QED
    BY <2>2, <2>3, DatagramKinds DEF StepOf
<1>4. CASE \E t \in ReplyTypes : OnReply(k, t)
  BY <1>4, DatagramKinds DEF OnReply, Receive, StepOf
<1>5. CASE \E p \in Clients, n \in Seqs, b \in BOOLEAN : OnRelayed(k, p, n, b)
  BY <1>5, DatagramKinds DEF OnRelayed, Receive, StepOf
<1>6. CASE BrowserSends(k)
  BY <1>6, DatagramKinds DEF BrowserSends, Check, ServerFlightAgain, SendChunk, SendRtp,
     Send, StepOf
<1> QED
  BY <1>1, <1>2, <1>3, <1>4, <1>5, <1>6 DEF BrowserHandles

LEMMA OthersInStep ==
  ASSUME NEW k \in Clients, StepOf(k), NEW c \in Clients, c # k, Repeated(c) \/ InOrder(c)
  PROVE  Repeated(c)' \/ InOrder(c)'
<1>1. \A d \in Handshake(c) : d.kind # "relayed" /\ d.peer # k
  BY DatagramKinds DEF Handshake
<1>2. net' \cap Handshake(c) \subseteq net
  BY <1>1 DEF StepOf
<1> QED
  BY <1>2, UntouchedInStep DEF StepOf

-----------------------------------------------------------------------------
(* The two ends of one handshake.                                          *)

\* No datagram of a handshake is another one.
LEMMA HandshakeDiffers ==
  ASSUME NEW c
  PROVE  /\ ClientHello(c) # ServerFlight(c) /\ ClientHello(c) # ClientFlight(c)
         /\ ClientHello(c) # ServerFinished(c) /\ ServerFlight(c) # ClientFlight(c)
         /\ ServerFlight(c) # ServerFinished(c) /\ ClientFlight(c) # ServerFinished(c)
         /\ \A p : Answer(c, p) \notin Handshake(c)
         /\ \A t : Chunk(c, t) \notin Handshake(c) /\ Reply(c, t) \notin Handshake(c)
         /\ \A n : Rtp(c, n) \notin Handshake(c)
         /\ \A e : Request(c, e) \notin Handshake(c)
         /\ \A s, p, n, b : Relayed(s, p, n, b) \notin Handshake(c)
         /\ Rtcp(c) \notin Handshake(c)
<1>1. /\ ClientHello(c) # ServerFlight(c) /\ ClientHello(c) # ClientFlight(c)
      /\ ClientHello(c) # ServerFinished(c) /\ ServerFlight(c) # ClientFlight(c)
      /\ ServerFlight(c) # ServerFinished(c) /\ ClientFlight(c) # ServerFinished(c)
  BY DatagramKinds
<1>2. \A d \in Handshake(c) : d.kind \in {"ClientHello", "ServerHelloDone",
                                           "ClientFinished", "ServerFinished"}
  BY DatagramKinds DEF Handshake
<1>3. /\ \A p : Answer(c, p).kind = "answer"
      /\ \A t : Chunk(c, t).kind = "sctp" /\ Reply(c, t).kind = "sctpReply"
      /\ \A n : Rtp(c, n).kind = "rtp"
      /\ \A e : Request(c, e).kind = "request"
      /\ \A s, p, n, b : Relayed(s, p, n, b).kind = "relayed"
      /\ Rtcp(c).kind = "rtcp"
  BY DatagramKinds
<1> QED
  BY <1>1, <1>2, <1>3

\* What is for DTLS is taken away by its delivery, or known to be repeated.
LEMMA TakenOrRepeated ==
  ASSUME NEW c \in Clients, NEW d \in ToDtls(c), NEW out, d \notin out, Exchange(d, out)
  PROVE  d \notin net' \/ Repeated(c)'
<1>1. d \in OnceOnly
  BY DEF OnceOnly
<1>2. ToDtls(c)' = ToDtls(c)
  BY DEF ToDtls, ServerFlight, ServerFinished, Chunk
<1> QED
  BY <1>1, <1>2, ExchangeNet DEF Repeated

LEMMA RepeatedStays ==
  ASSUME NEW c, Repeated(c), resent \subseteq resent', duplicated \subseteq duplicated'
  PROVE  Repeated(c)'
BY DEF Repeated, ToDtls, ServerFlight, ServerFinished, Chunk

LEMMA ServerInStep ==
  ASSUME TypeOK, NEW c \in Clients, InOrder(c), ServerHandles(c)
  PROVE  Repeated(c)' \/ InOrder(c)'
<1> USE HandshakeDiffers
<1>1. CASE OnStunNew(c)
  <2>1. PICK d : Exchange(d, {Answer(c, None), ClientHello(c)})
    BY <1>1 DEF OnStunNew, Deliver
  <2>2. net' \subseteq net \cup {Answer(c, None), ClientHello(c)}
    BY <2>1, ExchangeNet
  <2>3. dtls_[c] = "NULL" /\ dtls_'[c] = "hello" /\ peer' = peer
    BY <1>1 DEF OnStunNew, Connected, browser, TypeOK
  <2>4. peer[c] = "listening"
    BY <2>3 DEF InOrder
  <2>5. \A d2 \in Handshake(c) : d2 \in net' => d2 \in net \/ d2 = ClientHello(c)
    BY <2>2
  <2>6. InOrder(c)'
    BY <2>3, <2>4, <2>5 DEF InOrder, Handshake, ClientHello, ServerFlight, ClientFlight,
       ServerFinished
  <2> QED
    BY <2>6
<1>2. CASE OnServerFlight(c)
  <2>1. Exchange(ServerFlight(c), {ClientFlight(c)})
    BY <1>2 DEF OnServerFlight, Deliver
  <2>2. net' \subseteq net \cup {ClientFlight(c)} /\ ServerFlight(c) \in net
    BY <2>1, ExchangeNet
  <2>3. ServerFlight(c) \notin net' \/ Repeated(c)'
    BY <2>1, TakenOrRepeated DEF ToDtls
  <2>4. dtls_'[c] = "finished" /\ peer' = peer /\ peer[c] = "flight" /\ dtls_[c] = "hello"
    BY <1>2, <2>2 DEF OnServerFlight, browser, TypeOK, InOrder
  <2>5. \A d \in Handshake(c) : d \in net' => d \in net \/ d = ClientFlight(c)
    BY <2>2
  <2>6. ASSUME ServerFlight(c) \notin net'
        PROVE  InOrder(c)'
    BY <2>4, <2>5, <2>6 DEF InOrder, Handshake, ClientHello, ServerFlight, ClientFlight,
       ServerFinished
  <2> QED
    BY <2>3, <2>6
<1>3. CASE IgnoreDtls(c) \/ ResendFlight(c)
  <2>1. PICK d : Exchange(d, {}) \/ Exchange(d, {ClientFlight(c)})
    BY <1>3 DEF IgnoreDtls, ResendFlight, OnDtlsAgain, Deliver
  <2>2. net' \subseteq net \cup {ClientFlight(c)}
    BY <2>1, ExchangeNet
  <2>3. dtls_' = dtls_ /\ dtls_[c] = "finished" /\ peer' = peer
    BY <1>3 DEF IgnoreDtls, ResendFlight, OnDtlsAgain, browser
  <2>4. \A d2 \in Handshake(c) : d2 \in net' => d2 \in net \/ d2 = ClientFlight(c)
    BY <2>2
  <2>5. InOrder(c)'
    BY <2>3, <2>4 DEF InOrder, Handshake, ClientHello, ServerFlight, ClientFlight,
       ServerFinished
  <2> QED
    BY <2>5
<1>4. CASE OnServerFinished(c)
  <2>1. Exchange(ServerFinished(c), {})
    BY <1>4 DEF OnServerFinished, Deliver
  <2>2. net' \subseteq net /\ ServerFinished(c) \in net
    BY <2>1, ExchangeNet
  <2>3. ServerFinished(c) \notin net' \/ Repeated(c)'
    BY <2>1, TakenOrRepeated DEF ToDtls
  <2>4. dtls_'[c] = "done" /\ peer' = peer /\ peer[c] = "done" /\ dtls_[c] = "finished"
    BY <1>4, <2>2 DEF OnServerFinished, browser, TypeOK, InOrder
  <2>5. ASSUME ServerFinished(c) \notin net'
        PROVE  InOrder(c)'
    BY <2>2, <2>4, <2>5 DEF InOrder, ClientHello, ServerFlight, ClientFlight, ServerFinished
  <2> QED
    BY <2>3, <2>5
<1>5. CASE \/ OnStunKnown(c) \/ SslReadFails(c) \/ OnRtcp(c)
           \/ (\E t \in ChunkTypes : OnSctp(c, t)) \/ (\E n \in Seqs : OnRtp(c, n))
  <2>1. dtls_' = dtls_ /\ peer' = peer
    BY <1>5 DEF OnStunKnown, SslReadFails, OnSctp, OnRtp, OnRtcp, browser
  <2>2. net' \cap Handshake(c) \subseteq net
    <3>1. CASE OnStunKnown(c)
      <4>1. PICK d, pwd : Exchange(d, {Answer(c, pwd)})
        BY <3>1 DEF OnStunKnown, Deliver
      <4>2. net' \subseteq net \cup {Answer(c, pwd)}
        BY <4>1, ExchangeNet
      <4> QED
        BY <4>2
    <3>2. CASE SslReadFails(c) \/ OnRtcp(c)
      BY <3>2, ExchangeNet DEF SslReadFails, OnRtcp, Deliver, Receive
    <3>3. CASE \E t \in ChunkTypes : OnSctp(c, t)
      <4>1. PICK d, R : Exchange(d, {Reply(c, t) : t \in R})
        BY <3>3 DEF OnSctp, Deliver
      <4>2. net' \subseteq net \cup {Reply(c, t) : t \in R}
        BY <4>1, ExchangeNet
      <4> QED
        BY <4>2
    <3>4. CASE \E n \in Seqs : OnRtp(c, n)
      <4>1. PICK d, out : /\ Exchange(d, out)
                          /\ \A e \in out : \E s, n, b : e = Relayed(s, c, n, b)
        BY <3>4 DEF OnRtp, Deliver, Relay, SendData
      <4>2. net' \subseteq net \cup out
        BY <4>1, ExchangeNet
      <4> QED
        BY <4>1, <4>2
    <3> QED
      BY <1>5, <3>1, <3>2, <3>3, <3>4
  <2>3. resent \subseteq resent' /\ duplicated \subseteq duplicated'
    BY ServerStep DEF StepOf
  <2> QED
    BY <2>1, <2>2, <2>3, UntouchedInStep
<1> QED
  BY <1>1, <1>2, <1>3, <1>4, <1>5 DEF ServerHandles

LEMMA BrowserInStep ==
  ASSUME TypeOK, NEW c \in Clients, InOrder(c), BrowserHandles(c) \/ BrowserSends(c)
  PROVE  Repeated(c)' \/ InOrder(c)'
<1> USE HandshakeDiffers DEF server, browser
<1>1. ASSUME NEW pwd \in Clients \cup {None}, OnAnswer(c, pwd), pwd = c, peer[c] = "hello"
      PROVE  InOrder(c)'
  <2>1. /\ net' \subseteq net \cup {ServerFlight(c)} /\ dtls_' = dtls_
        /\ peer'[c] = "flight"
    BY <1>1 DEF OnAnswer, Receive, TypeOK
  <2>2. dtls_[c] = "hello"
    BY <1>1 DEF InOrder
  <2>3. \A d \in Handshake(c) : d \in net' => d \in net \/ d = ServerFlight(c)
    BY <2>1
  <2> QED
    BY <1>1, <2>1, <2>2, <2>3 DEF InOrder, Handshake, ClientHello, ServerFlight, ClientFlight,
       ServerFinished
<1>2. ASSUME OnClientHello(c), peer[c] = "listening"
      PROVE  InOrder(c)'
  <2>1. \/ /\ Exchange(ClientHello(c), {ServerFlight(c)}) /\ peer'[c] = "flight"
        \/ /\ Exchange(ClientHello(c), {}) /\ peer'[c] = "hello"
    BY <1>2 DEF OnClientHello, Deliver, TypeOK
  <2>2. ClientHello(c) \in net /\ dtls_' = dtls_
    BY <1>2, <2>1, ExchangeNet DEF OnClientHello
  <2>3. dtls_[c] = "hello"
    BY <1>2, <2>2 DEF InOrder
  <2>4. CASE Exchange(ClientHello(c), {ServerFlight(c)}) /\ peer'[c] = "flight"
    <3>1. \A d \in Handshake(c) : d \in net' => d \in net \/ d = ServerFlight(c)
      BY <2>4, ExchangeNet
    <3> QED
      BY <1>2, <2>2, <2>3, <2>4, <3>1 DEF InOrder, Handshake, ClientHello, ServerFlight,
         ClientFlight, ServerFinished
  <2>5. CASE Exchange(ClientHello(c), {}) /\ peer'[c] = "hello"
    <3>1. net' \subseteq net
      BY <2>5, ExchangeNet
    <3> QED
      BY <1>2, <2>2, <2>3, <2>5, <3>1 DEF InOrder, ClientHello, ServerFlight, ClientFlight,
         ServerFinished
  <2> QED
    BY <2>1, <2>4, <2>5
<1>3. ASSUME OnClientFlight(c), peer[c] = "flight"
      PROVE  InOrder(c)'
  <2>1. /\ Exchange(ClientFlight(c), {ServerFinished(c)}) /\ dtls_' = dtls_
        /\ peer'[c] = "done"
    BY <1>3 DEF OnClientFlight, Deliver, TypeOK
  <2>2. ClientFlight(c) \in net
    BY <2>1, ExchangeNet
  <2>3. dtls_[c] = "finished"
    BY <1>3, <2>2 DEF InOrder, TypeOK
  <2>4. \A d \in Handshake(c) : d \in net' => d \in net \/ d = ServerFinished(c)
    BY <2>1, ExchangeNet
  <2> QED
    BY <1>3, <2>1, <2>3, <2>4 DEF InOrder, Handshake, ClientHello, ServerFlight, ClientFlight,
       ServerFinished
<1>4. ASSUME (OnClientFlight(c) /\ peer[c] # "flight") \/ ServerFlightAgain(c)
      PROVE  Repeated(c)'
  BY <1>4 DEF OnClientFlight, ServerFlightAgain, Repeated
<1>5. ASSUME NEW pwd \in Clients \cup {None}, OnAnswer(c, pwd), pwd # c \/ peer[c] # "hello"
      PROVE  UNCHANGED <<dtls_, peer>> /\ net' \subseteq net
  BY <1>5 DEF OnAnswer, Receive
<1>6. ASSUME OnClientHello(c), peer[c] # "listening"
      PROVE  UNCHANGED <<dtls_, peer>> /\ net' \subseteq net
  BY <1>6, ExchangeNet DEF OnClientHello, Deliver
<1>7. ASSUME \/ \E t \in ReplyTypes : OnReply(c, t)
             \/ \E p \in Clients, n \in Seqs, b \in BOOLEAN : OnRelayed(c, p, n, b)
             \/ Check(c) \/ SendChunk(c) \/ SendRtp(c)
      PROVE  UNCHANGED <<dtls_, peer>> /\ net' \cap Handshake(c) \subseteq net
  <2>1. CASE \E t \in ReplyTypes : OnReply(c, t)
    BY <2>1 DEF OnReply, Receive
  <2>2. CASE \E p \in Clients, n \in Seqs, b \in BOOLEAN : OnRelayed(c, p, n, b)
    BY <2>2 DEF OnRelayed, Receive
  <2>3. CASE Check(c) \/ SendChunk(c) \/ SendRtp(c)
    BY <2>3 DEF Check, SendChunk, SendRtp, Send
  <2> QED
    BY <1>7, <2>1, <2>2, <2>3
<1>8. resent \subseteq resent' /\ duplicated \subseteq duplicated'
  BY BrowserStep DEF StepOf
<1>9. ASSUME UNCHANGED <<dtls_, peer>>, net' \cap Handshake(c) \subseteq net
      PROVE  Repeated(c)' \/ InOrder(c)'
  BY <1>8, <1>9, UntouchedInStep
<1> QED
  BY <1>1, <1>2, <1>3, <1>4, <1>5, <1>6, <1>7, <1>9 DEF BrowserHandles, BrowserSends

LEMMA InStepKept == TypeOK /\ InStep /\ [Next]_vars => InStep'
<1> SUFFICES ASSUME TypeOK, InStep, [Next]_vars, NEW c \in Clients
             PROVE  Repeated(c)' \/ InOrder(c)'
  BY DEF InStep
<1>1. Repeated(c) \/ InOrder(c)
  BY DEF InStep
<1>2. ASSUME NEW k \in Clients, OnOffer(k)
      PROVE  Repeated(c)' \/ InOrder(c)'
  BY <1>1, <1>2, UntouchedInStep DEF OnOffer
<1>3. ASSUME NEW k \in Clients, Arrive(k) \/ BrowserSends(k)
      PROVE  Repeated(c)' \/ InOrder(c)'
  <2>1. StepOf(k)
    BY <1>3, ServerStep, BrowserStep DEF Arrive
  <2>2. CASE k # c
    BY <1>1, <2>1, <2>2, OthersInStep
  <2>3. CASE Repeated(c)
    BY <2>1, <2>3, RepeatedStays DEF StepOf
  <2>4. CASE k = c /\ InOrder(c)
    BY <1>3, <2>4, ServerInStep, BrowserInStep DEF Arrive
  <2> QED
    BY <1>1, <2>2, <2>3, <2>4
<1>4. ASSUME NEW d \in net, Lose(d)
      PROVE  Repeated(c)' \/ InOrder(c)'
  BY <1>1, <1>4, UntouchedInStep DEF Lose, browser
<1>5. CASE UNCHANGED vars
  BY <1>1, <1>5, UntouchedInStep DEF vars, browser
<1> QED
  BY <1>2, <1>3, <1>4, <1>5 DEF Next

\* Only SslReadFails ends the process, and in order it has nothing to fail on.
LEMMA EndKept == TypeOK /\ InStep /\ EndsOnlyByRepetition /\ [Next]_vars
                   => EndsOnlyByRepetition'
<1> SUFFICES ASSUME TypeOK, InStep, EndsOnlyByRepetition, [Next]_vars
             PROVE  EndsOnlyByRepetition'
  OBVIOUS
<1>1. resent \subseteq resent' /\ duplicated \subseteq duplicated'
  <2>1. ASSUME NEW k \in Clients, OnOffer(k)
        PROVE  UNCHANGED <<resent, duplicated>>
    BY <2>1 DEF OnOffer
  <2>2. ASSUME NEW k \in Clients, Arrive(k) \/ BrowserSends(k)
        PROVE  resent \subseteq resent' /\ duplicated \subseteq duplicated'
    BY <2>2, ServerStep, BrowserStep DEF Arrive, StepOf
  <2>3. ASSUME NEW d \in net, Lose(d)
        PROVE  UNCHANGED <<resent, duplicated>>
    BY <2>3 DEF Lose
  <2> QED
    BY <2>1, <2>2, <2>3 DEF Next, vars
<1>2. \A c \in Clients : Repeated(c) => EndsOnlyByRepetition'
  <2> SUFFICES ASSUME NEW c \in Clients, Repeated(c)
               PROVE  EndsOnlyByRepetition'
    OBVIOUS
  <2> QED
    BY <1>1 DEF Repeated, EndsOnlyByRepetition, ToDtls, ServerFlight, ServerFinished, Chunk
<1>3. CASE ~up
  BY <1>2, <1>3, <1>1 DEF EndsOnlyByRepetition, Repeated, ToDtls, ServerFlight,
     ServerFinished, Chunk
<1>4. CASE up /\ ~ \E c \in Clients : SslReadFails(c)
  <2>1. up' = up
    BY <1>4 DEF Next, Arrive, ServerHandles, BrowserHandles, BrowserSends, OnOffer,
       OnStunNew, OnStunKnown, OnServerFlight, IgnoreDtls, ResendFlight, OnDtlsAgain,
       OnServerFinished, OnSctp, OnRtp, OnRtcp, OnAnswer, OnClientHello, OnClientFlight,
       OnReply, OnRelayed, Check, ServerFlightAgain, SendChunk, SendRtp, Lose, server, vars
  <2> QED
    BY <1>4, <2>1 DEF EndsOnlyByRepetition
<1>5. ASSUME NEW c \in Clients, SslReadFails(c)
      PROVE  EndsOnlyByRepetition'
  <2>1. PICK d \in NoNewRecord(c) : Exchange(d, {})
    BY <1>5 DEF SslReadFails, Deliver
  <2>2. d \in net /\ dtls_[c] = "done"
    BY <1>5, <2>1, ExchangeNet DEF SslReadFails
  <2>3. Repeated(c)
    <3>1. CASE InOrder(c)
      BY <2>1, <2>2, <3>1 DEF InOrder, NoNewRecord, Repeated, ToDtls
    <3> QED
      BY <3>1 DEF InStep
  <2> QED
    BY <1>2, <2>3
<1> QED
  BY <1>3, <1>4, <1>5

\* Unless a datagram for DTLS came twice or a browser repeated a flight, the
\* process does not end.
THEOREM ProcessSurvives == Spec => []EndsOnlyByRepetition
<1>1. Init => InStep /\ EndsOnlyByRepetition
  BY DEF Init, InStep, InOrder, EndsOnlyByRepetition
<1> QED
  BY <1>1, InStepKept, EndKept, SessionTypeCorrect, PTL DEF Spec
=============================================================================
