------------------------- MODULE StreamRoutingProofs -------------------------
(***************************************************************************)
(* Proofs about StreamRouting for any number of connections and streams.   *)
(*                                                                         *)
(* SubscribersBackLinked and SubscribersServed are not inductive alone: a  *)
(* connection that subscribes must not be in any set yet.  It is not,      *)
(* since its pointer is still NULL: Unsubscribed says so of every object   *)
(* that has not subscribed and of every freed slot.                        *)
(***************************************************************************)
EXTENDS StreamRouting, TLAPS

Unsubscribed ==
  /\ \A x \in Conns \ alive : publisher_[x] = None
  /\ \A x \in Rtmp : role_[x] = "unknown" => publisher_[x] = None

IInv ==
  /\ TypeOK
  /\ Unsubscribed
  /\ SubscribersBackLinked
  /\ HeadersGateDelivery
  /\ SubscribersServed
  /\ RtmpRegistrationLive

-----------------------------------------------------------------------------
(* The two operators that move pointers, stated once.                      *)

LEMMA ConnsFacts ==
  /\ Publishers \subseteq Conns /\ Rtmp \subseteq Publishers /\ Srt \subseteq Publishers
  /\ Flv \subseteq Conns
  /\ None \notin Conns /\ None \notin Keys
  /\ Rtmp \cap Flv = {} /\ Rtmp \cap Srt = {} /\ Flv \cap Srt = {}
BY ConnsAssumption DEF Conns, Publishers

\* Subscribing keeps the type invariant of the pointers, links both ways
\* and leaves every other connection where it was.
LEMMA SubscribeKeepsLinks ==
  ASSUME IInv, NEW s \in Conns, NEW p \in Publishers,
         alive' = alive \cup {s}, publisher_[s] = None, header' = header,
         broken \subseteq broken', broken' \subseteq broken \cup {s},
         Subscribe(p, s)
  PROVE  /\ publisher_' \in [Conns -> Publishers \cup {None}]
         /\ subscriber_' \in [Publishers -> SUBSET Conns]
         /\ wait_header_subscriber_' \in [Publishers -> SUBSET Conns]
         /\ orphans' \subseteq alive'
         /\ publisher_' = [publisher_ EXCEPT ![s] = p]
         /\ SubscribersBackLinked'
         /\ HeadersGateDelivery'
         /\ SubscribersServed'
<1>0. p \in Conns /\ p # None /\ s # None /\ None \notin Publishers
  BY ConnsFacts
<1>1. CASE p \notin alive'
  <2>1. UNCHANGED <<subscriber_, wait_header_subscriber_>>
        /\ publisher_' = [publisher_ EXCEPT ![s] = p]
        /\ orphans' = orphans \cup {s}
    BY <1>1 DEF Subscribe
  <2>2. SubscribersBackLinked'
    BY <2>1, <1>0 DEF IInv, TypeOK, SubscribersBackLinked
  <2>3. HeadersGateDelivery'
    BY <2>1 DEF IInv, HeadersGateDelivery, HasHeaders
  <2>4. SubscribersServed'
    BY <2>1 DEF IInv, TypeOK, SubscribersServed, Subscribed, Unsubscribed
  <2> QED
    BY <2>1, <2>2, <2>3, <2>4 DEF IInv, TypeOK
<1>2. CASE p \in alive'
  <2>1. AddSubscriber(p, s) /\ orphans' = orphans
    BY <1>2 DEF Subscribe
  <2>2. /\ publisher_' = [publisher_ EXCEPT ![s] = p]
        /\ subscriber_' \in [Publishers -> SUBSET Conns]
        /\ wait_header_subscriber_' \in [Publishers -> SUBSET Conns]
    BY <2>1 DEF IInv, TypeOK, AddSubscriber
  <2>3. \A q \in Publishers :
          /\ s \notin subscriber_[q] /\ s \notin wait_header_subscriber_[q]
          /\ subscriber_'[q] = IF q = p /\ HasHeaders(p)
                               THEN subscriber_[q] \cup {s} ELSE subscriber_[q]
          /\ wait_header_subscriber_'[q] = IF q = p /\ ~HasHeaders(p)
                               THEN wait_header_subscriber_[q] \cup {s}
                               ELSE wait_header_subscriber_[q]
    <3>1. \A q \in Publishers : s \notin subscriber_[q] /\ s \notin wait_header_subscriber_[q]
      BY <1>0 DEF IInv, SubscribersBackLinked
    <3>2. CASE HasHeaders(p)
      BY <2>1, <3>1, <3>2 DEF IInv, TypeOK, AddSubscriber
    <3>3. CASE ~HasHeaders(p)
      BY <2>1, <3>1, <3>3 DEF IInv, TypeOK, AddSubscriber
    <3> QED
      BY <3>2, <3>3
  <2>4. SubscribersBackLinked'
    <3> SUFFICES ASSUME NEW q \in Publishers
                 PROVE  /\ subscriber_'[q] \cap wait_header_subscriber_'[q] = {}
                        /\ \A t \in subscriber_'[q] \cup wait_header_subscriber_'[q] :
                             q \in alive' /\ t \in alive' /\ publisher_'[t] = q
      BY DEF SubscribersBackLinked
    <3>1. /\ subscriber_[q] \cap wait_header_subscriber_[q] = {}
          /\ \A t \in subscriber_[q] \cup wait_header_subscriber_[q] :
               /\ q \in alive /\ t \in alive /\ publisher_[t] = q
               /\ t # s /\ t \in Conns
      <4>1. s \notin subscriber_[q] /\ s \notin wait_header_subscriber_[q]
        BY <2>3
      <4>2. subscriber_[q] \subseteq Conns /\ wait_header_subscriber_[q] \subseteq Conns
        BY DEF IInv, TypeOK
      <4>3. /\ subscriber_[q] \cap wait_header_subscriber_[q] = {}
            /\ \A t \in subscriber_[q] \cup wait_header_subscriber_[q] :
                 q \in alive /\ t \in alive /\ publisher_[t] = q
        BY DEF IInv, SubscribersBackLinked
      <4> QED
        BY <4>1, <4>2, <4>3
    <3>2. /\ publisher_'[s] = p
          /\ \A t \in Conns : t # s => publisher_'[t] = publisher_[t]
      BY <2>2 DEF IInv, TypeOK
    <3>3. /\ s \notin subscriber_[q] /\ s \notin wait_header_subscriber_[q]
          /\ subscriber_'[q] = IF q = p /\ HasHeaders(p)
                               THEN subscriber_[q] \cup {s} ELSE subscriber_[q]
          /\ wait_header_subscriber_'[q] = IF q = p /\ ~HasHeaders(p)
                               THEN wait_header_subscriber_[q] \cup {s}
                               ELSE wait_header_subscriber_[q]
      BY <2>3
    <3> HIDE DEF IInv, HasHeaders
    <3> QED
      BY <3>1, <3>2, <3>3, <1>2
  <2>5. HeadersGateDelivery'
    BY <2>3 DEF IInv, HeadersGateDelivery, HasHeaders
  <2>6. SubscribersServed'
    BY <2>1, <2>2, <2>3 DEF IInv, TypeOK, SubscribersServed, Subscribed, Unsubscribed
  <2> QED
    BY <2>1, <2>2, <2>4, <2>5, <2>6 DEF IInv, TypeOK
<1> QED
  BY <1>1, <1>2

\* Freeing a connection leaves no pointer to it in any publisher's set, and
\* turns its own subscribers into orphans.
LEMMA DestroyKeepsLinks ==
  ASSUME IInv, NEW x \in alive, Destroy(x)
  PROVE  /\ alive' \subseteq Conns /\ x \notin alive'
         /\ app_' \subseteq Rtmp
         /\ register_publisher_stream_' \subseteq Srt
         /\ publisher_' = [publisher_ EXCEPT ![x] = None]
         /\ publisher_' \in [Conns -> Publishers \cup {None}]
         /\ header' \in [Publishers -> SUBSET Headers]
         /\ subscriber_' \in [Publishers -> SUBSET Conns]
         /\ wait_header_subscriber_' \in [Publishers -> SUBSET Conns]
         /\ broken' \subseteq alive'
         /\ orphans' \subseteq alive'
         /\ SubscribersBackLinked'
         /\ HeadersGateDelivery'
         /\ SubscribersServed'
<1>0. x \in Conns /\ x # None /\ None \notin Publishers
  BY ConnsFacts DEF IInv, TypeOK
<1>1. /\ alive' = alive \ {x}
      /\ app_' = app_ \ {x}
      /\ register_publisher_stream_' = register_publisher_stream_ \ {x}
      /\ broken' = broken \ {x}
      /\ publisher_' = [publisher_ EXCEPT ![x] = None]
      /\ orphans' = (orphans \cup Subscribed(x)) \ {x}
  BY DEF Destroy
<1>2. \A q \in Publishers :
        /\ subscriber_[q] \subseteq Conns
        /\ wait_header_subscriber_[q] \subseteq Conns
        /\ header[q] \subseteq Headers
        /\ subscriber_'[q] = IF q = x THEN {} ELSE subscriber_[q] \ {x}
        /\ wait_header_subscriber_'[q] = IF q = x THEN {} ELSE wait_header_subscriber_[q] \ {x}
        /\ header'[q] = IF q = x THEN {} ELSE header[q]
  <2> SUFFICES ASSUME NEW q \in Publishers
               PROVE  /\ subscriber_[q] \subseteq Conns
                      /\ wait_header_subscriber_[q] \subseteq Conns
                      /\ header[q] \subseteq Headers
                      /\ subscriber_'[q] = IF q = x THEN {} ELSE subscriber_[q] \ {x}
                      /\ wait_header_subscriber_'[q] =
                           IF q = x THEN {} ELSE wait_header_subscriber_[q] \ {x}
                      /\ header'[q] = IF q = x THEN {} ELSE header[q]
    OBVIOUS
  <2>1. q # publisher_[x] => x \notin subscriber_[q] /\ x \notin wait_header_subscriber_[q]
    BY DEF IInv, SubscribersBackLinked
  <2>2. /\ subscriber_'[q] = IF q = x THEN {} ELSE RemoveSubscriber(subscriber_, x)[q]
        /\ wait_header_subscriber_'[q] =
             IF q = x THEN {} ELSE RemoveSubscriber(wait_header_subscriber_, x)[q]
        /\ header'[q] = IF q = x THEN {} ELSE header[q]
    BY DEF Destroy
  <2>3. /\ RemoveSubscriber(subscriber_, x)[q] = subscriber_[q] \ {x}
        /\ RemoveSubscriber(wait_header_subscriber_, x)[q] = wait_header_subscriber_[q] \ {x}
    BY <2>1 DEF RemoveSubscriber
  <2> QED
    BY <2>2, <2>3 DEF IInv, TypeOK
<1>3. /\ header' \in [Publishers -> SUBSET Headers]
      /\ subscriber_' \in [Publishers -> SUBSET Conns]
      /\ wait_header_subscriber_' \in [Publishers -> SUBSET Conns]
  BY <1>2 DEF Destroy
<1>4. Subscribed(x) \subseteq alive
  BY DEF Subscribed, IInv, SubscribersBackLinked
<1>5. SubscribersBackLinked'
  <2> SUFFICES ASSUME NEW q \in Publishers
               PROVE  /\ subscriber_'[q] \cap wait_header_subscriber_'[q] = {}
                      /\ \A t \in subscriber_'[q] \cup wait_header_subscriber_'[q] :
                           q \in alive' /\ t \in alive' /\ publisher_'[t] = q
    BY DEF SubscribersBackLinked
  <2>1. /\ subscriber_[q] \cap wait_header_subscriber_[q] = {}
        /\ \A t \in subscriber_[q] \cup wait_header_subscriber_[q] :
             q \in alive /\ t \in alive /\ publisher_[t] = q
    BY DEF IInv, SubscribersBackLinked
  <2>2. /\ subscriber_[q] \subseteq Conns /\ wait_header_subscriber_[q] \subseteq Conns
        /\ subscriber_'[q] = IF q = x THEN {} ELSE subscriber_[q] \ {x}
        /\ wait_header_subscriber_'[q] = IF q = x THEN {} ELSE wait_header_subscriber_[q] \ {x}
    BY <1>2
  <2>3. \A t \in Conns : t # x => publisher_'[t] = publisher_[t]
    BY <1>1 DEF IInv, TypeOK
  <2> QED
    BY <1>1, <2>1, <2>2, <2>3
<1>6. HeadersGateDelivery'
  BY <1>2 DEF IInv, HeadersGateDelivery, HasHeaders, Headers
<1>7. SubscribersServed'
  <2> SUFFICES ASSUME NEW s \in alive', s \notin orphans', s \notin broken',
                      publisher_'[s] # None
               PROVE  s \in Subscribed(publisher_[s])' /\ publisher_'[s] = publisher_[s]
    BY DEF SubscribersServed, Subscribed
  <2>1. s \in alive /\ s # x /\ s \in Conns /\ publisher_'[s] = publisher_[s]
    BY <1>0, <1>1 DEF IInv, TypeOK
  <2>2. s \notin orphans /\ s \notin broken /\ s \notin Subscribed(x)
    BY <1>1, <2>1
  <2>3. s \in Subscribed(publisher_[s])
    BY <2>1, <2>2 DEF IInv, SubscribersServed
  <2>4. publisher_[s] # x /\ publisher_[s] \in Publishers
    BY <2>1, <2>2, <2>3 DEF IInv, TypeOK
  <2> QED
    BY <1>2, <2>1, <2>3, <2>4 DEF Subscribed
<1> QED
  BY <1>0, <1>1, <1>3, <1>4, <1>5, <1>6, <1>7 DEF IInv, TypeOK

-----------------------------------------------------------------------------
(* The invariant is inductive.                                             *)

LEMMA InitEstablishesIInv == Init => IInv
BY ConnsFacts DEF Init, IInv, TypeOK, Unsubscribed, SubscribersBackLinked,
   HeadersGateDelivery, HasHeaders, SubscribersServed, RtmpRegistrationLive,
   Roles, Headers

\* Accepting a connection that subscribes to nobody yet.
LEMMA AcceptKeepsIInv ==
  ASSUME IInv, NEW x \in Conns, AcceptRtmp(x) \/ AcceptFlv(x)
  PROVE  IInv'
<1>1. /\ x \notin alive /\ alive' = alive \cup {x}
      /\ UNCHANGED <<app_, register_publisher_stream_, header, pointers,
                     app_stream_publisher_, broken>>
  BY DEF AcceptRtmp, AcceptFlv, session
<1>2. /\ role_' \in [Rtmp -> Roles] /\ stream_' \in [Rtmp -> Keys \cup {None}]
      /\ \A y \in Rtmp : y # x => role_'[y] = role_[y] /\ stream_'[y] = stream_[y]
  BY DEF AcceptRtmp, AcceptFlv, session, IInv, TypeOK, Roles
<1>3. publisher_[x] = None
  BY <1>1 DEF IInv, Unsubscribed
<1>4. TypeOK'
  BY <1>1, <1>2 DEF IInv, TypeOK, pointers
<1>5. Unsubscribed'
  BY <1>1, <1>2, <1>3 DEF IInv, Unsubscribed, pointers
<1>6. SubscribersBackLinked'
  BY <1>1 DEF IInv, SubscribersBackLinked, pointers
<1>7. HeadersGateDelivery'
  BY <1>1 DEF IInv, HeadersGateDelivery, HasHeaders, pointers
<1>8. SubscribersServed'
  BY <1>1, <1>3 DEF IInv, SubscribersServed, Subscribed, pointers
<1>9. RtmpRegistrationLive'
  BY <1>1, <1>2 DEF IInv, RtmpRegistrationLive
<1> QED
  BY <1>4, <1>5, <1>6, <1>7, <1>8, <1>9 DEF IInv

\* A step that subscribes s and otherwise touches only s's own session.
LEMMA SubscribeKeepsIInv ==
  ASSUME IInv, NEW s \in Conns, NEW p \in Publishers,
         alive' = alive \cup {s}, publisher_[s] = None,
         UNCHANGED <<app_, register_publisher_stream_, header, app_stream_publisher_>>,
         broken \subseteq broken', broken' \subseteq broken \cup {s},
         role_' \in [Rtmp -> Roles], stream_' \in [Rtmp -> Keys \cup {None}],
         \A y \in Rtmp : y # s => role_'[y] = role_[y] /\ stream_'[y] = stream_[y],
         s \in Rtmp => role_[s] = "unknown" /\ role_'[s] = "pull",
         Subscribe(p, s)
  PROVE  IInv'
<1>1. /\ publisher_' \in [Conns -> Publishers \cup {None}]
      /\ subscriber_' \in [Publishers -> SUBSET Conns]
      /\ wait_header_subscriber_' \in [Publishers -> SUBSET Conns]
      /\ orphans' \subseteq alive'
      /\ publisher_' = [publisher_ EXCEPT ![s] = p]
      /\ SubscribersBackLinked'
      /\ HeadersGateDelivery'
      /\ SubscribersServed'
  BY SubscribeKeepsLinks
<1>2. TypeOK'
  BY <1>1 DEF IInv, TypeOK
<1>3. Unsubscribed'
  BY <1>1, ConnsFacts DEF IInv, TypeOK, Unsubscribed
<1>4. RtmpRegistrationLive'
  BY DEF IInv, RtmpRegistrationLive
<1> QED
  BY <1>1, <1>2, <1>3, <1>4 DEF IInv

\* A step that frees x and, when x published a stream, unregisters it.
LEMMA DestroyKeepsIInv ==
  ASSUME IInv, NEW x \in alive, Destroy(x),
         role_' \in [Rtmp -> Roles], stream_' \in [Rtmp -> Keys \cup {None}],
         \A y \in Rtmp : y # x => role_'[y] = role_[y] /\ stream_'[y] = stream_[y],
         \A k \in Keys : app_stream_publisher_[k] = x /\ x \in Rtmp
                           => app_stream_publisher_'[k] = None,
         \A k \in Keys : app_stream_publisher_'[k] \in {app_stream_publisher_[k], None},
         app_stream_publisher_' \in [Keys -> Publishers \cup {None}]
  PROVE  IInv'
<1>1. /\ alive' \subseteq Conns /\ x \notin alive' /\ alive' = alive \ {x}
      /\ app_' \subseteq Rtmp
      /\ register_publisher_stream_' \subseteq Srt
      /\ publisher_' = [publisher_ EXCEPT ![x] = None]
      /\ publisher_' \in [Conns -> Publishers \cup {None}]
      /\ header' \in [Publishers -> SUBSET Headers]
      /\ subscriber_' \in [Publishers -> SUBSET Conns]
      /\ wait_header_subscriber_' \in [Publishers -> SUBSET Conns]
      /\ broken' \subseteq alive'
      /\ orphans' \subseteq alive'
      /\ SubscribersBackLinked'
      /\ HeadersGateDelivery'
      /\ SubscribersServed'
  BY DestroyKeepsLinks DEF Destroy
<1>2. TypeOK'
  BY <1>1 DEF IInv, TypeOK
<1>3. Unsubscribed'
  <2>1. x \in Conns /\ publisher_'[x] = None
        /\ \A y \in Conns : y # x => publisher_'[y] = publisher_[y]
    BY <1>1 DEF IInv, TypeOK
  <2> QED
    BY <2>1, <1>1, ConnsFacts DEF IInv, Unsubscribed
<1>4. RtmpRegistrationLive'
  <2> SUFFICES ASSUME NEW k \in Keys, app_stream_publisher_'[k] \in Rtmp
               PROVE  LET y == app_stream_publisher_'[k]
                      IN  y \in alive' /\ role_'[y] = "push" /\ stream_'[y] = k
    BY DEF RtmpRegistrationLive
  <2>1. app_stream_publisher_'[k] = app_stream_publisher_[k]
        /\ app_stream_publisher_[k] # x
    BY ConnsFacts
  <2> QED
    BY <2>1, <1>1 DEF IInv, RtmpRegistrationLive
<1> QED
  BY <1>1, <1>2, <1>3, <1>4 DEF IInv

\* A publisher's registration, or the loss of one.
LEMMA PublishKeepsIInv ==
  ASSUME IInv, NEW x \in Rtmp, NEW k \in Keys, NEW fails \in BOOLEAN,
         RtmpPublish(x, k, fails)
  PROVE  IInv'
<1>1. /\ x \in alive /\ x \in Conns /\ role_[x] = "unknown" /\ x # None
      /\ role_' = [role_ EXCEPT ![x] = "push"]
      /\ stream_' = [stream_ EXCEPT ![x] = k]
      /\ broken' = IF fails THEN broken \cup {x} ELSE broken
      /\ UNCHANGED <<alive, app_, register_publisher_stream_, header, pointers>>
  BY ConnsFacts DEF RtmpPublish, Ready
<1>2. /\ app_stream_publisher_' \in [Keys -> Publishers \cup {None}]
      /\ \A j \in Keys : j # k => app_stream_publisher_'[j] = app_stream_publisher_[j]
      /\ app_stream_publisher_'[k] \in {None, app_stream_publisher_[k], x}
  BY ConnsFacts DEF RtmpPublish, RegisterStream, UnRegisterStream, IInv, TypeOK
<1>3. TypeOK'
  BY <1>1, <1>2 DEF IInv, TypeOK, Roles, pointers
<1>4. Unsubscribed'
  BY <1>1 DEF IInv, TypeOK, Unsubscribed, pointers
<1>5. SubscribersBackLinked'
  BY <1>1 DEF IInv, SubscribersBackLinked, pointers
<1>6. HeadersGateDelivery'
  BY <1>1 DEF IInv, HeadersGateDelivery, HasHeaders, pointers
<1>7. SubscribersServed'
  BY <1>1 DEF IInv, SubscribersServed, Subscribed, pointers
<1>8. RtmpRegistrationLive'
  <2> SUFFICES ASSUME NEW j \in Keys, app_stream_publisher_'[j] \in Rtmp
               PROVE  LET y == app_stream_publisher_'[j]
                      IN  y \in alive' /\ role_'[y] = "push" /\ stream_'[y] = j
    BY DEF RtmpRegistrationLive
  <2>1. CASE j = k /\ app_stream_publisher_'[j] = x
    BY <2>1, <1>1 DEF IInv, TypeOK
  <2>2. CASE ~(j = k /\ app_stream_publisher_'[j] = x)
    <3>1. app_stream_publisher_'[j] = app_stream_publisher_[j]
      BY <2>2, <1>2, ConnsFacts
    <3>2. app_stream_publisher_[j] # x
      BY <3>1, <1>1 DEF IInv, RtmpRegistrationLive
    <3> QED
      BY <3>1, <3>2, <1>1 DEF IInv, TypeOK, RtmpRegistrationLive
  <2> QED
    BY <2>1, <2>2
<1> QED
  BY <1>3, <1>4, <1>5, <1>6, <1>7, <1>8 DEF IInv

\* A header: either one of two, or the one that releases all who wait.
LEMMA HeaderKeepsIInv ==
  ASSUME IInv, NEW p \in Publishers, NEW h \in Headers, NEW F \in SUBSET Conns,
         Header(p, h, F)
  PROVE  IInv'
<1>1. /\ p \in alive /\ h \notin header[p]
      /\ F \subseteq wait_header_subscriber_[p]
      /\ header' = [header EXCEPT ![p] = @ \cup {h}]
      /\ broken \subseteq broken' /\ broken' \subseteq broken \cup F
      /\ UNCHANGED <<alive, session, publisher_, orphans, app_stream_publisher_>>
  BY DEF Header, Publishing
<1>2. /\ header' \in [Publishers -> SUBSET Headers]
      /\ \A q \in Publishers : header'[q] = IF q = p THEN header[p] \cup {h} ELSE header[q]
  BY <1>1 DEF IInv, TypeOK
<1>3. subscriber_[p] = {} /\ F \subseteq alive
  BY <1>1 DEF IInv, HeadersGateDelivery, HasHeaders, SubscribersBackLinked
<1>4. /\ subscriber_' \in [Publishers -> SUBSET Conns]
      /\ wait_header_subscriber_' \in [Publishers -> SUBSET Conns]
      /\ \A q \in Publishers :
           IF q = p /\ header'[p] = Headers
           THEN subscriber_'[q] = wait_header_subscriber_[q] /\ wait_header_subscriber_'[q] = {}
           ELSE subscriber_'[q] = subscriber_[q]
                /\ wait_header_subscriber_'[q] = wait_header_subscriber_[q]
  <2>1. CASE header'[p] = Headers
    BY <2>1, <1>3 DEF Header, IInv, TypeOK
  <2>2. CASE header'[p] # Headers
    BY <2>2 DEF Header, IInv, TypeOK
  <2> QED
    BY <2>1, <2>2
<1>5. TypeOK'
  BY <1>1, <1>2, <1>3, <1>4 DEF IInv, TypeOK, session
<1>6. Unsubscribed'
  BY <1>1 DEF IInv, Unsubscribed, session
<1>7. SubscribersBackLinked'
  <2> SUFFICES ASSUME NEW q \in Publishers
               PROVE  /\ subscriber_'[q] \cap wait_header_subscriber_'[q] = {}
                      /\ \A t \in subscriber_'[q] \cup wait_header_subscriber_'[q] :
                           q \in alive' /\ t \in alive' /\ publisher_'[t] = q
    BY DEF SubscribersBackLinked
  <2> QED
    BY <1>1, <1>4 DEF IInv, SubscribersBackLinked
<1>8. HeadersGateDelivery'
  BY <1>1, <1>2, <1>3, <1>4 DEF IInv, HeadersGateDelivery, HasHeaders
<1>9. SubscribersServed'
  <2>1. \A q \in Publishers :
          subscriber_'[q] \cup wait_header_subscriber_'[q]
            = subscriber_[q] \cup wait_header_subscriber_[q]
    BY <1>3, <1>4
  <2>2. \A q : Subscribed(q)' = Subscribed(q)
    BY <2>1 DEF Subscribed
  <2> QED
    BY <1>1, <2>2 DEF IInv, SubscribersServed
<1>10. RtmpRegistrationLive'
  BY <1>1 DEF IInv, RtmpRegistrationLive, session
<1> QED
  BY <1>5, <1>6, <1>7, <1>8, <1>9, <1>10 DEF IInv

\* A failed Send removes the subscriber it was for from both sets.
LEMMA BroadcastKeepsIInv ==
  ASSUME IInv, NEW p \in Publishers, NEW s \in Conns, BroadcastFails(p, s)
  PROVE  IInv'
<1>1. /\ s \in subscriber_[p] /\ s \in alive /\ publisher_[s] = p
      /\ broken' = broken \cup {s}
      /\ UNCHANGED <<alive, session, header, publisher_, orphans, app_stream_publisher_>>
  BY DEF BroadcastFails, IInv, SubscribersBackLinked
<1>2. /\ subscriber_' \in [Publishers -> SUBSET Conns]
      /\ wait_header_subscriber_' \in [Publishers -> SUBSET Conns]
      /\ \A q \in Publishers :
           /\ subscriber_'[q] = IF q = p THEN subscriber_[q] \ {s} ELSE subscriber_[q]
           /\ wait_header_subscriber_'[q] =
                IF q = p THEN wait_header_subscriber_[q] \ {s} ELSE wait_header_subscriber_[q]
  BY <1>1 DEF BroadcastFails, RemoveSubscriber, IInv, TypeOK
<1>3. TypeOK'
  BY <1>1, <1>2 DEF IInv, TypeOK, session
<1>4. Unsubscribed'
  BY <1>1 DEF IInv, Unsubscribed, session
<1>5. SubscribersBackLinked'
  BY <1>1, <1>2 DEF IInv, SubscribersBackLinked
<1>6. HeadersGateDelivery'
  BY <1>1, <1>2 DEF IInv, HeadersGateDelivery, HasHeaders
<1>7. SubscribersServed'
  BY <1>1, <1>2 DEF IInv, SubscribersServed, Subscribed
<1>8. RtmpRegistrationLive'
  BY <1>1 DEF IInv, RtmpRegistrationLive, session
<1> QED
  BY <1>3, <1>4, <1>5, <1>6, <1>7, <1>8 DEF IInv

LEMMA NextKeepsIInv == IInv /\ [Next]_vars => IInv'
<1> SUFFICES ASSUME IInv, [Next]_vars PROVE IInv'
  OBVIOUS
<1> USE ConnsFacts
<1>1. CASE UNCHANGED vars
  BY <1>1 DEF vars, session, pointers, IInv, TypeOK, Unsubscribed, SubscribersBackLinked,
     HeadersGateDelivery, HasHeaders, SubscribersServed, Subscribed, RtmpRegistrationLive
<1>2. ASSUME NEW x \in Conns, AcceptRtmp(x) \/ AcceptFlv(x) PROVE IInv'
  BY <1>2, AcceptKeepsIInv
<1>3. ASSUME NEW x \in Conns, AcceptSrt(x) PROVE IInv'
  <2>1. /\ x \in Srt /\ x \notin alive /\ alive' = alive \cup {x} /\ publisher_[x] = None
        /\ UNCHANGED <<session, header, app_stream_publisher_, broken>>
    BY <1>3 DEF AcceptSrt, IInv, Unsubscribed
  <2>2. CASE UNCHANGED pointers
    <3>1. TypeOK'
      BY <2>1, <2>2 DEF IInv, TypeOK, session, pointers
    <3>2. Unsubscribed'
      BY <2>1, <2>2 DEF IInv, Unsubscribed, session, pointers
    <3>3. SubscribersBackLinked'
      BY <2>1, <2>2 DEF IInv, SubscribersBackLinked, pointers
    <3>4. HeadersGateDelivery'
      BY <2>1, <2>2 DEF IInv, HeadersGateDelivery, HasHeaders, pointers
    <3>5. SubscribersServed'
      BY <2>1, <2>2 DEF IInv, SubscribersServed, Subscribed, pointers
    <3>6. RtmpRegistrationLive'
      BY <2>1 DEF IInv, RtmpRegistrationLive, session
    <3> QED
      BY <3>1, <3>2, <3>3, <3>4, <3>5, <3>6 DEF IInv
  <2>3. CASE \E k \in Keys : /\ app_stream_publisher_[k] # None
                             /\ Subscribe(app_stream_publisher_[k], x)
    <3>1. PICK p \in Publishers : Subscribe(p, x)
      BY <2>3 DEF IInv, TypeOK
    <3>2. x \notin Rtmp /\ role_' = role_ /\ stream_' = stream_
      BY <2>1 DEF session
    <3>3. role_' \in [Rtmp -> Roles] /\ stream_' \in [Rtmp -> Keys \cup {None}]
      BY <3>2 DEF IInv, TypeOK
    <3> QED
      BY <2>1, <3>1, <3>2, <3>3, SubscribeKeepsIInv DEF session
  <2> QED
    BY <1>3, <2>2, <2>3 DEF AcceptSrt
<1>4. ASSUME NEW x \in Rtmp, NEW k \in Keys \cup {None}, NEW fails \in BOOLEAN,
             RtmpConnect(x, k, fails)
      PROVE  IInv'
  <2>1. /\ x \in alive /\ role_[x] = "unknown" /\ x # None
        /\ app_' = app_ \cup {x} /\ stream_' = [stream_ EXCEPT ![x] = k]
        /\ broken \subseteq broken' /\ broken' \subseteq broken \cup {x}
        /\ UNCHANGED <<alive, role_, register_publisher_stream_, header, pointers,
                       app_stream_publisher_>>
    BY <1>4 DEF RtmpConnect
  <2>2. TypeOK'
    BY <2>1 DEF IInv, TypeOK, pointers
  <2>3. Unsubscribed'
    BY <2>1 DEF IInv, Unsubscribed, pointers
  <2>4. SubscribersBackLinked'
    BY <2>1 DEF IInv, SubscribersBackLinked, pointers
  <2>5. HeadersGateDelivery'
    BY <2>1 DEF IInv, HeadersGateDelivery, HasHeaders, pointers
  <2>6. SubscribersServed'
    BY <2>1 DEF IInv, SubscribersServed, Subscribed, pointers
  <2>7. RtmpRegistrationLive'
    BY <2>1 DEF IInv, TypeOK, RtmpRegistrationLive
  <2> QED
    BY <2>2, <2>3, <2>4, <2>5, <2>6, <2>7 DEF IInv
<1>5. ASSUME NEW x \in Rtmp, NEW k \in Keys, NEW fails \in BOOLEAN, RtmpPublish(x, k, fails)
      PROVE  IInv'
  BY <1>5, PublishKeepsIInv
<1>6. ASSUME NEW x \in Rtmp, NEW k \in Keys, RtmpPublishRefused(x, k) PROVE IInv'
  <2>1. /\ x \in alive /\ role_[x] = "unknown" /\ Destroy(x)
        /\ role_' \in [Rtmp -> Roles] /\ stream_' \in [Rtmp -> Keys \cup {None}]
        /\ \A y \in Rtmp : y # x => role_'[y] = role_[y] /\ stream_'[y] = stream_[y]
    BY <1>6 DEF RtmpPublishRefused, Ready, IInv, TypeOK, Roles
  <2>2. \A j \in Keys : app_stream_publisher_[j] # x
    BY <2>1 DEF IInv, RtmpRegistrationLive
  <2>3. /\ app_stream_publisher_' \in [Keys -> Publishers \cup {None}]
        /\ \A j \in Keys : app_stream_publisher_'[j] \in {app_stream_publisher_[j], None}
    BY <1>6 DEF RtmpPublishRefused, UnRegisterStream, IInv, TypeOK
  <2> QED
    BY <2>1, <2>2, <2>3, DestroyKeepsIInv
<1>7. ASSUME NEW x \in Rtmp, NEW k \in Keys, RtmpPlayNotFound(x, k) PROVE IInv'
  <2>1. /\ x \in alive /\ role_[x] = "unknown" /\ Destroy(x)
        /\ role_' \in [Rtmp -> Roles] /\ stream_' \in [Rtmp -> Keys \cup {None}]
        /\ \A y \in Rtmp : y # x => role_'[y] = role_[y] /\ stream_'[y] = stream_[y]
        /\ app_stream_publisher_' = app_stream_publisher_
    BY <1>7 DEF RtmpPlayNotFound, Ready, IInv, TypeOK, Roles
  <2>2. \A j \in Keys : app_stream_publisher_[j] # x
    BY <2>1 DEF IInv, RtmpRegistrationLive
  <2>3. app_stream_publisher_ \in [Keys -> Publishers \cup {None}]
    BY DEF IInv, TypeOK
  <2> QED
    BY <2>1, <2>2, <2>3, DestroyKeepsIInv
<1>8. ASSUME NEW x \in Rtmp, NEW k \in Keys, NEW fails \in BOOLEAN, RtmpPlay(x, k, fails)
      PROVE  IInv'
  <2>1. /\ x \in alive /\ role_[x] = "unknown" /\ role_'[x] = "pull" /\ x \in Conns
        /\ role_' \in [Rtmp -> Roles] /\ stream_' \in [Rtmp -> Keys \cup {None}]
        /\ \A y \in Rtmp : y # x => role_'[y] = role_[y] /\ stream_'[y] = stream_[y]
        /\ broken \subseteq broken' /\ broken' \subseteq broken \cup {x}
        /\ UNCHANGED <<alive, app_, register_publisher_stream_, header, app_stream_publisher_>>
    BY <1>8 DEF RtmpPlay, Ready, IInv, TypeOK, Roles
  <2>2. publisher_[x] = None /\ alive' = alive \cup {x}
    BY <2>1 DEF IInv, Unsubscribed
  <2>3. PICK p \in Publishers : Subscribe(p, x)
    BY <1>8 DEF RtmpPlay, IInv, TypeOK
  <2> QED
    BY <2>1, <2>2, <2>3, SubscribeKeepsIInv
<1>9. ASSUME NEW x \in Flv, NEW k \in Keys, NEW fails \in BOOLEAN, FlvGet(x, k, fails)
      PROVE  IInv'
  <2>1. /\ x \in alive /\ x \in Conns /\ x \notin Rtmp /\ publisher_[x] = None
        /\ alive' = alive \cup {x}
        /\ broken \subseteq broken' /\ broken' \subseteq broken \cup {x}
        /\ UNCHANGED <<session, header, app_stream_publisher_>>
    BY <1>9 DEF FlvGet
  <2>2. role_' \in [Rtmp -> Roles] /\ stream_' \in [Rtmp -> Keys \cup {None}]
    BY <2>1 DEF session, IInv, TypeOK
  <2>3. PICK p \in Publishers : Subscribe(p, x)
    BY <1>9 DEF FlvGet, IInv, TypeOK
  <2> QED
    BY <2>1, <2>2, <2>3, SubscribeKeepsIInv DEF session
<1>10. ASSUME NEW x \in Flv, NEW k \in Keys, FlvGetNotFound(x, k) PROVE IInv'
  <2>1. /\ x \in alive /\ x \notin Rtmp /\ Destroy(x)
        /\ UNCHANGED <<role_, stream_, app_stream_publisher_>>
    BY <1>10 DEF FlvGetNotFound
  <2>2. /\ role_' \in [Rtmp -> Roles] /\ stream_' \in [Rtmp -> Keys \cup {None}]
        /\ app_stream_publisher_' \in [Keys -> Publishers \cup {None}]
    BY <2>1 DEF IInv, TypeOK
  <2> QED
    BY <2>1, <2>2, DestroyKeepsIInv
<1>11. ASSUME NEW x \in Srt, NEW k \in Keys, SrtData(x, k) PROVE IInv'
  <2>1. /\ register_publisher_stream_' = register_publisher_stream_ \cup {x}
        /\ UNCHANGED <<alive, app_, role_, stream_, header, pointers, broken>>
    BY <1>11 DEF SrtData
  <2>2. /\ app_stream_publisher_' \in [Keys -> Publishers \cup {None}]
        /\ \A j \in Keys : app_stream_publisher_'[j] \in {app_stream_publisher_[j], x}
    BY <1>11 DEF SrtData, RegisterStream, IInv, TypeOK
  <2>3. TypeOK'
    BY <2>1, <2>2 DEF IInv, TypeOK, pointers
  <2>4. Unsubscribed'
    BY <2>1 DEF IInv, Unsubscribed, pointers
  <2>5. SubscribersBackLinked'
    BY <2>1 DEF IInv, SubscribersBackLinked, pointers
  <2>6. HeadersGateDelivery'
    BY <2>1 DEF IInv, HeadersGateDelivery, HasHeaders, pointers
  <2>7. SubscribersServed'
    BY <2>1 DEF IInv, SubscribersServed, Subscribed, pointers
  <2>8. RtmpRegistrationLive'
    BY <2>1, <2>2 DEF IInv, RtmpRegistrationLive
  <2> QED
    BY <2>3, <2>4, <2>5, <2>6, <2>7, <2>8 DEF IInv
<1>12. ASSUME NEW p \in Publishers, NEW h \in Headers, NEW F \in SUBSET Conns, Header(p, h, F)
       PROVE  IInv'
  BY <1>12, HeaderKeepsIInv
<1>13. ASSUME NEW p \in Publishers, NEW s \in Conns, BroadcastFails(p, s) PROVE IInv'
  BY <1>13, BroadcastKeepsIInv
<1>14. ASSUME NEW x \in Conns, Close(x) PROVE IInv'
  <2>1. /\ x \in alive /\ Destroy(x) /\ UNCHANGED <<role_, stream_>>
        /\ role_' \in [Rtmp -> Roles] /\ stream_' \in [Rtmp -> Keys \cup {None}]
    BY <1>14 DEF Close, IInv, TypeOK
  <2>2. CASE x \in Rtmp /\ role_[x] = "push" /\ stream_[x] # None
    <3>1. /\ stream_[x] \in Keys
          /\ app_stream_publisher_' = [app_stream_publisher_ EXCEPT ![stream_[x]] = None]
      BY <1>14, <2>2 DEF Close, UnRegisterStream, IInv, TypeOK
    <3>2. /\ app_stream_publisher_' \in [Keys -> Publishers \cup {None}]
          /\ \A j \in Keys : app_stream_publisher_'[j] \in {app_stream_publisher_[j], None}
          /\ app_stream_publisher_'[stream_[x]] = None
      BY <3>1 DEF IInv, TypeOK
    <3>3. \A j \in Keys : app_stream_publisher_[j] = x => j = stream_[x]
      BY <2>2 DEF IInv, RtmpRegistrationLive
    <3> QED
      BY <2>1, <3>2, <3>3, DestroyKeepsIInv
  <2>3. CASE ~(x \in Rtmp /\ role_[x] = "push" /\ stream_[x] # None)
    <3>1. app_stream_publisher_' = app_stream_publisher_
      BY <1>14, <2>3 DEF Close
    <3>2. x \in Rtmp => \A j \in Keys : app_stream_publisher_[j] # x
      BY <2>3 DEF IInv, RtmpRegistrationLive
    <3>3. app_stream_publisher_ \in [Keys -> Publishers \cup {None}]
      BY DEF IInv, TypeOK
    <3> QED
      BY <2>1, <3>1, <3>2, <3>3, DestroyKeepsIInv
  <2> QED
    BY <2>2, <2>3
<1> QED
  BY <1>1, <1>2, <1>3, <1>4, <1>5, <1>6, <1>7, <1>8, <1>9, <1>10, <1>11, <1>12, <1>13, <1>14
     DEF Next, Accept, RtmpCommand, FlvRequest, Media

-----------------------------------------------------------------------------
(* Theorems.                                                               *)

\* The strengthened invariant holds in every behaviour of the server.
THEOREM RoutingInvariant == Spec => []IInv
<1>1. Init => IInv
  BY InitEstablishesIInv
<1>2. IInv /\ [Next]_vars => IInv'
  BY NextKeepsIInv
<1> QED
  BY <1>1, <1>2, PTL DEF Spec

\* Every variable keeps its type, whatever the connections and streams.
THEOREM RoutingTypeCorrect == Spec => []TypeOK
<1>1. IInv => TypeOK
  BY DEF IInv
<1> QED
  BY <1>1, RoutingInvariant, PTL

\* A publisher's sets hold open connections only, each once, each pointing
\* back at it: iterating subscriber_ never reaches a freed subscriber.
THEOREM NoFreedSubscriberHeld == Spec => []SubscribersBackLinked
<1>1. IInv => SubscribersBackLinked
  BY DEF IInv
<1> QED
  BY <1>1, RoutingInvariant, PTL

\* Nobody is served before both codec headers are there, and nobody is left
\* waiting once they are.
THEOREM HeadersBeforeMedia == Spec => []HeadersGateDelivery
<1>1. IInv => HeadersGateDelivery
  BY DEF IInv
<1> QED
  BY <1>1, RoutingInvariant, PTL

\* A subscriber is forgotten only by its own close, its publisher's, or a
\* failed Send.
THEOREM SubscribersNeverForgotten == Spec => []SubscribersServed
<1>1. IInv => SubscribersServed
  BY DEF IInv
<1> QED
  BY <1>1, RoutingInvariant, PTL

\* The registry never leads to a freed RTMP publisher, nor to one of another
\* stream.
THEOREM RtmpRegistrationsLive == Spec => []RtmpRegistrationLive
<1>1. IInv => RtmpRegistrationLive
  BY DEF IInv
<1> QED
  BY <1>1, RoutingInvariant, PTL

\* A stream is taken from the registry only by an RTMP publisher of its own
\* name: a player, a FLV client or an SRT connection ends nobody's stream.
THEOREM OnlyPublishersUnregister == Spec => RegistrationEndsWithAPublisher
<1>1. IInv /\ [Next]_vars => [EndsWithAPublisher]_vars
  <2> SUFFICES ASSUME IInv, Next, NEW k \in Keys,
                      app_stream_publisher_[k] # None,
                      app_stream_publisher_'[k] # app_stream_publisher_[k]
               PROVE  \E y \in Rtmp \cap alive :
                        /\ role_'[y] = "push" /\ stream_'[y] = k
                        /\ y \notin alive' \/ y \in broken'
    BY DEF EndsWithAPublisher
  <2>1. \/ \E x \in Rtmp, j \in Keys, fails \in BOOLEAN :
             RtmpPublish(x, j, fails) \/ RtmpPublishRefused(x, j)
        \/ \E x \in Srt, j \in Keys : SrtData(x, j)
        \/ \E x \in Conns : Close(x)
    BY DEF Next, Accept, RtmpCommand, FlvRequest, Media, AcceptRtmp, AcceptFlv, AcceptSrt,
       RtmpConnect, RtmpPlay, RtmpPlayNotFound, FlvGet, FlvGetNotFound, Header, BroadcastFails
  <2>2. ASSUME NEW x \in Rtmp, NEW j \in Keys, NEW fails \in BOOLEAN, RtmpPublish(x, j, fails)
        PROVE  x \in alive /\ role_'[x] = "push" /\ stream_'[x] = k /\ x \in broken'
    <3>1. fails
      BY <2>2 DEF RtmpPublish, RegisterStream, IInv, TypeOK
    <3>2. j = k
      BY <2>2, <3>1 DEF RtmpPublish, UnRegisterStream, IInv, TypeOK
    <3> QED
      BY <2>2, <3>1, <3>2 DEF RtmpPublish, Ready, IInv, TypeOK
  <2>3. ASSUME NEW x \in Rtmp, NEW j \in Keys, RtmpPublishRefused(x, j)
        PROVE  x \in alive /\ role_'[x] = "push" /\ stream_'[x] = k /\ x \notin alive'
    <3>1. j = k
      BY <2>3 DEF RtmpPublishRefused, UnRegisterStream, IInv, TypeOK
    <3> QED
      BY <2>3, <3>1 DEF RtmpPublishRefused, Ready, Destroy, IInv, TypeOK
  <2>4. ASSUME NEW x \in Srt, NEW j \in Keys, SrtData(x, j) PROVE FALSE
    BY <2>4 DEF SrtData, RegisterStream, IInv, TypeOK
  <2>5. ASSUME NEW x \in Conns, Close(x)
        PROVE  x \in Rtmp \cap alive /\ role_'[x] = "push" /\ stream_'[x] = k /\ x \notin alive'
    BY <2>5 DEF Close, Destroy, UnRegisterStream, IInv, TypeOK
  <2> QED
    BY <2>1, <2>2, <2>3, <2>4, <2>5
<1>2. IInv /\ [Next]_vars => IInv'
  BY NextKeepsIInv
<1> QED
  BY <1>1, <1>2, InitEstablishesIInv, PTL DEF Spec, RegistrationEndsWithAPublisher
=============================================================================
