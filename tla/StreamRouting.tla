---------------------------- MODULE StreamRouting ----------------------------
(***************************************************************************)
(* Who publishes what to whom: LocalStreamCenter (the registry of          *)
(* publishers), MediaPublisher (its two subscriber sets), MediaSubscriber  *)
(* (its pointer back) and the session handlers of RtmpProtocol,            *)
(* HttpFlvProtocol and SrtProtocol that tie them together.                 *)
(*                                                                         *)
(* The server is one thread; one action is one handler, run to its end by  *)
(* the event loop, the deletion of the connection included when the        *)
(* handler returns kClose or kError.  A connection is a slot of the heap,  *)
(* used again after it is freed, so a pointer that outlives its object may *)
(* come to point to another one of the same class.                         *)
(*                                                                         *)
(* Undefined behaviour.  Reaching into a freed publisher, erasing the      *)
(* element an iteration stands on, and clearing csid_head_ below Parse may *)
(* end the process or change nothing.  The first outcome is a behaviour    *)
(* that takes no further step, which Spec allows everywhere; the actions   *)
(* say what the second leaves.                                             *)
(*                                                                         *)
(* Environment: an RTMP client sends one connect, then one publish or one  *)
(* play, and only a publisher sends media; a FLV client sends one request. *)
(***************************************************************************)
EXTENDS FiniteSets

CONSTANTS
  Rtmp, Flv, Srt,   \* connection slots, by the class of their handler
  Keys,             \* app/stream pairs
  None              \* the NULL pointer, the empty name

Conns      == Rtmp \cup Flv \cup Srt
Publishers == Rtmp \cup Srt

ASSUME ConnsAssumption ==
  /\ Rtmp \cap Flv = {} /\ Rtmp \cap Srt = {} /\ Flv \cap Srt = {}
  /\ None \notin Conns \cup Keys

VARIABLES
  alive,                        \* slots that hold an object
  app_,                         \* RTMP connections whose app_ is set
  role_,                        \* of an RTMP connection
  stream_,                      \* of an RTMP connection; None while empty
  register_publisher_stream_,   \* SRT connections that registered once
  publisher_,                   \* of every subscriber (FLV: media_publisher_ too)
  header,                       \* codec headers a publisher's muxer holds
  subscriber_,                  \* of every publisher
  wait_header_subscriber_,
  app_stream_publisher_,        \* the registry
  broken,                       \* open connections on which a Send failed
  orphans                       \* subscribers whose publisher was freed

session  == <<app_, role_, stream_, register_publisher_stream_>>
pointers == <<publisher_, subscriber_, wait_header_subscriber_, orphans>>
vars     == <<alive, session, header, pointers, app_stream_publisher_, broken>>

Roles   == {"unknown", "push", "pull"}
Headers == {"audio", "video"}

TypeOK ==
  /\ alive \subseteq Conns
  /\ app_ \subseteq Rtmp
  /\ role_ \in [Rtmp -> Roles]
  /\ stream_ \in [Rtmp -> Keys \cup {None}]
  /\ register_publisher_stream_ \subseteq Srt
  /\ publisher_ \in [Conns -> Publishers \cup {None}]
  /\ header \in [Publishers -> SUBSET Headers]
  /\ subscriber_ \in [Publishers -> SUBSET Conns]
  /\ wait_header_subscriber_ \in [Publishers -> SUBSET Conns]
  /\ app_stream_publisher_ \in [Keys -> Publishers \cup {None}]
  /\ broken \subseteq alive
  /\ orphans \subseteq alive

Init ==
  /\ alive = {}
  /\ app_ = {}
  /\ role_ = [x \in Rtmp |-> "unknown"]
  /\ stream_ = [x \in Rtmp |-> None]
  /\ register_publisher_stream_ = {}
  /\ publisher_ = [x \in Conns |-> None]
  /\ header = [p \in Publishers |-> {}]
  /\ subscriber_ = [p \in Publishers |-> {}]
  /\ wait_header_subscriber_ = [p \in Publishers |-> {}]
  /\ app_stream_publisher_ = [k \in Keys |-> None]
  /\ broken = {}
  /\ orphans = {}

-----------------------------------------------------------------------------
(* LocalStreamCenter.  The operators return the new registry.  Those named *)
(* Slip... are slips of the definition after them, used to test that the   *)
(* properties notice: no specification here uses them.                     *)

RegisterStream(k, p) ==
  IF app_stream_publisher_[k] = None
  THEN [app_stream_publisher_ EXCEPT ![k] = p]
  ELSE app_stream_publisher_

\* The pointer passed is not compared: whoever is registered goes.
SlipUnRegisterInverted(k) == app_stream_publisher_   \* found: return false
SlipUnRegisterApp(k) == [j \in Keys |-> None]      \* the whole app erased

UnRegisterStream(k) == [app_stream_publisher_ EXCEPT ![k] = None]

-----------------------------------------------------------------------------
(* MediaPublisher.                                                         *)

HasHeaders(p) == header[p] = Headers

SlipAddSubscriberAtOnce(p, s) ==                 \* nobody waits
  /\ subscriber_' = [subscriber_ EXCEPT ![p] = @ \cup {s}]
  /\ UNCHANGED wait_header_subscriber_
  /\ publisher_' = [publisher_ EXCEPT ![s] = p]

AddSubscriber(p, s) ==
  /\ IF HasHeaders(p)
     THEN /\ subscriber_' = [subscriber_ EXCEPT ![p] = @ \cup {s}]
          /\ UNCHANGED wait_header_subscriber_
     ELSE /\ wait_header_subscriber_' = [wait_header_subscriber_ EXCEPT ![p] = @ \cup {s}]
          /\ UNCHANGED subscriber_
  /\ publisher_' = [publisher_ EXCEPT ![s] = p]

\* s subscribes to what the registry returned, freed or not.
Subscribe(p, s) ==
  \/ /\ p \in alive'
     /\ AddSubscriber(p, s)
     /\ UNCHANGED orphans
  \/ /\ p \notin alive'
     /\ publisher_' = [publisher_ EXCEPT ![s] = p]
     /\ orphans' = orphans \cup {s}
     /\ UNCHANGED <<subscriber_, wait_header_subscriber_>>

Subscribed(x) ==
  IF x \in Publishers THEN subscriber_[x] \cup wait_header_subscriber_[x] ELSE {}

\* The sets of f after s removed itself from its publisher's: f stands for
\* subscriber_ or wait_header_subscriber_, both of which RemoveSubscriber
\* erases s from.
RemoveSubscriber(f, s) ==
  [p \in Publishers |-> IF p = publisher_[s] THEN f[p] \ {s} ELSE f[p]]

-----------------------------------------------------------------------------
(* The end of a connection: HandleClose, then the destructors.  The        *)
(* registry is the caller's to update: it depends on the role.             *)

SlipDestroyLeavesWaiting(x) ==           \* only subscriber_ is erased from
  /\ alive' = alive \ {x}
  /\ app_' = app_ \ {x}
  /\ register_publisher_stream_' = register_publisher_stream_ \ {x}
  /\ broken' = broken \ {x}
  /\ publisher_' = [publisher_ EXCEPT ![x] = None]
  /\ subscriber_' = [p \in Publishers |->
       IF p = x THEN {} ELSE RemoveSubscriber(subscriber_, x)[p]]
  /\ wait_header_subscriber_' = [p \in Publishers |->
       IF p = x THEN {} ELSE wait_header_subscriber_[p]]
  /\ header' = [p \in Publishers |-> IF p = x THEN {} ELSE header[p]]
  /\ orphans' = (orphans \cup Subscribed(x)) \ {x}

Destroy(x) ==
  /\ alive' = alive \ {x}
  /\ app_' = app_ \ {x}
  /\ register_publisher_stream_' = register_publisher_stream_ \ {x}
  /\ broken' = broken \ {x}
  /\ publisher_' = [publisher_ EXCEPT ![x] = None]
  /\ subscriber_' = [p \in Publishers |->
       IF p = x THEN {} ELSE RemoveSubscriber(subscriber_, x)[p]]
  /\ wait_header_subscriber_' = [p \in Publishers |->
       IF p = x THEN {} ELSE RemoveSubscriber(wait_header_subscriber_, x)[p]]
  /\ header' = [p \in Publishers |-> IF p = x THEN {} ELSE header[p]]
  /\ orphans' = (orphans \cup Subscribed(x)) \ {x}

\* The peer closes, or a read fails.  Only an RTMP publisher unregisters.
Close(x) ==
  /\ x \in alive
  /\ Destroy(x)
  /\ IF x \in Rtmp /\ role_[x] = "push" /\ stream_[x] # None
     THEN app_stream_publisher_' = UnRegisterStream(stream_[x])
     ELSE UNCHANGED app_stream_publisher_
  /\ UNCHANGED <<role_, stream_>>

-----------------------------------------------------------------------------
(* RtmpProtocol.  fails tells whether a Send of the reply fails, which     *)
(* runs HandleClose and leaves the connection open.                        *)

AcceptRtmp(x) ==
  /\ x \in Rtmp \ alive
  /\ alive' = alive \cup {x}
  /\ role_' = [role_ EXCEPT ![x] = "unknown"]
  /\ stream_' = [stream_ EXCEPT ![x] = None]
  /\ UNCHANGED <<app_, register_publisher_stream_, header, pointers,
                 app_stream_publisher_, broken>>

\* tcUrl may already name the stream.
RtmpConnect(x, tcUrlStream, fails) ==
  /\ x \in (Rtmp \cap alive) \ app_
  /\ role_[x] = "unknown"
  /\ app_' = app_ \cup {x}
  /\ stream_' = [stream_ EXCEPT ![x] = tcUrlStream]
  /\ broken' = IF fails THEN broken \cup {x} ELSE broken
  /\ UNCHANGED <<alive, role_, register_publisher_stream_, header, pointers,
                 app_stream_publisher_>>

Ready(x) == x \in Rtmp \cap alive \cap app_ /\ role_[x] = "unknown"

\* The stream is named by the publish command: a refusal is an error, and
\* the close that follows unregisters the stream it was refused.
RtmpPublishRefused(x, k) ==
  /\ Ready(x)
  /\ stream_[x] = None
  /\ app_stream_publisher_[k] # None
  /\ role_' = [role_ EXCEPT ![x] = "push"]
  /\ stream_' = [stream_ EXCEPT ![x] = k]
  /\ app_stream_publisher_' = UnRegisterStream(k)
  /\ Destroy(x)

\* Registered, or refused a stream that tcUrl had named, which is not an
\* error: either way the connection publishes from here on.
RtmpPublish(x, k, fails) ==
  /\ Ready(x)
  /\ stream_[x] \in {None, k}
  /\ stream_[x] = None => app_stream_publisher_[k] = None
  /\ role_' = [role_ EXCEPT ![x] = "push"]
  /\ stream_' = [stream_ EXCEPT ![x] = k]
  /\ app_stream_publisher_' =
       IF fails THEN UnRegisterStream(k) ELSE RegisterStream(k, x)
  /\ broken' = IF fails THEN broken \cup {x} ELSE broken
  /\ UNCHANGED <<alive, app_, register_publisher_stream_, header, pointers>>

RtmpPlayNotFound(x, k) ==
  /\ Ready(x)
  /\ stream_[x] \in {None, k}
  /\ app_stream_publisher_[k] = None
  /\ role_' = [role_ EXCEPT ![x] = "pull"]
  /\ stream_' = [stream_ EXCEPT ![x] = k]
  /\ Destroy(x)
  /\ UNCHANGED app_stream_publisher_

RtmpPlay(x, k, fails) ==
  /\ Ready(x)
  /\ stream_[x] \in {None, k}
  /\ app_stream_publisher_[k] # None
  /\ role_' = [role_ EXCEPT ![x] = "pull"]
  /\ stream_' = [stream_ EXCEPT ![x] = k]
  /\ UNCHANGED <<alive, app_, register_publisher_stream_, header, app_stream_publisher_>>
  /\ Subscribe(app_stream_publisher_[k], x)
  /\ broken' = IF fails THEN broken \cup {x} ELSE broken

-----------------------------------------------------------------------------
(* HttpFlvProtocol.                                                        *)

AcceptFlv(x) ==
  /\ x \in Flv \ alive
  /\ alive' = alive \cup {x}
  /\ UNCHANGED <<session, header, pointers, app_stream_publisher_, broken>>

FlvGet(x, k, fails) ==
  /\ x \in Flv \cap alive
  /\ publisher_[x] = None
  /\ app_stream_publisher_[k] # None
  /\ UNCHANGED <<alive, session, header, app_stream_publisher_>>
  /\ Subscribe(app_stream_publisher_[k], x)
  /\ broken' = IF fails THEN broken \cup {x} ELSE broken

FlvGetNotFound(x, k) ==
  /\ x \in Flv \cap alive
  /\ publisher_[x] = None
  /\ app_stream_publisher_[k] = None
  /\ Destroy(x)
  /\ UNCHANGED <<role_, stream_, app_stream_publisher_>>

-----------------------------------------------------------------------------
(* SrtProtocol.  Its constructor runs before the stream id is set, so the  *)
(* lookup by name finds nothing and any registered publisher is taken.     *)
(* srt_sendmsg's result is ignored: a Send to an SRT subscriber never      *)
(* fails.                                                                  *)

AcceptSrt(x) ==
  /\ x \in Srt \ alive
  /\ alive' = alive \cup {x}
  /\ \/ /\ \A k \in Keys : app_stream_publisher_[k] = None
        /\ UNCHANGED pointers
     \/ \E k \in Keys :
          /\ app_stream_publisher_[k] # None
          /\ Subscribe(app_stream_publisher_[k], x)
  /\ UNCHANGED <<session, header, app_stream_publisher_, broken>>

\* The first payload registers the stream; the answer is ignored, and no
\* code path ever unregisters it.
SrtData(x, k) ==
  /\ x \in (Srt \cap alive) \ register_publisher_stream_
  /\ register_publisher_stream_' = register_publisher_stream_ \cup {x}
  /\ app_stream_publisher_' = RegisterStream(k, x)
  /\ UNCHANGED <<alive, app_, role_, stream_, header, pointers, broken>>

-----------------------------------------------------------------------------
(* Media from a publisher.                                                 *)

Publishing(p) ==
  /\ p \in alive
  /\ \/ p \in Rtmp /\ role_[p] = "push"
     \/ p \in register_publisher_stream_

\* MediaMuxer::On{Audio,Video}Header.  The header that completes the pair
\* moves every waiting subscriber on; F are those a Send fails for, which
\* are inserted all the same.
SlipHeaderForgetsWaiting(p, h, F) ==           \* cleared, not added
  /\ Publishing(p)
  /\ h \notin header[p]
  /\ F \subseteq wait_header_subscriber_[p] \ Srt
  /\ header' = [header EXCEPT ![p] = @ \cup {h}]
  /\ IF header'[p] = Headers
     THEN /\ wait_header_subscriber_' = [wait_header_subscriber_ EXCEPT ![p] = {}]
          /\ broken' = broken \cup F
          /\ UNCHANGED subscriber_
     ELSE /\ F = {}
          /\ UNCHANGED <<subscriber_, wait_header_subscriber_, broken>>
  /\ UNCHANGED <<alive, session, publisher_, orphans, app_stream_publisher_>>

Header(p, h, F) ==
  /\ Publishing(p)
  /\ h \notin header[p]
  /\ F \subseteq wait_header_subscriber_[p] \ Srt
  /\ header' = [header EXCEPT ![p] = @ \cup {h}]
  /\ IF header'[p] = Headers
     THEN /\ subscriber_' = [subscriber_ EXCEPT ![p] = @ \cup wait_header_subscriber_[p]]
          /\ wait_header_subscriber_' = [wait_header_subscriber_ EXCEPT ![p] = {}]
          /\ broken' = broken \cup F
     ELSE /\ F = {}
          /\ UNCHANGED <<subscriber_, wait_header_subscriber_, broken>>
  /\ UNCHANGED <<alive, session, publisher_, orphans, app_stream_publisher_>>

\* A frame is sent to every subscriber; the Send to s fails, and its
\* HandleClose removes s from the set being iterated.
BroadcastFails(p, s) ==
  /\ Publishing(p)
  /\ s \in subscriber_[p] \ Srt
  /\ subscriber_' = RemoveSubscriber(subscriber_, s)
  /\ wait_header_subscriber_' = RemoveSubscriber(wait_header_subscriber_, s)
  /\ broken' = broken \cup {s}
  /\ UNCHANGED <<alive, session, header, publisher_, orphans, app_stream_publisher_>>

-----------------------------------------------------------------------------
Accept == \E x \in Conns : AcceptRtmp(x) \/ AcceptFlv(x) \/ AcceptSrt(x)

RtmpCommand ==
  \E x \in Rtmp, k \in Keys, fails \in BOOLEAN :
    \/ RtmpConnect(x, k, fails) \/ RtmpConnect(x, None, fails)
    \/ RtmpPublish(x, k, fails) \/ RtmpPublishRefused(x, k)
    \/ RtmpPlay(x, k, fails)    \/ RtmpPlayNotFound(x, k)

FlvRequest ==
  \E x \in Flv, k \in Keys, fails \in BOOLEAN :
    FlvGet(x, k, fails) \/ FlvGetNotFound(x, k)

Media ==
  \/ \E x \in Srt, k \in Keys : SrtData(x, k)
  \/ \E p \in Publishers, h \in Headers, F \in SUBSET Conns : Header(p, h, F)
  \/ \E p \in Publishers, s \in Conns : BroadcastFails(p, s)

Next == Accept \/ RtmpCommand \/ FlvRequest \/ Media \/ (\E x \in Conns : Close(x))

Spec == Init /\ [][Next]_vars

-----------------------------------------------------------------------------
(* Properties.                                                             *)

\* Every subscriber a publisher holds is an open connection that points
\* back to that publisher, and is held once: what makes it safe for OnAudio,
\* OnVideo and Parse to send to subscriber_ without asking, and for the
\* destructor of a subscriber to find every set it is in.
SubscribersBackLinked ==
  \A p \in Publishers :
    /\ subscriber_[p] \cap wait_header_subscriber_[p] = {}
    /\ \A s \in subscriber_[p] \cup wait_header_subscriber_[p] :
         p \in alive /\ s \in alive /\ publisher_[s] = p

\* Subscribers wait while a codec header is missing, and are served only
\* once both are there ("pend until both arrive, then distribute",
\* media_publisher.cpp:43), whoever subscribes or sends headers in between.
HeadersGateDelivery ==
  \A p \in Publishers :
    IF HasHeaders(p) THEN wait_header_subscriber_[p] = {} ELSE subscriber_[p] = {}

\* A connection that subscribed stays in one of its publisher's sets until
\* it closes, unless the publisher was freed under it or a Send to it
\* failed: no header or close of anybody else makes a player starve.
SubscribersServed ==
  \A s \in alive \ (orphans \cup broken) :
    publisher_[s] # None => s \in Subscribed(publisher_[s])

\* What the registry holds of class RtmpProtocol is an open connection that
\* publishes that very stream: players of a stream reach no freed or other
\* RTMP publisher, although the close of a second publisher of the same
\* name empties the entry without looking whose it is.
RtmpRegistrationLive ==
  \A k \in Keys :
    LET x == app_stream_publisher_[k]
    IN  x \in Rtmp => x \in alive /\ role_[x] = "push" /\ stream_[x] = k

\* A stream leaves the registry, or changes hands, only when an RTMP
\* publisher of that very stream closes, is refused, or fails to be
\* answered: no other connection ends it.
EndsWithAPublisher ==
  \A k \in Keys :
    app_stream_publisher_[k] # None /\ app_stream_publisher_'[k] # app_stream_publisher_[k]
      => \E y \in Rtmp \cap alive :
           /\ role_'[y] = "push" /\ stream_'[y] = k
           /\ y \notin alive' \/ y \in broken'

RegistrationEndsWithAPublisher == [][EndsWithAPublisher]_vars
=============================================================================
