--------------------------- MODULE EventLoopProofs ---------------------------
(***************************************************************************)
(* Proofs about EventLoop for any number of connections and any sizes.     *)
(*                                                                         *)
(* WriteArmedIffPending and BatchAlive need each other and three facts     *)
(* more.  Control ties the program counter to the socket being handled.    *)
(* Fresh says that a connection not accepted yet has nothing buffered, so  *)
(* that registering it for reading only is right.  Writable says that what *)
(* epoll_wait reported as writable and is not handled yet still has output *)
(* and room for it: a Send to it in the meantime only appends.             *)
(***************************************************************************)
EXTENDS EventLoop, IoBuffer, SequenceTheorems, FiniteSetTheorems, TLAPS

Control ==
  /\ pc = "poll" => current = None /\ \A x \in Sockets : batch[x] = {}
  /\ pc = "batch" => current = None
  /\ pc = "accept" => current = Listener
  /\ pc \in {"read", "handle", "write"} => current \in Conns

Fresh ==
  \A x \in Conns :
    /\ peer[x] = "away" => x \notin alive \cup backlog
    /\ x \in backlog => x \notin alive
    /\ x \in backlog \/ peer[x] = "away" => write_buffer_[x] = << >>

Writable ==
  \A x \in Conns :
    "out" \in batch[x] =>
      write_buffer_[x] # << >> /\ (peer[x] = "closed" \/ unread[x] < Room)

IInv ==
  TypeOK /\ WriteArmedIffPending /\ BatchAlive /\ Control /\ Fresh /\ Writable

-----------------------------------------------------------------------------
(* What the helpers do to the variables they touch.                        *)

Buffers == [Conns -> Seq(Nat \ {0})]
Masks   == [Conns -> SUBSET Kinds]

LEMMA ConnsFacts ==
  /\ Listener \notin Conns /\ None \notin Conns /\ None # Listener
  /\ Conns \subseteq Sockets /\ Listener \in Sockets
BY SocketsAssumption DEF Sockets

LEMMA MessageIsSeq ==
  ASSUME NEW n \in Nat \ {0}
  PROVE  /\ Message(n) \in Seq(Nat \ {0}) /\ Len(Message(n)) = Units
         /\ \A i \in 1..Units : Message(n)[i] = n
BY SizesAssumption DEF Message

\* The part of a sequence behind its first n elements is empty only when
\* these are all.
LEMMA Remainder ==
  ASSUME NEW s \in Seq(Nat \ {0}), NEW n \in 0..Len(s)
  PROVE  /\ SubSeq(s, 1, n) \in Seq(Nat \ {0})
         /\ Len(SubSeq(s, 1, n)) = n
         /\ SubSeq(s, n + 1, Len(s)) \in Seq(Nat \ {0})
         /\ Len(SubSeq(s, n + 1, Len(s))) = Len(s) - n
<1>1. Len(s) \in Nat /\ \A i \in 1..Len(s) : s[i] \in Nat \ {0}
  BY LenProperties, ElementOfSeq
<1>2. /\ SubSeq(s, 1, n) \in Seq(Nat \ {0})
      /\ Len(SubSeq(s, 1, n)) = IF 1 <= n THEN n - 1 + 1 ELSE 0
  <2>1. \A i \in 1..n : s[i] \in Nat \ {0}
    BY <1>1
  <2> QED
    BY <2>1, <1>1, SubSeqProperties
<1>3. /\ SubSeq(s, n + 1, Len(s)) \in Seq(Nat \ {0})
      /\ Len(SubSeq(s, n + 1, Len(s))) =
           IF n + 1 <= Len(s) THEN Len(s) - (n + 1) + 1 ELSE 0
  <2>1. \A i \in (n + 1)..Len(s) : s[i] \in Nat \ {0}
    BY <1>1
  <2> QED
    BY <2>1, <1>1, SubSeqProperties
<1> QED
  BY <1>1, <1>2, <1>3

LEMMA KernelTakesTypes ==
  ASSUME TypeOK, NEW x \in Conns, NEW data \in Seq(Nat \ {0}),
         Len(data) <= Room - unread[x], KernelTakes(x, data)
  PROVE  /\ accepted' \in Buffers
         /\ unread' \in [Conns -> 0..Room]
         /\ unread' = [unread EXCEPT ![x] = @ + Len(data)]
<1>1. /\ accepted \in Buffers /\ unread \in [Conns -> 0..Room] /\ Room \in Nat
      /\ accepted' = [accepted EXCEPT ![x] = @ \o data]
      /\ unread' = [unread EXCEPT ![x] = @ + Len(data)]
  BY SizesAssumption DEF TypeOK, KernelTakes, Buffers
<1>2. accepted[x] \o data \in Seq(Nat \ {0})
  BY <1>1, ConcatProperties DEF Buffers
<1>3. Len(data) \in Nat
  BY LenProperties
<1>4. unread[x] + Len(data) \in 0..Room
  BY <1>1, <1>3
<1> QED
  BY <1>1, <1>2, <1>4 DEF Buffers

LEMMA SetEventsTypes ==
  ASSUME TypeOK, NEW x \in Conns, NEW events \in SUBSET Kinds, SetEvents(x, events)
  PROVE  /\ events_' \in Masks /\ interest' \in Masks
         /\ events_'[x] = events /\ interest'[x] = events
         /\ \A y \in Conns \ {x} : events_'[y] = events_[y] /\ interest'[y] = interest[y]
BY DEF TypeOK, SetEvents, Register, Masks

-----------------------------------------------------------------------------
(* TcpSocket::Send.  What waits behind a buffer that is not empty leaves    *)
(* the kernel alone; what does not fit switches the write interest on.      *)

LEMMA SendEffect ==
  ASSUME TypeOK, NEW x \in Conns, Send(x)
  PROVE  /\ sent' \in [Conns -> Nat] /\ lost' \in [Conns -> SUBSET (Nat \ {0})]
         /\ accepted' \in Buffers /\ write_buffer_' \in Buffers
         /\ unread' \in [Conns -> 0..Room]
         /\ events_' \in Masks /\ interest' \in Masks
         /\ \A y \in Conns \ {x} : /\ write_buffer_'[y] = write_buffer_[y]
                                   /\ unread'[y] = unread[y]
         /\ write_buffer_[x] # << >> =>
              write_buffer_'[x] # << >> /\ unread'[x] = unread[x]
         /\ \/ /\ UNCHANGED <<events_, interest>>
               /\ write_buffer_[x] = << >> <=> write_buffer_'[x] = << >>
            \/ /\ write_buffer_'[x] # << >>
               /\ SetEvents(x, events_[x] \cup {"out"})
<1> DEFINE m == Message(sent'[x])
<1>1. /\ sent \in [Conns -> Nat] /\ lost \in [Conns -> SUBSET (Nat \ {0})]
      /\ write_buffer_ \in Buffers /\ accepted \in Buffers
      /\ unread \in [Conns -> 0..Room]
      /\ events_ \in Masks /\ interest \in Masks
      /\ Units \in Nat \ {0} /\ Room \in Nat
  BY SizesAssumption DEF TypeOK, Buffers, Masks
<1>2. sent' = [sent EXCEPT ![x] = @ + 1] /\ sent'[x] \in Nat \ {0}
  BY <1>1 DEF Send
<1>3. m \in Seq(Nat \ {0}) /\ Len(m) = Units
  BY <1>2, MessageIsSeq
<1> HIDE DEF m
<1>4. CASE write_buffer_[x] = << >>
  <2>1. PICK n \in WriteResults(x, Units) :
          /\ KernelTakes(x, SubSeq(m, 1, n))
          /\ lost' = [lost EXCEPT ![x] = @ \cup {k \in {sent'[x]} : n = 0}]
          /\ IF n \in 1..(Units - 1)
             THEN /\ write_buffer_' = [write_buffer_ EXCEPT ![x] = SubSeq(m, n + 1, Units)]
                  /\ SetEvents(x, events_[x] \cup {"out"})
             ELSE UNCHANGED <<write_buffer_, events_, interest>>
    BY <1>4 DEF Send, m
  <2>2. n \in 0..Units /\ n <= Room - unread[x]
    BY <1>1 DEF WriteResults
  <2>3. /\ SubSeq(m, 1, n) \in Seq(Nat \ {0}) /\ Len(SubSeq(m, 1, n)) = n
        /\ SubSeq(m, n + 1, Units) \in Seq(Nat \ {0})
        /\ Len(SubSeq(m, n + 1, Units)) = Units - n
    BY <2>2, <1>3, Remainder
  <2>4. /\ accepted' \in Buffers /\ unread' \in [Conns -> 0..Room]
        /\ unread' = [unread EXCEPT ![x] = @ + n]
    BY <2>1, <2>2, <2>3, KernelTakesTypes
  <2>5. lost' \in [Conns -> SUBSET (Nat \ {0})]
    BY <1>1, <1>2, <2>1
  <2>6. CASE n \in 1..(Units - 1)
    <3>1. SubSeq(m, n + 1, Units) # << >>
      <4>1. Len(SubSeq(m, n + 1, Units)) # 0
        BY <2>3, <2>6, <1>1
      <4> QED
        BY <4>1, EmptySeq
    <3>2. events_[x] \cup {"out"} \in SUBSET Kinds
      BY <1>1 DEF Masks, Kinds
    <3>3. events_' \in Masks /\ interest' \in Masks
      BY <2>1, <2>6, <3>2, SetEventsTypes
    <3>4. write_buffer_' = [write_buffer_ EXCEPT ![x] = SubSeq(m, n + 1, Units)]
      BY <2>1, <2>6
    <3>5. write_buffer_' \in Buffers
      BY <1>1, <2>3, <3>4 DEF Buffers
    <3>6. /\ write_buffer_'[x] # << >>
          /\ \A y \in Conns \ {x} : write_buffer_'[y] = write_buffer_[y]
      BY <1>1, <3>1, <3>4 DEF Buffers
    <3>7. \A y \in Conns \ {x} : unread'[y] = unread[y]
      BY <1>1, <2>4
    <3>8. sent' \in [Conns -> Nat]
      BY <1>1, <1>2
    <3> QED
      BY <1>4, <2>1, <2>4, <2>5, <2>6, <3>3, <3>5, <3>6, <3>7, <3>8
  <2>7. CASE n \notin 1..(Units - 1)
    BY <1>1, <1>2, <1>4, <2>1, <2>4, <2>5, <2>7
  <2> QED
    BY <2>6, <2>7
<1>5. CASE write_buffer_[x] # << >>
  <2>1. /\ write_buffer_' = [write_buffer_ EXCEPT ![x] = @ \o m]
        /\ UNCHANGED <<accepted, unread, lost, events_, interest>>
    BY <1>5 DEF Send, m
  <2>2. write_buffer_[x] \o m \in Seq(Nat \ {0}) /\ write_buffer_[x] \o m # << >>
    BY <1>1, <1>3, <1>5, ConcatProperties, ConcatEqualIffEmpty DEF Buffers
  <2> QED
    BY <1>1, <1>2, <1>5, <2>1, <2>2 DEF Buffers
<1> QED
  BY <1>4, <1>5

LEMMA HandlerSendsKeepsIInv ==
  ASSUME IInv, NEW x \in Conns, HandlerSends(x)
  PROVE  IInv'
<1>1. TypeOK /\ Send(x) /\ x \in alive /\ UNCHANGED <<loop, alive, peers>>
  BY DEF IInv, HandlerSends
<1>2. TypeOK'
  BY <1>1, SendEffect DEF TypeOK, loop, peers, Buffers, Masks
<1>3. WriteArmedIffPending'
  <2>1. CASE UNCHANGED <<events_, interest>>
             /\ (write_buffer_[x] = << >> <=> write_buffer_'[x] = << >>)
    BY <1>1, <2>1, SendEffect DEF IInv, WriteArmedIffPending
  <2>2. CASE write_buffer_'[x] # << >> /\ SetEvents(x, events_[x] \cup {"out"})
    <3>1. events_[x] \cup {"out"} \in SUBSET Kinds
      BY <1>1 DEF TypeOK, Kinds
    <3>2. /\ events_'[x] = events_[x] \cup {"out"} /\ interest'[x] = events_'[x]
          /\ \A y \in Conns \ {x} : events_'[y] = events_[y] /\ interest'[y] = interest[y]
      BY <1>1, <2>2, <3>1, SetEventsTypes
    <3> QED
      BY <1>1, <2>2, <3>2, SendEffect DEF IInv, WriteArmedIffPending
  <2> QED
    BY <1>1, <2>1, <2>2, SendEffect
<1>4. BatchAlive' /\ Control'
  BY <1>1 DEF IInv, BatchAlive, Control, loop
<1>5. Fresh'
  BY <1>1, SendEffect DEF IInv, Fresh, peers
<1>6. Writable'
  BY <1>1, SendEffect DEF IInv, Writable, loop, peers
<1> QED
  BY <1>2, <1>3, <1>4, <1>5, <1>6 DEF IInv

-----------------------------------------------------------------------------
(* The peers.                                                              *)

LEMMA PeerKeepsIInv ==
  ASSUME IInv, NEW x \in Conns, Peer(x)
  PROVE  IInv'
<1>1. CASE PeerConnects(x)
  BY <1>1 DEF IInv, PeerConnects, TypeOK, WriteArmedIffPending, BatchAlive, Control, Fresh,
     Writable, loop, sockets, output
<1>2. CASE PeerSends(x)
  <2>1. /\ requests' = [requests EXCEPT ![x] = @ + 1]
        /\ readable' = readable \cup {x}
        /\ UNCHANGED <<loop, sockets, output, peer, backlog>>
    BY <1>2 DEF PeerSends
  <2>2. TypeOK'
    BY <2>1 DEF IInv, TypeOK, loop, sockets, output
  <2>3. WriteArmedIffPending' /\ BatchAlive' /\ Control' /\ Fresh' /\ Writable'
    BY <2>1 DEF IInv, WriteArmedIffPending, BatchAlive, Control, Fresh, Writable,
       loop, sockets, output
  <2> QED
    BY <2>2, <2>3 DEF IInv
<1>3. CASE PeerReads(x)
  BY <1>3, SizesAssumption DEF IInv, PeerReads, TypeOK, WriteArmedIffPending, BatchAlive, Control, Fresh,
     Writable, loop, sockets, peers
<1>4. CASE PeerCloses(x)
  BY <1>4 DEF IInv, PeerCloses, TypeOK, WriteArmedIffPending, BatchAlive, Control, Fresh,
     Writable, loop, sockets, output
<1> QED
  BY <1>1, <1>2, <1>3, <1>4 DEF Peer

-----------------------------------------------------------------------------
(* The steps of WaitIO.                                                    *)

\* What is reported for a connection is what it is registered for.
LEMMA ReadyFacts ==
  ASSUME IInv, NEW x \in Sockets
  PROVE  /\ Ready(x) \in SUBSET Kinds
         /\ x \in Conns => Ready(x) \subseteq interest[x]
         /\ x \in Conns /\ "out" \in Ready(x) =>
              peer[x] = "closed" \/ unread[x] < Room
<1>1. CASE x = Listener
  BY <1>1, ConnsFacts DEF Ready, Kinds
<1>2. CASE x \in Conns
  BY <1>2, ConnsFacts DEF Ready, IInv, TypeOK
<1> QED
  BY <1>1, <1>2 DEF Sockets

LEMMA PollKeepsIInv ==
  ASSUME IInv, Poll
  PROVE  IInv'
<1>1. /\ pc = "poll" /\ current = None
      /\ batch' = [x \in Sockets |-> Ready(x)]
      /\ pc' = IF \E x \in Sockets : Ready(x) # {} THEN "batch" ELSE "poll"
      /\ UNCHANGED <<current, sockets, output, peers>>
  BY DEF Poll, IInv, Control
<1>2. TypeOK'
  BY <1>1, ReadyFacts DEF IInv, TypeOK, sockets, output, peers
<1>3. \A x \in Conns : batch'[x] = Ready(x) /\ (Ready(x) # {} => x \in alive)
                       /\ ("out" \in Ready(x) => write_buffer_[x] # << >>)
  <2> TAKE x \in Conns
  <2>1. batch'[x] = Ready(x)
    BY <1>1, ConnsFacts
  <2>2. Ready(x) \subseteq events_[x] /\ events_[x] \subseteq Kinds
    BY ConnsFacts, ReadyFacts DEF IInv, TypeOK, WriteArmedIffPending
  <2>3. /\ "in" \in events_[x] => x \in alive
        /\ "out" \in events_[x] => x \in alive /\ write_buffer_[x] # << >>
    BY DEF IInv, WriteArmedIffPending
  <2> QED
    BY <2>1, <2>2, <2>3 DEF Kinds
<1>4. WriteArmedIffPending' /\ Fresh' /\ Control'
  BY <1>1 DEF IInv, WriteArmedIffPending, Fresh, Control, sockets, output, peers
<1>5. BatchAlive' /\ Writable'
  BY <1>1, <1>3, ConnsFacts, ReadyFacts DEF BatchAlive, Writable, sockets, output, peers
<1> QED
  BY <1>2, <1>4, <1>5 DEF IInv

LEMMA DispatchKeepsIInv ==
  ASSUME IInv, NEW x \in Sockets, Dispatch(x)
  PROVE  IInv'
<1>1. /\ batch[x] # {} /\ current' = x
      /\ pc' = IF x = Listener THEN "accept"
               ELSE IF "in" \in batch[x] THEN "read" ELSE "write"
      /\ UNCHANGED <<batch, sockets, output, peers>>
  BY DEF Dispatch
<1>2. TypeOK' /\ WriteArmedIffPending' /\ Fresh' /\ Writable'
  BY <1>1 DEF IInv, TypeOK, WriteArmedIffPending, Fresh, Writable, sockets, output, peers
<1>3. Control'
  BY <1>1 DEF Control, Sockets
<1>4. BatchAlive'
  BY <1>1 DEF IInv, BatchAlive, sockets
<1> QED
  BY <1>2, <1>3, <1>4 DEF IInv

\* Going on to the next socket, or leaving the batch, handles no freed one.
LEMMA NextInBatchFacts ==
  ASSUME TypeOK, NextInBatch
  PROVE  /\ pc' \in {"poll", "batch"} /\ current' = None /\ Control'
         /\ batch' \in [Sockets -> SUBSET Kinds]
         /\ \A x \in Sockets : batch'[x] = IF x = current THEN {} ELSE batch[x]
<1>1. /\ batch \in [Sockets -> SUBSET Kinds]
      /\ batch' = [batch EXCEPT ![current] = {}] /\ current' = None
      /\ pc' = IF \E x \in Sockets : batch'[x] # {} THEN "batch" ELSE "poll"
  BY DEF TypeOK, NextInBatch
<1>2. Control'
  BY <1>1 DEF Control
<1> QED
  BY <1>1, <1>2

LEMMA LeaveBatchFacts ==
  ASSUME LeaveBatch
  PROVE  /\ pc' = "poll" /\ current' = None /\ Control'
         /\ batch' \in [Sockets -> SUBSET Kinds]
         /\ \A x \in Sockets : batch'[x] = {}
BY DEF LeaveBatch, Control

LEMMA DeleteFacts ==
  ASSUME TypeOK, WriteArmedIffPending, NEW x \in Conns, Delete(x)
  PROVE  /\ alive' = alive \ {x} /\ events_' \in Masks /\ interest' \in Masks
         /\ events_'[x] = {} /\ interest'[x] = {}
         /\ \A y \in Conns \ {x} : events_'[y] = events_[y] /\ interest'[y] = interest[y]
BY SetEventsTypes DEF Delete

LEMMA AcceptKeepsIInv ==
  ASSUME IInv, Accept
  PROVE  IInv'
<1>1. PICK x \in backlog :
        /\ backlog' = backlog \ {x} /\ alive' = alive \cup {x}
        /\ SetEvents(x, {"in"})
  BY DEF Accept
<1>2. /\ TypeOK /\ NextInBatch /\ UNCHANGED <<output, peer, requests, readable>>
      /\ current = Listener /\ x \in Conns
  BY DEF Accept, IInv, Control, TypeOK
<1>3. /\ events_' \in Masks /\ interest' \in Masks
      /\ events_'[x] = {"in"} /\ interest'[x] = {"in"}
      /\ \A y \in Conns \ {x} : events_'[y] = events_[y] /\ interest'[y] = interest[y]
  BY <1>1, <1>2, SetEventsTypes DEF Kinds
<1>4. TypeOK'
  BY <1>1, <1>2, <1>3, NextInBatchFacts DEF TypeOK, Masks, output
<1>5. WriteArmedIffPending'
  BY <1>1, <1>2, <1>3 DEF IInv, WriteArmedIffPending, Fresh, output
<1>6. Fresh'
  BY <1>1, <1>2 DEF IInv, Fresh, output
<1>7. BatchAlive' /\ Writable'
  BY <1>1, <1>2, NextInBatchFacts, ConnsFacts DEF IInv, BatchAlive, Writable, output
<1> QED
  BY <1>2, <1>4, <1>5, <1>6, <1>7, NextInBatchFacts DEF IInv

\* The steps of OnRead that touch nothing but the program counter.
LEMMA ReadStepsKeepIInv ==
  ASSUME IInv, ReadData \/ HandlerReturns \/ ReadNothing
  PROVE  IInv'
<1>1. /\ pc \in {"read", "handle"} /\ pc' \in {"read", "handle", "write"}
      /\ UNCHANGED <<batch, current, sockets, output, peer, requests, backlog>>
      /\ readable' \subseteq readable
  BY DEF ReadData, HandlerReturns, ReadNothing, peers
<1>2. TypeOK'
  BY <1>1 DEF IInv, TypeOK, sockets, output
<1>3. WriteArmedIffPending' /\ BatchAlive' /\ Control' /\ Fresh' /\ Writable'
  BY <1>1 DEF IInv, WriteArmedIffPending, BatchAlive, Control, Fresh, Writable, sockets, output
<1> QED
  BY <1>2, <1>3 DEF IInv

\* A read that ends the connection.
LEMMA ReadEndsKeepIInv ==
  ASSUME IInv, HandlerCloses \/ ReadFails
  PROVE  IInv'
<1>1. /\ TypeOK /\ WriteArmedIffPending
      /\ current \in Conns /\ Delete(current) /\ LeaveBatch /\ UNCHANGED <<output, peers>>
  BY DEF IInv, Control, HandlerCloses, ReadFails
<1>2. TypeOK'
  BY <1>1, DeleteFacts, LeaveBatchFacts DEF IInv, TypeOK, Masks, output, peers
<1>3. WriteArmedIffPending'
  BY <1>1, DeleteFacts DEF WriteArmedIffPending, output
<1>4. Fresh'
  BY <1>1, DeleteFacts DEF IInv, Fresh, output, peers
<1>5. BatchAlive' /\ Writable'
  BY <1>1, LeaveBatchFacts, ConnsFacts DEF BatchAlive, Writable
<1> QED
  BY <1>1, <1>2, <1>3, <1>4, <1>5, LeaveBatchFacts DEF IInv

LEMMA NoWriteKeepsIInv ==
  ASSUME IInv, NoWrite
  PROVE  IInv'
<1>1. TypeOK /\ NextInBatch /\ UNCHANGED <<sockets, output, peers>>
  BY DEF IInv, NoWrite
<1>2. TypeOK'
  BY <1>1, NextInBatchFacts DEF TypeOK, sockets, output, peers
<1>3. WriteArmedIffPending' /\ Fresh'
  BY <1>1 DEF IInv, WriteArmedIffPending, Fresh, sockets, output, peers
<1>4. BatchAlive' /\ Writable'
  BY <1>1, NextInBatchFacts, ConnsFacts DEF IInv, BatchAlive, Writable, sockets, output, peers
<1> QED
  BY <1>1, <1>2, <1>3, <1>4, NextInBatchFacts DEF IInv

-----------------------------------------------------------------------------
(* TcpSocket::OnWrite.                                                     *)

LEMMA OnWriteKeepsIInv ==
  ASSUME IInv, OnWrite
  PROVE  IInv'
<1> DEFINE buffer == write_buffer_[current]
<1>1. /\ TypeOK /\ WriteArmedIffPending /\ NextInBatch
      /\ UNCHANGED <<sent, lost, peers>> /\ current \in Conns
      /\ buffer \in Seq(Nat \ {0}) /\ Len(buffer) \in Nat
  BY LenProperties DEF IInv, Control, OnWrite, TypeOK
<1>2. PICK n \in WriteResults(current, Len(buffer)) :
        /\ KernelTakes(current, SubSeq(buffer, 1, n))
        /\ write_buffer_' = [write_buffer_ EXCEPT ![current] = SubSeq(@, n + 1, Len(@))]
        /\ IF n = 0
           THEN Delete(current)
           ELSE /\ SetEvents(current, IF write_buffer_'[current] = << >>
                                      THEN events_[current] \ {"out"}
                                      ELSE events_[current])
                /\ UNCHANGED alive
  BY DEF OnWrite
<1>3. n \in 0..Len(buffer) /\ n <= Room - unread[current]
  BY <1>1, SizesAssumption DEF WriteResults, TypeOK
<1>4. /\ SubSeq(buffer, 1, n) \in Seq(Nat \ {0}) /\ Len(SubSeq(buffer, 1, n)) = n
      /\ SubSeq(buffer, n + 1, Len(buffer)) \in Seq(Nat \ {0})
      /\ Len(SubSeq(buffer, n + 1, Len(buffer))) = Len(buffer) - n
  BY <1>1, <1>3, Remainder
<1>5. /\ write_buffer_' \in Buffers
      /\ \A y \in Conns \ {current} : write_buffer_'[y] = write_buffer_[y]
      /\ write_buffer_'[current] # << >> => buffer # << >>
  <2>1. /\ write_buffer_ \in Buffers
        /\ write_buffer_'[current] = SubSeq(buffer, n + 1, Len(buffer))
    BY <1>1, <1>2 DEF TypeOK, Buffers
  <2>2. SubSeq(buffer, n + 1, Len(buffer)) # << >> => buffer # << >>
    BY <1>3, <1>4
  <2> QED
    BY <1>1, <1>2, <1>4, <2>1, <2>2 DEF Buffers
<1>6. /\ accepted' \in Buffers /\ unread' \in [Conns -> 0..Room]
      /\ \A y \in Conns \ {current} : unread'[y] = unread[y]
  BY <1>1, <1>2, <1>3, <1>4, KernelTakesTypes DEF TypeOK
<1>7. /\ alive' \subseteq alive /\ alive \ {current} \subseteq alive'
      /\ events_' \in Masks /\ interest' \in Masks
      /\ \A y \in Conns \ {current} :
           events_'[y] = events_[y] /\ interest'[y] = interest[y]
      /\ interest'[current] = events_'[current]
      /\ "in" \in events_'[current] <=> current \in alive'
      /\ "out" \in events_'[current] <=>
           current \in alive' /\ write_buffer_'[current] # << >>
  <2>1. CASE n = 0
    BY <1>1, <1>2, <2>1, DeleteFacts
  <2>2. CASE n # 0
    <3>1. /\ events_[current] \in SUBSET Kinds
          /\ "in" \in events_[current] <=> current \in alive
          /\ "out" \in events_[current] <=> current \in alive /\ buffer # << >>
      BY <1>1 DEF TypeOK, WriteArmedIffPending
    <3>2. CASE write_buffer_'[current] = << >>
      <4>1. SetEvents(current, events_[current] \ {"out"}) /\ alive' = alive
        BY <1>2, <2>2, <3>2
      <4> QED
        BY <1>1, <3>1, <3>2, <4>1, SetEventsTypes
    <3>3. CASE write_buffer_'[current] # << >>
      <4>1. SetEvents(current, events_[current]) /\ alive' = alive
        BY <1>2, <2>2, <3>3
      <4> QED
        BY <1>1, <1>5, <3>1, <3>3, <4>1, SetEventsTypes
    <3> QED
      BY <3>2, <3>3
  <2> QED
    BY <2>1, <2>2
<1>8. TypeOK'
  BY <1>1, <1>5, <1>6, <1>7, NextInBatchFacts DEF TypeOK, Buffers, Masks, peers
<1>9. WriteArmedIffPending'
  BY <1>1, <1>5, <1>7 DEF WriteArmedIffPending
<1>10. BatchAlive'
  BY <1>1, <1>7, NextInBatchFacts, ConnsFacts DEF IInv, BatchAlive
<1>11. Fresh'
  <2>1. buffer = << >> => write_buffer_'[current] = << >>
    BY <1>5
  <2> QED
    BY <1>1, <1>5, <1>7, <2>1 DEF IInv, Fresh, peers
<1>12. Writable'
  BY <1>1, <1>5, <1>6, NextInBatchFacts, ConnsFacts DEF IInv, Writable, peers
<1> QED
  BY <1>1, <1>8, <1>9, <1>10, <1>11, <1>12, NextInBatchFacts DEF IInv

-----------------------------------------------------------------------------
(* The theorems.                                                           *)

LEMMA InitIInv == Init => IInv
<1> SUFFICES ASSUME Init PROVE IInv
  OBVIOUS
<1>1. TypeOK
  BY SizesAssumption, EmptySeq DEF Init, TypeOK
<1>2. WriteArmedIffPending /\ BatchAlive /\ Control /\ Fresh /\ Writable
  BY ConnsFacts DEF Init, WriteArmedIffPending, BatchAlive, Control, Fresh, Writable
<1> QED
  BY <1>1, <1>2 DEF IInv

LEMMA NextKeepsIInv == IInv /\ [Next]_vars => IInv'
<1> SUFFICES ASSUME IInv, [Next]_vars PROVE IInv'
  OBVIOUS
<1>1. CASE Server
  BY <1>1, PollKeepsIInv, DispatchKeepsIInv, AcceptKeepsIInv, ReadStepsKeepIInv,
     HandlerSendsKeepsIInv, ReadEndsKeepIInv, OnWriteKeepsIInv, NoWriteKeepsIInv DEF Server
<1>2. CASE \E x \in Conns : Peer(x)
  BY <1>2, PeerKeepsIInv
<1>3. CASE UNCHANGED vars
  BY <1>3 DEF vars, loop, sockets, output, peers, IInv, TypeOK, WriteArmedIffPending,
     BatchAlive, Control, Fresh, Writable
<1> QED
  BY <1>1, <1>2, <1>3 DEF Next

\* IInv is inductive: no interleaving of the server, the kernel and the peers
\* leaves it.
THEOREM LoopInvariant == Spec => []IInv
<1> QED
  BY InitIInv, NextKeepsIInv, PTL DEF Spec

\* Type correctness, for any number of connections.
THEOREM LoopTypeCorrect == Spec => []TypeOK
<1>1. IInv => TypeOK
  BY DEF IInv
<1> QED
  BY <1>1, LoopInvariant, PTL

\* Send and OnWrite switch the write interest so that it is on exactly while
\* there is something to write, in Fd and in the kernel.
THEOREM WriteInterestRight == Spec => []WriteArmedIffPending
<1>1. IInv => WriteArmedIffPending
  BY DEF IInv
<1> QED
  BY <1>1, LoopInvariant, PTL

\* WaitIO never calls into a freed Fd, although handlers delete their own and
\* send to any other in the middle of a batch.
THEOREM NoFreedFdCalled == Spec => []BatchAlive
<1>1. IInv => BatchAlive
  BY DEF IInv
<1> QED
  BY <1>1, LoopInvariant, PTL

\* The write of OnWrite finds room, since only the peer can have changed it
\* since epoll_wait reported it: so what is deleted was closed by its own
\* handler or by its peer.
THEOREM DeletedOnRequest == Spec => OnlyHandlersClose
<1> DEFINE Closing == \A x \in alive \ alive' :
                        peer[x] = "closed" \/ (pc = "handle" /\ current = x)
<1>1. IInv /\ [Next]_vars => [Closing]_vars
  <2> SUFFICES ASSUME IInv, Next PROVE Closing
    BY DEF vars
  <2>1. TypeOK /\ WriteArmedIffPending /\ Control
    BY DEF IInv
  <2>2. CASE HandlerCloses
    BY <2>1, <2>2 DEF HandlerCloses, Delete
  <2>3. CASE ReadFails
    BY <2>1, <2>3 DEF ReadFails, Delete
  <2>4. CASE OnWrite
    <3>1. current \in Conns /\ "out" \in batch[current]
      BY <2>1, <2>4 DEF OnWrite, Control
    <3>2. peer[current] = "closed" \/ unread[current] < Room
      BY <3>1 DEF IInv, Writable
    <3>3. PICK n \in WriteResults(current, Len(write_buffer_[current])) :
            IF n = 0 THEN Delete(current) ELSE UNCHANGED alive
      BY <2>4 DEF OnWrite
    <3>4. CASE n = 0
      <4>1. alive' = alive \ {current}
        BY <3>3, <3>4 DEF Delete
      <4>2. peer[current] = "closed"
        BY <3>1, <3>2, <3>3, <3>4, <2>1 DEF WriteResults, TypeOK
      <4> QED
        BY <4>1, <4>2
    <3>5. CASE n # 0
      BY <3>3, <3>5
    <3> QED
      BY <3>4, <3>5
  <2>5. CASE Next /\ ~HandlerCloses /\ ~ReadFails /\ ~OnWrite
    <3>1. alive \subseteq alive'
      BY <2>5 DEF Next, Server, Peer, Poll, Dispatch, Accept, ReadData, HandlerSends, HandlerReturns,
         ReadNothing, NoWrite, PeerConnects, PeerSends, PeerReads, PeerCloses, sockets
    <3> QED
      BY <3>1
  <2> QED
    BY <2>2, <2>3, <2>4, <2>5
<1>2. [][Closing]_vars => OnlyHandlersClose
  BY DEF OnlyHandlersClose
<1> QED
  BY <1>1, <1>2, LoopInvariant, PTL DEF Spec

-----------------------------------------------------------------------------
(* Messages.  What is accepted and buffered for a connection is a sequence *)
(* of whole messages; Send appends one or drops it, OnWrite moves units    *)
(* from the buffer to the kernel and leaves the whole as it is.            *)

Whole(stream, kept) ==
  /\ Len(stream) = Units * Cardinality(kept)
  /\ \A i \in 1..Len(stream) : stream[i] \in kept
  /\ \A i \in 1..(Len(stream) - Units) : stream[i] < stream[i + Units]
  /\ \A i \in 1..(Len(stream) - 1) : stream[i] <= stream[i + 1]

Unsent ==
  \A x \in Conns :
    /\ lost[x] \subseteq 1..sent[x]
    /\ x \in backlog \/ peer[x] = "away" => accepted[x] = << >> /\ sent[x] = 0

LEMMA WholeGrows ==
  ASSUME NEW s \in Seq(Nat \ {0}), NEW last \in Nat, NEW kept \in SUBSET (1..last),
         Whole(s, kept)
  PROVE  Whole(s \o Message(last + 1), kept \cup {last + 1})
<1> DEFINE m == Message(last + 1)
           t == s \o m
<1>1. /\ m \in Seq(Nat \ {0}) /\ Len(m) = Units /\ \A i \in 1..Units : m[i] = last + 1
      /\ Units \in Nat \ {0} /\ Len(s) \in Nat
  BY MessageIsSeq, SizesAssumption, LenProperties
<1>2. /\ Len(t) = Len(s) + Units
      /\ \A i \in 1..(Len(s) + Units) : t[i] = IF i <= Len(s) THEN s[i] ELSE m[i - Len(s)]
  BY <1>1, ConcatProperties
<1> HIDE DEF m, t
<1>3. /\ \A i \in 1..Len(s) : t[i] = s[i] /\ t[i] \in kept /\ t[i] \in Nat /\ t[i] <= last
      /\ \A i \in (Len(s) + 1)..(Len(s) + Units) : t[i] = last + 1
  <2>1. \A i \in 1..Len(s) : t[i] = s[i] /\ t[i] \in kept
    BY <1>1, <1>2 DEF Whole
  <2>2. \A i \in (Len(s) + 1)..(Len(s) + Units) : t[i] = last + 1
    BY <1>1, <1>2
  <2> QED
    BY <2>1, <2>2
<1>4. Len(t) = Units * Cardinality(kept \cup {last + 1})
  <2>1. IsFiniteSet(1..last)
    BY FS_Interval
  <2>2. IsFiniteSet(kept)
    BY <2>1, FS_Subset
  <2>3. last + 1 \notin kept
    OBVIOUS
  <2>4. Cardinality(kept \cup {last + 1}) = Cardinality(kept) + 1 /\ Cardinality(kept) \in Nat
    BY <2>2, <2>3, FS_AddElement, FS_CardinalityType
  <2>5. \A c \in Nat : Units * (c + 1) = Units * c + Units
    BY <1>1
  <2> QED
    BY <1>2, <2>4, <2>5 DEF Whole
<1>5. \A i \in 1..Len(t) : t[i] \in kept \cup {last + 1}
  BY <1>1, <1>2, <1>3
<1>6. \A i \in 1..(Len(t) - Units) : t[i] < t[i + Units]
  <2> TAKE i \in 1..(Len(t) - Units)
  <2>1. i \in 1..Len(s)
    BY <1>1, <1>2
  <2>2. CASE i + Units <= Len(s)
    <3>1. i \in 1..(Len(s) - Units) /\ i + Units \in 1..Len(s)
      BY <1>1, <2>1, <2>2
    <3> QED
      BY <1>3, <2>1, <3>1 DEF Whole
  <2>3. CASE i + Units > Len(s)
    <3>1. i + Units \in (Len(s) + 1)..(Len(s) + Units)
      BY <1>1, <2>1, <2>3
    <3> QED
      BY <1>3, <2>1, <3>1
  <2> QED
    BY <1>1, <2>1, <2>2, <2>3
<1>7. \A i \in 1..(Len(t) - 1) : t[i] <= t[i + 1]
  <2> TAKE i \in 1..(Len(t) - 1)
  <2>1. CASE i < Len(s)
    <3>1. i \in 1..(Len(s) - 1) /\ i \in 1..Len(s) /\ i + 1 \in 1..Len(s)
      BY <1>1, <2>1
    <3> QED
      BY <1>3, <3>1 DEF Whole
  <2>2. CASE i >= Len(s)
    <3>1. i + 1 \in (Len(s) + 1)..(Len(s) + Units) /\ i \in 1..(Len(s) + Units)
      <4>1. i \in 1..(Len(s) + Units - 1) /\ Len(s) \in Nat /\ Units \in Nat
        BY <1>1, <1>2
      <4> QED
        BY ONLY <2>2, <4>1
    <3>2. t[i + 1] = last + 1
      BY <1>3, <3>1
    <3>3. CASE i <= Len(s)
      <4>1. i \in 1..Len(s)
        BY <1>1, <3>3
      <4>2. t[i] \in Nat /\ t[i] <= last
        BY <1>3, <4>1
      <4> QED
        BY ONLY <3>2, <4>2, last \in Nat
    <3>4. CASE i > Len(s)
      <4>1. i \in (Len(s) + 1)..(Len(s) + Units)
        BY <1>1, <3>1, <3>4
      <4>2. t[i] = last + 1
        BY <1>3, <4>1
      <4> QED
        BY ONLY <3>2, <4>2, last \in Nat
    <3> QED
      BY <1>1, <3>3, <3>4
  <2> QED
    BY <1>1, <2>1, <2>2
<1> QED
  BY <1>4, <1>5, <1>6, <1>7 DEF Whole, t, m

\* Moving the first n units of b from behind a to the end of a.
LEMMA MovingUnits ==
  ASSUME NEW a \in Seq(Nat \ {0}), NEW b \in Seq(Nat \ {0}), NEW n \in 0..Len(b)
  PROVE  (a \o SubSeq(b, 1, n)) \o SubSeq(b, n + 1, Len(b)) = a \o b
<1>1. Len(b) \in Nat
  BY LenProperties
<1>2. SubSeq(b, 1, n) \o SubSeq(b, n + 1, Len(b)) = SubSeq(b, 1, Len(b))
  <2>1. 1 \in 1..(Len(b) + 1) /\ n \in (1 - 1)..Len(b) /\ Len(b) \in n..Len(b)
    BY <1>1
  <2> QED
    BY <2>1, ConcatAdjacentSubSeq
<1>3. SubSeq(b, 1, Len(b)) = b
  BY SubSeqFull
<1>4. SubSeq(b, 1, n) \in Seq(Nat \ {0}) /\ SubSeq(b, n + 1, Len(b)) \in Seq(Nat \ {0})
  BY Remainder
<1>5. (a \o SubSeq(b, 1, n)) \o SubSeq(b, n + 1, Len(b))
        = a \o (SubSeq(b, 1, n) \o SubSeq(b, n + 1, Len(b)))
  <2> DEFINE S == Nat \ {0}
             p == SubSeq(b, 1, n)
             q == SubSeq(b, n + 1, Len(b))
  <2>1. a \in Seq(S) /\ p \in Seq(S) /\ q \in Seq(S)
    BY <1>4
  <2> HIDE DEF S, p, q
  <2>2. (a \o p) \o q = a \o (p \o q)
    BY ONLY <2>1, ConcatAssociative, SMTT(30)
  <2> QED
    BY <2>2 DEF p, q
<1> QED
  BY ONLY <1>2, <1>3, <1>5

\* Send appends the message as a whole, some of it already accepted, or
\* drops it as a whole.
LEMMA SendAppends ==
  ASSUME TypeOK, NEW x \in Conns, Send(x)
  PROVE  LET new    == sent[x] + 1
             m      == Message(new)
             stream == accepted[x] \o write_buffer_[x]
             after  == accepted'[x] \o write_buffer_'[x]
         IN  /\ \A y \in Conns \ {x} : /\ accepted'[y] = accepted[y]
                                       /\ write_buffer_'[y] = write_buffer_[y]
                                       /\ sent'[y] = sent[y] /\ lost'[y] = lost[y]
             /\ lost'[x] \subseteq lost[x] \cup {new}
             /\ \/ after = stream /\ new \in lost'[x] /\ lost[x] \subseteq lost'[x]
                \/ after = stream \o m /\ lost'[x] = lost[x]
<1> DEFINE new    == sent[x] + 1
           m      == Message(new)
           stream == accepted[x] \o write_buffer_[x]
           after  == accepted'[x] \o write_buffer_'[x]
<1> SUFFICES /\ \A y \in Conns \ {x} : /\ accepted'[y] = accepted[y]
                                       /\ write_buffer_'[y] = write_buffer_[y]
                                       /\ sent'[y] = sent[y] /\ lost'[y] = lost[y]
             /\ lost'[x] \subseteq lost[x] \cup {new}
             /\ \/ after = stream /\ new \in lost'[x] /\ lost[x] \subseteq lost'[x]
                \/ after = stream \o m /\ lost'[x] = lost[x]
  OBVIOUS
<1>1. /\ sent \in [Conns -> Nat] /\ lost \in [Conns -> SUBSET (Nat \ {0})]
      /\ accepted[x] \in Seq(Nat \ {0}) /\ write_buffer_[x] \in Seq(Nat \ {0})
      /\ write_buffer_ \in [Conns -> Seq(Nat \ {0})]
      /\ accepted \in [Conns -> Seq(Nat \ {0})]
      /\ Units \in Nat \ {0}
  BY SizesAssumption DEF TypeOK
<1>2. /\ sent' = [sent EXCEPT ![x] = new] /\ new \in Nat \ {0}
      /\ m \in Seq(Nat \ {0}) /\ Len(m) = Units
  <2>1. sent' = [sent EXCEPT ![x] = new] /\ new \in Nat \ {0}
    BY <1>1 DEF Send
  <2> QED
    BY <2>1, MessageIsSeq
<1> HIDE DEF m
<1>3. CASE write_buffer_[x] # << >>
  <2>1. /\ write_buffer_' = [write_buffer_ EXCEPT ![x] = @ \o m]
        /\ accepted' = accepted /\ lost' = lost
    <3>1. write_buffer_' = [write_buffer_ EXCEPT ![x] = @ \o Message(sent'[x])]
          /\ accepted' = accepted /\ lost' = lost
      BY <1>3, <1>1 DEF Send
    <3>2. sent'[x] = new
      BY <1>1, <1>2
    <3> QED
      BY <3>1, <3>2 DEF m
  <2>2. after = stream \o m
    <3> DEFINE a == accepted[x]
               b == write_buffer_[x]
    <3>1. a \in Seq(Nat \ {0}) /\ b \in Seq(Nat \ {0}) /\ after = a \o (b \o m)
      BY <1>1, <2>1
    <3> HIDE DEF a, b
    <3>2. (a \o b) \o m = a \o (b \o m)
      BY <1>2, <3>1, ConcatAssociative, SMTT(30)
    <3> QED
      BY <3>1, <3>2 DEF a, b
  <2> QED
    BY <1>1, <1>2, <2>1, <2>2
<1>4. CASE write_buffer_[x] = << >>
  <2>1. PICK n \in WriteResults(x, Units) :
          /\ KernelTakes(x, SubSeq(Message(sent'[x]), 1, n))
          /\ lost' = [lost EXCEPT ![x] = @ \cup {k \in {sent'[x]} : n = 0}]
          /\ IF n \in 1..(Units - 1)
             THEN write_buffer_' = [write_buffer_ EXCEPT
                       ![x] = SubSeq(Message(sent'[x]), n + 1, Units)]
             ELSE UNCHANGED write_buffer_
    BY <1>1, <1>4 DEF Send
  <2>2. sent'[x] = new
    BY <1>1, <1>2
  <2>3. /\ accepted' = [accepted EXCEPT ![x] = @ \o SubSeq(m, 1, n)]
        /\ lost' = [lost EXCEPT ![x] = @ \cup {k \in {new} : n = 0}]
        /\ n \in 1..(Units - 1) =>
             write_buffer_' = [write_buffer_ EXCEPT ![x] = SubSeq(m, n + 1, Units)]
        /\ n \notin 1..(Units - 1) => write_buffer_' = write_buffer_
    BY <2>1, <2>2 DEF KernelTakes, m
  <2>4. n \in 0..Units
    BY <1>1 DEF WriteResults
  <2>5. stream = accepted[x]
    BY <1>1, <1>4, ConcatEmptySeq
  <2>6. CASE n = 0
    <3>1. SubSeq(m, 1, n) = << >>
      BY <2>6, SubSeqEmpty
    <3>2. accepted'[x] = accepted[x]
      BY <1>1, <2>3, <3>1, ConcatEmptySeq
    <3>3. write_buffer_' = write_buffer_ /\ lost' = [lost EXCEPT ![x] = @ \cup {new}]
      <4>1. {k \in {new} : n = 0} = {new} /\ n \notin 1..(Units - 1)
        BY <1>1, <2>6
      <4> QED
        BY <2>3, <4>1
    <3> QED
      BY <1>1, <1>2, <2>3, <3>2, <3>3
  <2>7. CASE n \in 1..(Units - 1)
    <3>1. accepted'[x] = accepted[x] \o SubSeq(m, 1, n)
          /\ write_buffer_'[x] = SubSeq(m, n + 1, Units)
      BY <1>1, <2>3, <2>7
    <3>2. (accepted[x] \o SubSeq(m, 1, n)) \o SubSeq(m, n + 1, Len(m)) = accepted[x] \o m
      <4>1. n \in 0..Len(m)
        BY <1>2, <2>4
      <4> QED
        BY <1>1, <1>2, <4>1, MovingUnits
    <3>3. after = accepted[x] \o m
      BY <1>2, <3>1, <3>2
    <3>4. lost' = lost
      BY <1>1, <2>3, <2>7
    <3> QED
      BY <1>1, <1>2, <2>3, <2>5, <2>7, <3>3, <3>4
  <2>8. CASE n = Units
    <3>1. SubSeq(m, 1, n) = m
      BY <1>2, <2>8, SubSeqFull
    <3>2. write_buffer_' = write_buffer_ /\ lost' = lost
      BY <1>1, <2>3, <2>8
    <3>3. accepted'[x] = accepted[x] \o m /\ accepted[x] \o m \in Seq(Nat \ {0})
      BY <1>1, <1>2, <2>3, <3>1, ConcatProperties
    <3>4. after = accepted[x] \o m
      BY <1>4, <3>2, <3>3, ConcatEmptySeq
    <3> QED
      BY <1>1, <1>2, <2>3, <2>5, <3>2, <3>4
  <2>9. n = 0 \/ n \in 1..(Units - 1) \/ n = Units
    BY <1>1, <2>4
  <2> QED
    BY <2>6, <2>7, <2>8, <2>9
<1> QED
  BY <1>3, <1>4

LEMMA SendKeepsMessages ==
  ASSUME IInv, Unsent, MessagesWhole, NEW x \in Conns, HandlerSends(x)
  PROVE  Unsent' /\ MessagesWhole'
<1> DEFINE new    == sent[x] + 1
           m      == Message(new)
           kept   == (1..sent[x]) \ lost[x]
           stream == accepted[x] \o write_buffer_[x]
           after  == accepted'[x] \o write_buffer_'[x]
<1>1. /\ TypeOK /\ Send(x) /\ x \in alive /\ alive' = alive /\ UNCHANGED peers
      /\ sent \in [Conns -> Nat] /\ lost \in [Conns -> SUBSET (Nat \ {0})]
      /\ accepted[x] \in Seq(Nat \ {0}) /\ write_buffer_[x] \in Seq(Nat \ {0})
  BY DEF IInv, HandlerSends, TypeOK
<1>2. sent' = [sent EXCEPT ![x] = new] /\ new \in Nat \ {0}
  BY <1>1 DEF Send
<1>3. /\ \A y \in Conns \ {x} : /\ accepted'[y] = accepted[y]
                                /\ write_buffer_'[y] = write_buffer_[y]
                                /\ sent'[y] = sent[y] /\ lost'[y] = lost[y]
      /\ lost'[x] \subseteq lost[x] \cup {new}
  BY <1>1, SendAppends
<1>4. Whole(stream, kept) /\ lost[x] \subseteq 1..sent[x]
  BY <1>1 DEF MessagesWhole, Whole, Stream, Unsent
<1>5. \/ after = stream /\ new \in lost'[x] /\ lost[x] \subseteq lost'[x]
      \/ after = stream \o m /\ lost'[x] = lost[x]
  BY <1>1, SendAppends
<1> HIDE DEF m
<1>6. Whole(after, (1..new) \ lost'[x])
  <2>1. CASE after = stream /\ new \in lost'[x] /\ lost[x] \subseteq lost'[x]
    <3>1. (1..new) \ lost'[x] = kept
      BY <1>1, <1>3, <1>4, <2>1
    <3> QED
      BY <1>4, <2>1, <3>1
  <2>2. CASE after = stream \o m /\ lost'[x] = lost[x]
    <3>1. (1..new) \ lost'[x] = kept \cup {new}
      BY <1>1, <1>4, <2>2
    <3>2. stream \in Seq(Nat \ {0}) /\ sent[x] \in Nat /\ kept \in SUBSET (1..sent[x])
      BY <1>1, ConcatProperties
    <3>3. Whole(stream \o m, kept \cup {new})
      BY <1>4, <3>2, WholeGrows DEF m
    <3> QED
      BY <2>2, <3>1, <3>3
  <2> QED
    BY <1>5, <2>1, <2>2
<1>7. Unsent'
  <2>1. /\ lost'[x] \subseteq 1..new /\ sent'[x] = new
        /\ x \notin backlog /\ peer[x] # "away"
    <3>1. lost'[x] \subseteq 1..new
      BY <1>1, <1>3, <1>4
    <3>2. sent'[x] = new
      BY <1>1, <1>2
    <3>3. x \notin backlog /\ peer[x] # "away"
      BY <1>1 DEF IInv, Fresh
    <3> QED
      BY <3>1, <3>2, <3>3
  <2>2. peer' = peer /\ backlog' = backlog
    BY <1>1 DEF peers
  <2>3. \A y \in Conns \ {x} : accepted'[y] = accepted[y] /\ sent'[y] = sent[y] /\ lost'[y] = lost[y]
    BY <1>3
  <2> QED
    BY ONLY Unsent, <2>1, <2>2, <2>3 DEF Unsent
<1>8. MessagesWhole'
  <2> SUFFICES ASSUME NEW y \in alive' PROVE Whole(Stream(y)', (1..sent'[y]) \ lost'[y])
    BY DEF MessagesWhole, Whole
  <2>1. y \in alive /\ y \in Conns
    BY <1>1 DEF TypeOK
  <2>2. CASE y = x
    BY <1>1, <1>2, <1>6, <2>2 DEF Stream
  <2>3. CASE y # x
    <3>1. Whole(Stream(y), (1..sent[y]) \ lost[y])
      BY <2>1 DEF MessagesWhole, Whole
    <3> QED
      BY <1>3, <2>1, <2>3, <3>1 DEF Stream
  <2> QED
    BY <2>2, <2>3
<1> QED
  BY <1>7, <1>8

\* OnWrite moves units from the buffer to the kernel.
LEMMA OnWriteKeepsMessages ==
  ASSUME IInv, Unsent, MessagesWhole, OnWrite
  PROVE  Unsent' /\ MessagesWhole'
<1> DEFINE a == accepted[current]
           b == write_buffer_[current]
<1>1. /\ TypeOK /\ UNCHANGED <<sent, lost, peers>> /\ current \in Conns
      /\ a \in Seq(Nat \ {0}) /\ b \in Seq(Nat \ {0}) /\ Len(b) \in Nat
      /\ accepted \in [Conns -> Seq(Nat \ {0})]
      /\ write_buffer_ \in [Conns -> Seq(Nat \ {0})]
  BY LenProperties DEF IInv, Control, OnWrite, TypeOK
<1>2. PICK n \in WriteResults(current, Len(b)) :
        /\ accepted' = [accepted EXCEPT ![current] = @ \o SubSeq(b, 1, n)]
        /\ write_buffer_' = [write_buffer_ EXCEPT ![current] = SubSeq(b, n + 1, Len(b))]
        /\ alive' \subseteq alive
  BY DEF OnWrite, KernelTakes, Delete
<1>3. n \in 0..Len(b)
  BY <1>1 DEF WriteResults
<1>4. accepted'[current] \o write_buffer_'[current] = a \o b
  <2>1. accepted'[current] \o write_buffer_'[current]
          = (a \o SubSeq(b, 1, n)) \o SubSeq(b, n + 1, Len(b))
    BY <1>1, <1>2
  <2>2. (a \o SubSeq(b, 1, n)) \o SubSeq(b, n + 1, Len(b)) = a \o b
    BY <1>1, <1>3, MovingUnits
  <2> QED
    BY <2>1, <2>2
<1>5. \A y \in Conns : Stream(y)' = Stream(y)
  BY <1>1, <1>2, <1>4 DEF Stream
<1>6. MessagesWhole'
  BY <1>1, <1>2, <1>5 DEF TypeOK, MessagesWhole
<1>7. Unsent'
  <2>1. current \notin backlog /\ peer[current] # "away"
    BY <1>1 DEF IInv, Fresh, BatchAlive, OnWrite
  <2> QED
    BY <1>1, <1>2, <2>1 DEF Unsent, peers
<1> QED
  BY <1>6, <1>7

LEMMA AcceptKeepsMessages ==
  ASSUME IInv, Unsent, MessagesWhole, Accept
  PROVE  Unsent' /\ MessagesWhole'
<1>1. PICK x \in backlog : backlog' = backlog \ {x} /\ alive' = alive \cup {x}
  BY DEF Accept
<1>2. UNCHANGED <<output, peer>> /\ x \in Conns
  BY DEF Accept, IInv, TypeOK
<1>3. Unsent'
  BY <1>1, <1>2 DEF Unsent, output
<1>4. accepted[x] = << >> /\ write_buffer_[x] = << >> /\ sent[x] = 0
  BY <1>1, <1>2 DEF IInv, Fresh, Unsent
<1>5. Whole(Stream(x), (1..sent[x]) \ lost[x])
  <2>1. Stream(x) = << >> /\ Len(Stream(x)) = 0
    BY <1>4, EmptySeq, ConcatEmptySeq DEF Stream
  <2>2. (1..sent[x]) \ lost[x] = {}
    BY <1>4
  <2>3. Len(Stream(x)) = Units * Cardinality((1..sent[x]) \ lost[x])
    <3>1. Cardinality((1..sent[x]) \ lost[x]) = 0
      BY <2>2, FS_EmptySet
    <3>2. Units * 0 = 0
      BY SizesAssumption
    <3> QED
      BY <2>1, <3>1, <3>2
  <2>4. 1..0 = {} /\ 1..(0 - Units) = {} /\ 1..(0 - 1) = {}
    BY SizesAssumption
  <2> QED
    BY <2>1, <2>3, <2>4 DEF Whole
<1>6. MessagesWhole'
  <2> SUFFICES ASSUME NEW y \in alive' PROVE Whole(Stream(y)', (1..sent'[y]) \ lost'[y])
    BY DEF MessagesWhole, Whole
  <2>1. Stream(y)' = Stream(y) /\ sent'[y] = sent[y] /\ lost'[y] = lost[y]
    BY <1>2 DEF Stream, output
  <2>2. CASE y \in alive
    BY <2>1, <2>2 DEF MessagesWhole, Whole
  <2>3. CASE y = x
    BY <1>5, <2>1, <2>3
  <2> QED
    BY <1>1, <2>2, <2>3
<1> QED
  BY <1>3, <1>6

\* Every other step leaves what was sent, accepted and buffered alone.
LEMMA OthersKeepMessages ==
  ASSUME Unsent, MessagesWhole, alive' \subseteq alive,
         UNCHANGED <<write_buffer_, accepted, sent, lost>>,
         \A x \in Conns : x \in backlog' \/ peer'[x] = "away" =>
                            x \in backlog \/ peer[x] = "away"
  PROVE  Unsent' /\ MessagesWhole'
BY DEF Unsent, MessagesWhole, Stream

\* A failed or partial write never cuts a message short, repeats it or lets a
\* later one overtake it: what a peer gets is every message that was not
\* dropped, whole and in the order of the calls of Send.
THEOREM MessagesStayWhole == Spec => []MessagesWhole
<1>1. Init => Unsent /\ MessagesWhole
  BY DEF Init, Unsent, MessagesWhole
<1>2. ASSUME IInv, Unsent, MessagesWhole, [Next]_vars
      PROVE  Unsent' /\ MessagesWhole'
  <2>1. CASE \E x \in Conns : HandlerSends(x)
    BY <1>2, <2>1, SendKeepsMessages
  <2>2. CASE OnWrite
    BY <1>2, <2>2, OnWriteKeepsMessages
  <2>3. CASE Accept
    BY <1>2, <2>3, AcceptKeepsMessages
  <2>4. CASE HandlerCloses \/ ReadFails
    BY <1>2, <2>4, OthersKeepMessages DEF HandlerCloses, ReadFails, Delete, output, peers
  <2>5. CASE \/ Poll \/ (\E x \in Sockets : Dispatch(x)) \/ ReadData
             \/ HandlerReturns \/ ReadNothing \/ NoWrite
    BY <1>2, <2>5, OthersKeepMessages DEF Poll, Dispatch, ReadData, HandlerReturns,
       ReadNothing, NoWrite, sockets, output, peers
  <2>6. CASE \E x \in Conns : Peer(x)
    <3>1. PICK x \in Conns : Peer(x)
      BY <2>6
    <3>2. UNCHANGED <<write_buffer_, accepted, sent, lost>> /\ alive' = alive
      BY <3>1 DEF Peer, PeerConnects, PeerSends, PeerReads, PeerCloses, sockets, output
    <3>3. \A y \in Conns : y \in backlog' \/ peer'[y] = "away" =>
                             y \in backlog \/ peer[y] = "away"
      BY <1>2, <3>1 DEF Peer, PeerConnects, PeerSends, PeerReads, PeerCloses, peers,
         IInv, TypeOK
    <3> QED
      BY <1>2, <3>2, <3>3, OthersKeepMessages
  <2>7. CASE UNCHANGED vars
    BY <1>2, <2>7, OthersKeepMessages DEF vars, sockets, output, peers
  <2> QED
    BY <1>2, <2>1, <2>2, <2>3, <2>4, <2>5, <2>6, <2>7 DEF Next, Server
<1> QED
  BY <1>1, <1>2, LoopInvariant, PTL DEF Spec

-----------------------------------------------------------------------------
(* The buffer a connection's output waits in, and its input is read into:  *)
(* IoBuffer, for any sizes, thresholds and data.  BufferTypeOK and         *)
(* ContentsWritten are inductive together; from them, every operation maps *)
(* to a step of ByteFifo or leaves the queue alone.                        *)

BufferInv == BufferTypeOK /\ ContentsWritten

Queue == Contents(end_ - start_)

-----------------------------------------------------------------------------
\* Making room never makes less room than asked for.
LEMMA RoomIsMade ==
  ASSUME NEW len \in Nat, BufferTypeOK
  PROVE  /\ CapacityFor(len) \in Nat
         /\ CapacityFor(len) >= capacity_
         /\ CapacityFor(len) - end_ >= len
BY DEF CapacityFor, CapacityLeft, Larger, BufferTypeOK

LEMMA DataIsSequence ==
  ASSUME NEW data \in Data \cup {<< >>}
  PROVE  data \in Seq(Bytes) /\ Len(data) \in Nat
<1>1. CASE data = << >>
  BY <1>1
<1>2. CASE data \in Data
  <2>1. PICK n \in 1..MaxData : data \in [1..n -> Bytes]
    BY <1>2 DEF Data
  <2>2. n \in Nat
    BY <2>1, BufferSizesAssumption
  <2> QED
    BY <2>1, <2>2
<1> QED
  BY <1>1, <1>2

\* Appending data to the block: the two writing operations, whatever room
\* they ask for.
LEMMA StoringAppends ==
  ASSUME BufferInv, NEW data \in Seq(Bytes), NEW capacity \in Nat,
         capacity >= capacity_, Len(data) <= capacity - end_,
         capacity_' = capacity, buf_' = Stored(capacity, data),
         end_' = end_ + Len(data), start_' = start_, taken' = << >>
  PROVE  BufferInv' /\ Fifo!Put
<1>1. /\ capacity_ \in Nat /\ start_ \in Nat /\ end_ \in Nat /\ Len(data) \in Nat
      /\ buf_ \in [0..(capacity_ - 1) -> Bytes \cup {Garbage}]
      /\ start_ <= end_ /\ end_ <= capacity_
      /\ \A i \in start_..(end_ - 1) : buf_[i] \in Bytes
  BY DEF BufferInv, BufferTypeOK, ContentsWritten
<1>2. \A i \in 1..Len(data) : data[i] \in Bytes
  OBVIOUS
<1>3. \A i \in 0..(capacity - 1) :
        buf_'[i] = IF i \in end_..(end_ + Len(data) - 1) THEN data[i - end_ + 1]
                   ELSE IF i < capacity_ THEN buf_[i] ELSE Garbage
  BY DEF Stored
<1>4. \A i \in 0..(capacity - 1) : buf_'[i] \in Bytes \cup {Garbage}
  <2> TAKE i \in 0..(capacity - 1)
  <2>1. CASE i \in end_..(end_ + Len(data) - 1)
    <3>1. i - end_ + 1 \in 1..Len(data)
      BY <2>1, <1>1
    <3> QED
      BY <2>1, <3>1, <1>2, <1>3
  <2>2. CASE i \notin end_..(end_ + Len(data) - 1)
    BY <2>2, <1>1, <1>3
  <2> QED
    BY <2>1, <2>2
<1>5. BufferTypeOK'
  <2>1. buf_' \in [0..(capacity - 1) -> Bytes \cup {Garbage}]
    BY <1>4 DEF Stored
  <2> QED
    BY <2>1, <1>1 DEF BufferTypeOK
<1>6. \A i \in start_..(end_ - 1) : buf_'[i] = buf_[i]
  BY <1>1, <1>3
<1>7. ContentsWritten'
  <2> SUFFICES ASSUME NEW i \in start_'..(end_' - 1) PROVE buf_'[i] \in Bytes
    BY DEF ContentsWritten
  <2>1. CASE i < end_
    <3>1. i \in start_..(end_ - 1)
      BY <2>1, <1>1
    <3> QED
      BY <3>1, <1>1, <1>6
  <2>2. CASE i >= end_
    <3>1. i - end_ + 1 \in 1..Len(data) /\ i \in 0..(capacity - 1)
      BY <2>2, <1>1
    <3> QED
      BY <2>2, <3>1, <1>1, <1>2, <1>3
  <2> QED
    BY <2>1, <2>2, <1>1
<1>8. Fifo!Put
  <2>1. /\ Queue = [i \in 1..(end_ - start_) |-> buf_[start_ + i - 1]]
        /\ Queue' = [i \in 1..(end_' - start_') |-> buf_'[start_' + i - 1]]
    BY DEF Queue, Contents
  <2>2. Len(Queue) = end_ - start_ /\ Len(Queue') = end_ + Len(data) - start_
    BY <2>1, <1>1
  <2>3. \A i \in 1..Len(Queue) : Queue'[i] = Queue[i]
    <3> SUFFICES ASSUME NEW i \in 1..(end_ - start_) PROVE Queue'[i] = Queue[i]
      BY <2>2
    <3>1. start_ + i - 1 \in start_..(end_ - 1) /\ i \in 1..(end_ + Len(data) - start_)
      BY <1>1
    <3>2. Queue[i] = buf_[start_ + i - 1] /\ Queue'[i] = buf_'[start_ + i - 1]
      BY <2>1, <3>1, <1>1
    <3> QED
      BY <3>1, <3>2, <1>6
  <2>4. \A i \in 1..Len(Queue') : Queue'[i] \in Bytes
    <3> SUFFICES ASSUME NEW i \in 1..(end_ + Len(data) - start_) PROVE Queue'[i] \in Bytes
      BY <2>2
    <3>1. start_ + i - 1 \in start_..(end_ + Len(data) - 1)
      BY <1>1
    <3>2. start_ + i - 1 \in start_'..(end_' - 1) /\ i \in 1..(end_' - start_')
      BY <3>1, <1>1
    <3>3. buf_'[start_ + i - 1] \in Bytes
      BY <3>2, <1>7 DEF ContentsWritten
    <3> QED
      BY <2>1, <3>2, <3>3, <1>1
  <2> QED
    BY <2>2, <2>3, <2>4, <1>1 DEF Fifo!Put, Queue
<1> QED
  BY <1>5, <1>7, <1>8 DEF BufferInv

\* Taking from the front: Read moves start_, and hands out what it passes.
LEMMA ReadingTakes ==
  ASSUME BufferInv, NEW len \in Nat, Read(len)
  PROVE  BufferInv' /\ Fifo!Take
<1> DEFINE n == IF len >= end_ - start_ THEN end_ - start_ ELSE len
<1>1. /\ capacity_ \in Nat /\ start_ \in Nat /\ end_ \in Nat /\ n \in Nat
      /\ start_ <= end_ /\ end_ <= capacity_ /\ start_ + n <= end_
  BY DEF BufferInv, BufferTypeOK
<1>2. /\ start_' = start_ + n /\ taken' = Contents(n)
      /\ buf_' = buf_ /\ capacity_' = capacity_ /\ end_' = end_
  BY DEF Read
<1> HIDE DEF n
<1>3. BufferTypeOK'
  BY <1>1, <1>2 DEF BufferInv, BufferTypeOK
<1>4. ContentsWritten'
  BY <1>1, <1>2 DEF BufferInv, ContentsWritten
<1>5. /\ Queue = [i \in 1..(end_ - start_) |-> buf_[start_ + i - 1]]
      /\ Queue' = [i \in 1..(end_ - (start_ + n)) |-> buf_[start_ + n + i - 1]]
      /\ taken' = [i \in 1..n |-> buf_[start_ + i - 1]]
  BY <1>2 DEF Queue, Contents
<1>6. Len(Queue) = end_ - start_ /\ Queue \in Seq(Bytes)
  <2>1. end_ - start_ \in Nat
    BY <1>1
  <2>2. \A i \in 1..(end_ - start_) : buf_[start_ + i - 1] \in Bytes
    <3> TAKE i \in 1..(end_ - start_)
    <3>1. start_ + i - 1 \in start_..(end_ - 1)
      BY <1>1
    <3> QED
      BY <3>1 DEF BufferInv, ContentsWritten
  <2>3. Queue \in [1..(end_ - start_) -> Bytes]
    BY <1>5, <2>2
  <2> QED
    BY <2>1, <2>3
<1>7. taken' = SubSeq(Queue, 1, n)
  BY <1>1, <1>5, <1>6
<1>8. Queue' = SubSeq(Queue, n + 1, Len(Queue))
  <2>1. SubSeq(Queue, n + 1, end_ - start_)
          = [i \in 1..(end_ - start_ - n) |-> Queue[i + n]]
    BY <1>1, <1>6
  <2>2. \A i \in 1..(end_ - start_ - n) : Queue[i + n] = buf_[start_ + n + i - 1]
    BY <1>1, <1>5
  <2> QED
    BY <1>1, <1>5, <1>6, <2>1, <2>2
<1> QED
  BY <1>1, <1>3, <1>4, <1>6, <1>7, <1>8 DEF BufferInv, Fifo!Take, Queue

\* An empty buffer moved back is still empty.
LEMMA ResettingKeepsQueue ==
  ASSUME BufferInv, WhenEmpty
  PROVE  BufferInv' /\ Fifo!Take
<1>1. /\ start_ = end_ /\ start_' = 0 /\ end_' = 0 /\ taken' = << >> /\ start_ \in Nat
      /\ kDefaultSize \in Nat
  BY BufferSizesAssumption DEF WhenEmpty, Reset, BufferInv, BufferTypeOK
<1>2. /\ capacity_' \in Nat
      /\ buf_' \in [0..(capacity_' - 1) -> Bytes \cup {Garbage}]
  BY <1>1 DEF WhenEmpty, Reset, FreshBlock, BufferInv, BufferTypeOK
<1>3. BufferInv'
  <2>1. BufferTypeOK'
    <3>1. start_' \in Nat /\ end_' \in Nat /\ start_' <= end_' /\ end_' <= capacity_'
      BY <1>1, <1>2
    <3> QED
      BY <3>1, <1>2 DEF BufferTypeOK
  <2>2. start_'..(end_' - 1) = {}
    BY <1>1
  <2>3. ContentsWritten'
    BY <2>2 DEF ContentsWritten
  <2> QED
    BY <2>1, <2>3 DEF BufferInv
<1>4. Queue = << >> /\ Queue' = << >>
  BY <1>1 DEF Queue, Contents
<1> QED
  <2>1. /\ 0 \in 0..Len(Queue) /\ taken' = SubSeq(Queue, 1, 0)
        /\ Queue' = SubSeq(Queue, 0 + 1, Len(Queue))
    BY <1>1, <1>4
  <2> QED
    BY <1>3, <2>1 DEF Fifo!Take, Queue

LEMMA NextTakesOrPuts == BufferInv /\ [BufferNext]_bufferVars => BufferInv' /\ [Fifo!Put \/ Fifo!Take]_<<Queue, taken>>
<1> SUFFICES ASSUME BufferInv, [BufferNext]_bufferVars
             PROVE  BufferInv' /\ [Fifo!Put \/ Fifo!Take]_<<Queue, taken>>
  OBVIOUS
<1>1. CASE UNCHANGED bufferVars
  BY <1>1 DEF bufferVars, BufferInv, BufferTypeOK, ContentsWritten, Queue, Contents
<1>2. ASSUME NEW data \in Data, Write(data) PROVE BufferInv' /\ Fifo!Put
  <2>1. data \in Seq(Bytes) /\ Len(data) \in Nat
    BY DataIsSequence
  <2>2. /\ CapacityFor(Len(data)) \in Nat
        /\ CapacityFor(Len(data)) >= capacity_
        /\ Len(data) <= CapacityFor(Len(data)) - end_
    BY <2>1, RoomIsMade DEF BufferInv, BufferTypeOK
  <2> QED
    BY <1>2, <2>1, <2>2, StoringAppends DEF Write
<1>3. ASSUME NEW data \in Data \cup {<< >>}, ReadFromFdAndWrite(data)
      PROVE  BufferInv' /\ Fifo!Put
  <2>1. data \in Seq(Bytes) /\ Len(data) \in Nat
    BY DataIsSequence
  <2>2. CapacityFor(kEnlargeSize) \in Nat /\ CapacityFor(kEnlargeSize) >= capacity_
    BY BufferSizesAssumption, RoomIsMade DEF BufferInv
  <2>3. /\ capacity_' = CapacityFor(kEnlargeSize) /\ Len(data) <= capacity_' - end_
        /\ buf_' = Stored(capacity_', data) /\ end_' = end_ + Len(data)
        /\ start_' = start_ /\ taken' = << >>
    BY <1>3 DEF ReadFromFdAndWrite
  <2> QED
    BY <2>1, <2>2, <2>3, StoringAppends
<1>4. ASSUME NEW len \in 0..MaxCapacity, Read(len) PROVE BufferInv' /\ Fifo!Take
  BY <1>4, ReadingTakes, BufferSizesAssumption
<1>5. ASSUME WhenEmpty PROVE BufferInv' /\ Fifo!Take
  BY <1>5, ResettingKeepsQueue
<1> QED
  BY <1>1, <1>2, <1>3, <1>4, <1>5 DEF BufferNext

LEMMA InitIsFifoInit == BufferInit => BufferInv /\ Fifo!FifoInit
<1> SUFFICES ASSUME BufferInit PROVE BufferInv /\ Fifo!FifoInit
  OBVIOUS
<1>1. buf_ \in [0..(0 - 1) -> Bytes \cup {Garbage}]
  BY DEF BufferInit, FreshBlock
<1>2. Queue = << >>
  BY DEF BufferInit, Queue, Contents
<1> QED
  BY <1>1, <1>2 DEF BufferInit, BufferInv, BufferTypeOK, ContentsWritten, Fifo!FifoInit, Queue

-----------------------------------------------------------------------------
(* Theorems.                                                               *)

\* The contents stay inside the block, in whatever sizes they come and go.
THEOREM BufferStaysInBounds == BufferSpec => []BufferTypeOK
<1>1. BufferInit => BufferInv
  BY InitIsFifoInit
<1>2. BufferInv /\ [BufferNext]_bufferVars => BufferInv'
  BY NextTakesOrPuts
<1>3. BufferInv => BufferTypeOK
  BY DEF BufferInv
<1> QED
  BY <1>1, <1>2, <1>3, PTL DEF BufferSpec

\* Nothing that was not written is ever handed out.
THEOREM NoGarbageRead == BufferSpec => []ContentsWritten
<1>1. BufferInit => BufferInv
  BY InitIsFifoInit
<1>2. BufferInv /\ [BufferNext]_bufferVars => BufferInv'
  BY NextTakesOrPuts
<1>3. BufferInv => ContentsWritten
  BY DEF BufferInv
<1> QED
  BY <1>1, <1>2, <1>3, PTL DEF BufferSpec

\* IoBuffer implements a queue of bytes.
THEOREM BufferImplementsFifo == BufferSpec => BufferIsFifo
<1>1. BufferInit => BufferInv /\ Fifo!FifoInit
  BY InitIsFifoInit
<1>2. BufferInv /\ [BufferNext]_bufferVars => BufferInv' /\ [Fifo!Put \/ Fifo!Take]_<<Contents(end_ - start_), taken>>
  BY NextTakesOrPuts DEF Queue
<1> QED
  BY <1>1, <1>2, PTL DEF BufferSpec, BufferIsFifo, Fifo!FifoSpec
=============================================================================
