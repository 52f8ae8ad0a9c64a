------------------------------ MODULE EventLoop ------------------------------
(***************************************************************************)
(* The event loop and its TCP connections: Epoller::WaitIO, the interest   *)
(* set Fd keeps with the kernel, and TcpSocket's OnRead, OnWrite and Send. *)
(*                                                                         *)
(* The server is one thread, and pc says where in WaitIO it stands; the    *)
(* kernel and the peers take steps between any two of its.  A protocol     *)
(* handler is what HandleRead may do to sockets: send messages on any      *)
(* connection, then return.  A message is Units bytes worth of one call of *)
(* Send, written as as many copies of its number.  A connection is         *)
(* accepted once; the listening socket is ready while someone connects.    *)
(***************************************************************************)
EXTENDS Naturals, Sequences, FiniteSets

CONSTANTS
  Conns,          \* connections
  Listener,       \* the listening socket
  None,           \* no socket is being handled
  Units,          \* units a message is made of
  Room,           \* units the kernel buffers for a peer
  MaxMessages,    \* bound: messages sent on a connection
  MaxRequests     \* bound: times a peer sends something

ASSUME SocketsAssumption == Listener \notin Conns /\ None \notin Conns \cup {Listener}
ASSUME SizesAssumption ==
  /\ Units \in Nat \ {0} /\ Room \in Nat \ {0}
  /\ MaxMessages \in Nat /\ MaxRequests \in Nat

VARIABLES
  pc,             \* where the loop stands
  batch,          \* what epoll_wait returned and is not handled yet
  current,        \* the socket being handled
  alive,          \* TcpSockets not deleted
  events_,        \* what each Fd believes it is registered for
  interest,       \* what it is registered for in the kernel
  write_buffer_,
  accepted,       \* units the kernel took, in order
  unread,         \* how many of them the peer has not read yet
  sent,           \* messages passed to Send
  lost,           \* messages a failed Send dropped
  peer,           \* state of the other end
  requests,       \* times the peer has sent something
  readable,       \* connections with something to read
  backlog         \* connections the listening socket has yet to accept

loop    == <<pc, batch, current>>
sockets == <<alive, events_, interest>>
output  == <<write_buffer_, accepted, unread, sent, lost>>
peers   == <<peer, requests, readable, backlog>>
vars    == <<loop, sockets, output, peers>>

Sockets == Conns \cup {Listener}
Kinds   == {"in", "out"}

Init ==
  /\ pc = "poll"
  /\ batch = [x \in Sockets |-> {}]
  /\ current = None
  /\ alive = {}
  /\ events_ = [x \in Conns |-> {}]
  /\ interest = [x \in Conns |-> {}]
  /\ write_buffer_ = [x \in Conns |-> << >>]
  /\ accepted = [x \in Conns |-> << >>]
  /\ unread = [x \in Conns |-> 0]
  /\ sent = [x \in Conns |-> 0]
  /\ lost = [x \in Conns |-> {}]
  /\ peer = [x \in Conns |-> "away"]
  /\ requests = [x \in Conns |-> 0]
  /\ readable = {}
  /\ backlog = {}

Message(n) == [i \in 1..Units |-> n]

-----------------------------------------------------------------------------
(* Peers and the kernel.                                                   *)

PeerConnects(x) ==
  /\ peer[x] = "away"
  /\ peer' = [peer EXCEPT ![x] = "open"]
  /\ backlog' = backlog \cup {x}
  /\ UNCHANGED <<loop, sockets, output, requests, readable>>

PeerSends(x) ==
  /\ peer[x] = "open"
  /\ requests[x] < MaxRequests
  /\ requests' = [requests EXCEPT ![x] = @ + 1]
  /\ readable' = readable \cup {x}
  /\ UNCHANGED <<loop, sockets, output, peer, backlog>>

PeerReads(x) ==
  /\ peer[x] = "open"
  /\ unread[x] > 0
  /\ unread' = [unread EXCEPT ![x] = @ - 1]
  /\ UNCHANGED <<loop, sockets, write_buffer_, accepted, sent, lost, peers>>

PeerCloses(x) ==
  /\ peer[x] = "open"
  /\ peer' = [peer EXCEPT ![x] = "closed"]
  /\ UNCHANGED <<loop, sockets, output, requests, readable, backlog>>

\* Level triggered: what is registered and ready is reported every time.
Ready(x) ==
  IF x = Listener
  THEN {k \in {"in"} : backlog # {}}
  ELSE {k \in interest[x] :
          \/ peer[x] = "closed"
          \/ k = "in" /\ x \in readable
          \/ k = "out" /\ unread[x] < Room}

\* What write(2) may return for len units: 0 stands for an error.
WriteResults(x, len) ==
  {n \in 1..len : n <= Room - unread[x]}
  \cup {n \in {0} : unread[x] = Room \/ peer[x] = "closed"}

\* The kernel takes the units of data.
KernelTakes(x, data) ==
  /\ accepted' = [accepted EXCEPT ![x] = @ \o data]
  /\ unread' = [unread EXCEPT ![x] = @ + Len(data)]

-----------------------------------------------------------------------------
(* Fd: what is registered follows events_.  SetEvents stands for Enable    *)
(* and Disable{Read,Write}; Register for AddFd, ModFd and DelFd, of which  *)
(* they choose one according to whether events_ was or becomes empty.  The *)
(* operators named Slip... are slips of the definition after them, used    *)
(* to test that the properties notice: no specification here uses them.    *)

Register(x, events) == interest' = [interest EXCEPT ![x] = events]

SlipSetEventsNotModified(x, events) ==       \* ModFd forgotten
  /\ events_' = [events_ EXCEPT ![x] = events]
  /\ interest' = [interest EXCEPT ![x] =
                    IF events_[x] = {} \/ events = {} THEN events ELSE @]

SetEvents(x, events) ==
  /\ events_' = [events_ EXCEPT ![x] = events]
  /\ Register(x, events)

\* TcpSocket::Send.  A failed write drops the message, tells the handler and
\* leaves the connection open.
SlipSendOvertakes(x) ==                      \* a waiting buffer not looked at
  /\ sent' = [sent EXCEPT ![x] = @ + 1]
  /\ \E n \in WriteResults(x, Units) :
       /\ KernelTakes(x, SubSeq(Message(sent'[x]), 1, n))
       /\ lost' = [lost EXCEPT ![x] = @ \cup {m \in {sent'[x]} : n = 0}]
       /\ IF n \in 1..(Units - 1)
          THEN /\ write_buffer_' = [write_buffer_ EXCEPT
                    ![x] = @ \o SubSeq(Message(sent'[x]), n + 1, Units)]
               /\ SetEvents(x, events_[x] \cup {"out"})
          ELSE UNCHANGED <<write_buffer_, events_, interest>>

Send(x) ==
  /\ sent' = [sent EXCEPT ![x] = @ + 1]
  /\ IF write_buffer_[x] = << >>
     THEN \E n \in WriteResults(x, Units) :
            /\ KernelTakes(x, SubSeq(Message(sent'[x]), 1, n))
            /\ lost' = [lost EXCEPT ![x] = @ \cup {m \in {sent'[x]} : n = 0}]
            /\ IF n \in 1..(Units - 1)
               THEN /\ write_buffer_' = [write_buffer_ EXCEPT
                         ![x] = SubSeq(Message(sent'[x]), n + 1, Units)]
                    /\ SetEvents(x, events_[x] \cup {"out"})
               ELSE UNCHANGED <<write_buffer_, events_, interest>>
     ELSE /\ write_buffer_' = [write_buffer_ EXCEPT ![x] = @ \o Message(sent'[x])]
          /\ UNCHANGED <<accepted, unread, lost, events_, interest>>

\* delete fd: the destructors of TcpSocket and Fd.
Delete(x) ==
  /\ alive' = alive \ {x}
  /\ SetEvents(x, {})

-----------------------------------------------------------------------------
(* Epoller::WaitIO, step by step.  It returns, with nothing done, when     *)
(* nothing is ready before the timeout.                                    *)

Poll ==
  /\ pc = "poll"
  /\ batch' = [x \in Sockets |-> Ready(x)]
  /\ pc' = IF \E x \in Sockets : Ready(x) # {} THEN "batch" ELSE "poll"
  /\ UNCHANGED <<current, sockets, output, peers>>

Dispatch(x) ==
  /\ pc = "batch"
  /\ batch[x] # {}
  /\ current' = x
  /\ pc' = IF x = Listener THEN "accept" ELSE IF "in" \in batch[x] THEN "read" ELSE "write"
  /\ UNCHANGED <<batch, sockets, output, peers>>

\* Done with the current socket, on to the next one of the batch.
NextInBatch ==
  /\ batch' = [batch EXCEPT ![current] = {}]
  /\ current' = None
  /\ pc' = IF \E x \in Sockets : batch'[x] # {} THEN "batch" ELSE "poll"

\* A read that ends the connection ends WaitIO too.
LeaveBatch ==
  /\ batch' = [x \in Sockets |-> {}]
  /\ current' = None
  /\ pc' = "poll"

\* TcpSocket::OnRead of the listening socket.
Accept ==
  /\ pc = "accept"
  /\ \E x \in backlog :
       /\ backlog' = backlog \ {x}
       /\ alive' = alive \cup {x}
       /\ SetEvents(x, {"in"})
  /\ NextInBatch
  /\ UNCHANGED <<output, peer, requests, readable>>

\* TcpSocket::OnRead of a connection: it reads and handles until there is
\* nothing left, the peer has closed, or the handler wants it closed.
ReadData ==
  /\ pc = "read"
  /\ current \in readable
  /\ readable' = readable \ {current}
  /\ pc' = "handle"
  /\ UNCHANGED <<batch, current, sockets, output, peer, requests, backlog>>

HandlerSends(x) ==
  /\ pc = "handle"
  /\ x \in alive
  /\ sent[x] < MaxMessages
  /\ Send(x)
  /\ UNCHANGED <<loop, alive, peers>>

HandlerReturns ==
  /\ pc = "handle"
  /\ pc' = "read"
  /\ UNCHANGED <<batch, current, sockets, output, peers>>

SlipHandlerClosesKeepsBatch ==               \* deleted, the write event still handled
  /\ pc = "handle"
  /\ Delete(current)
  /\ pc' = "write"
  /\ UNCHANGED <<batch, current, output, peers>>

HandlerCloses ==
  /\ pc = "handle"
  /\ Delete(current)
  /\ LeaveBatch
  /\ UNCHANGED <<output, peers>>

ReadNothing ==                               \* EAGAIN
  /\ pc = "read"
  /\ current \notin readable
  /\ peer[current] = "open"
  /\ pc' = "write"
  /\ UNCHANGED <<batch, current, sockets, output, peers>>

SlipReadFailsAgain ==                        \* 0 taken for EAGAIN
  /\ pc = "read"
  /\ current \notin readable
  /\ peer[current] = "closed"
  /\ pc' = "write"
  /\ UNCHANGED <<batch, current, sockets, output, peers>>

ReadFails ==                                 \* closed by the peer, or an error
  /\ pc = "read"
  /\ current \notin readable
  /\ peer[current] = "closed"
  /\ Delete(current)
  /\ LeaveBatch
  /\ UNCHANGED <<output, peers>>

\* TcpSocket::OnWrite, and what WaitIO does with its result.
SlipOnWriteDisarms ==                        \* DisableWrite whatever is left
  /\ pc = "write"
  /\ "out" \in batch[current]
  /\ UNCHANGED <<sent, lost, peers>>
  /\ \E n \in WriteResults(current, Len(write_buffer_[current])) :
       /\ KernelTakes(current, SubSeq(write_buffer_[current], 1, n))
       /\ write_buffer_' = [write_buffer_ EXCEPT ![current] = SubSeq(@, n + 1, Len(@))]
       /\ IF n = 0
          THEN Delete(current)
          ELSE SetEvents(current, events_[current] \ {"out"}) /\ UNCHANGED alive
  /\ NextInBatch

OnWrite ==
  /\ pc = "write"
  /\ "out" \in batch[current]
  /\ UNCHANGED <<sent, lost, peers>>
  /\ \E n \in WriteResults(current, Len(write_buffer_[current])) :
       /\ KernelTakes(current, SubSeq(write_buffer_[current], 1, n))
       /\ write_buffer_' = [write_buffer_ EXCEPT ![current] = SubSeq(@, n + 1, Len(@))]
       /\ IF n = 0
          THEN Delete(current)
          ELSE /\ SetEvents(current, IF write_buffer_'[current] = << >>
                                     THEN events_[current] \ {"out"}
                                     ELSE events_[current])
               /\ UNCHANGED alive
  /\ NextInBatch

NoWrite ==
  /\ pc = "write"
  /\ "out" \notin batch[current]
  /\ NextInBatch
  /\ UNCHANGED <<sockets, output, peers>>

-----------------------------------------------------------------------------
Server ==
  \/ Poll \/ (\E x \in Sockets : Dispatch(x)) \/ Accept
  \/ ReadData \/ (\E x \in Conns : HandlerSends(x)) \/ HandlerReturns \/ HandlerCloses
  \/ ReadNothing \/ ReadFails \/ OnWrite \/ NoWrite

Peer(x) == PeerConnects(x) \/ PeerSends(x) \/ PeerReads(x) \/ PeerCloses(x)

Next == Server \/ \E x \in Conns : Peer(x)

\* main.cpp calls WaitIO for ever, handlers return, and peers read what the
\* kernel holds for them.
Fairness == WF_vars(Server) /\ \A x \in Conns : WF_vars(PeerReads(x))

Spec == Init /\ [][Next]_vars /\ Fairness

-----------------------------------------------------------------------------
(* Properties.                                                             *)

\* Every variable stays in the range of its C++ type as the code uses it.
TypeOK ==
  /\ pc \in {"poll", "batch", "accept", "read", "handle", "write"}
  /\ batch \in [Sockets -> SUBSET Kinds]
  /\ current \in Sockets \cup {None}
  /\ alive \subseteq Conns /\ readable \subseteq Conns /\ backlog \subseteq Conns
  /\ events_ \in [Conns -> SUBSET Kinds]
  /\ interest \in [Conns -> SUBSET Kinds]
  /\ write_buffer_ \in [Conns -> Seq(Nat \ {0})]
  /\ accepted \in [Conns -> Seq(Nat \ {0})]
  /\ unread \in [Conns -> 0..Room]
  /\ sent \in [Conns -> Nat]
  /\ lost \in [Conns -> SUBSET (Nat \ {0})]
  /\ peer \in [Conns -> {"away", "open", "closed"}]
  /\ requests \in [Conns -> Nat]

\* An open connection waits for the kernel to take more exactly when it has
\* something to write, and what it believes it is registered for is what it
\* is registered for: no output is forgotten, and no event is reported for
\* ever with nothing to do (EnableWrite in Send, DisableWrite in OnWrite).
WriteArmedIffPending ==
  \A x \in Conns :
    /\ interest[x] = events_[x]
    /\ "in" \in events_[x] <=> x \in alive
    /\ "out" \in events_[x] <=> x \in alive /\ write_buffer_[x] # << >>

\* The socket being handled and those of the batch that are still to be
\* handled have not been deleted: whatever an earlier handler of the same
\* batch sent or closed, WaitIO calls into no freed Fd.
BatchAlive ==
  \A x \in Conns : batch[x] # {} \/ current = x => x \in alive

\* What a peer gets, with what is still buffered for it, is every message
\* that was not dropped, whole and in the order of the calls of Send: a
\* failed or a partial write never cuts a message short, repeats it or lets
\* a later one overtake it.
Stream(x) == accepted[x] \o write_buffer_[x]

MessagesWhole ==
  \A x \in alive :
    LET kept == (1..sent[x]) \ lost[x]
    IN  /\ Len(Stream(x)) = Units * Cardinality(kept)
        /\ \A i \in 1..Len(Stream(x)) : Stream(x)[i] \in kept
        /\ \A i \in 1..(Len(Stream(x)) - Units) : Stream(x)[i] < Stream(x)[i + Units]
        /\ \A i \in 1..(Len(Stream(x)) - 1) : Stream(x)[i] <= Stream(x)[i + 1]

\* A connection whose peer is there is only ever deleted because its own
\* handler asked for it: not by what is sent to it, nor by a write that finds
\* the kernel full again.
OnlyHandlersClose ==
  [][\A x \in alive \ alive' : peer[x] = "closed" \/ (pc = "handle" /\ current = x)]_vars

\* What is buffered for a connection is sent as long as its peer reads.
BufferedIsSent == \A x \in Conns : write_buffer_[x] # << >> /\ x \in alive
                                     ~> write_buffer_[x] = << >> \/ x \notin alive

\* A connection the peer closed is deleted, however many are ready with it
\* and although WaitIO abandons its batch at every deletion.
ClosedIsDeleted == \A x \in Conns : peer[x] = "closed" ~> x \notin alive \cup backlog
=============================================================================
