------------------------------ MODULE ByteFifo ------------------------------
(***************************************************************************)
(* What an IoBuffer promises: bytes leave in the order in which they came, *)
(* each once, whatever the sizes in which they come and go.                *)
(***************************************************************************)
EXTENDS Naturals, Sequences

CONSTANT Bytes

VARIABLES
  queue,     \* bytes held
  taken      \* what the last read returned

FifoInit == queue = << >> /\ taken = << >>

\* More bytes behind those held.
Put ==
  /\ Len(queue) <= Len(queue')
  /\ \A i \in 1..Len(queue) : queue'[i] = queue[i]
  /\ \A i \in 1..Len(queue') : queue'[i] \in Bytes
  /\ taken' = << >>

\* The first bytes held, as many as one likes.
Take ==
  \E n \in 0..Len(queue) :
    /\ taken' = SubSeq(queue, 1, n)
    /\ queue' = SubSeq(queue, n + 1, Len(queue))

FifoSpec == FifoInit /\ [][Put \/ Take]_<<queue, taken>>
=============================================================================
