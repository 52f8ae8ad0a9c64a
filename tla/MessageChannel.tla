---------------------------- MODULE MessageChannel ----------------------------
(* What a RTMP chunk stream promises: every message sent is delivered once, *)
(* complete, and in the order of sending, whatever chunks carry it.         *)
EXTENDS Naturals, Sequences

VARIABLES sent, delivered

ChannelInit == sent = << >> /\ delivered = << >>

SendMessage ==
  /\ Len(sent') = Len(sent) + 1
  /\ \A i \in 1..Len(sent) : sent'[i] = sent[i]
  /\ UNCHANGED delivered

DeliverMessage ==
  /\ Len(delivered) < Len(sent)
  /\ delivered' = Append(delivered, sent[Len(delivered) + 1])
  /\ UNCHANGED sent

ChannelSpec == ChannelInit /\ [][SendMessage \/ DeliverMessage]_<<sent, delivered>>
=============================================================================
