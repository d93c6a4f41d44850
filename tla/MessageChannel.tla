--------------------------- MODULE MessageChannel ---------------------------
(***************************************************************************)
(* What a connection promises its two ends: the messages sent come out one *)
(* by one, in the order they were sent, none twice and none made up, until *)
(* the connection breaks.  A broken connection delivers nothing more.      *)
(***************************************************************************)
EXTENDS Naturals, Sequences

CONSTANT Messages

VARIABLES
  queue,    \* sent and not delivered
  last,     \* what was delivered last: <<>> or the message
  broken

channelVars == <<queue, last, broken>>

ChannelInit == queue = <<>> /\ last = <<>> /\ broken = FALSE

Send(m) == queue' = Append(queue, m) /\ UNCHANGED <<last, broken>>

Deliver ==
  /\ ~broken
  /\ queue # <<>>
  /\ last' = <<Head(queue)>>
  /\ queue' = Tail(queue)
  /\ UNCHANGED broken

Break == broken' = TRUE /\ UNCHANGED <<queue, last>>

ChannelNext == (\E m \in Messages : Send(m)) \/ Deliver \/ Break

ChannelSpec == ChannelInit /\ [][ChannelNext]_channelVars
==============================================================================
