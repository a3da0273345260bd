----------------------------- MODULE MsgChannel -----------------------------
(***************************************************************************)
(* What the S1AP transport promises the RAN and the AMF: the packets of a  *)
(* connection arrive whole, once and in order, until the connection ends;  *)
(* what is lost then is the end of what was sent.  The promise ends where  *)
(* a packet is begun again after a part of it went out.                    *)
(***************************************************************************)
EXTENDS Sequences, Naturals

CONSTANTS Packets   \* what snd() can be given

VARIABLES
    inflight,       \* packets accepted by snd() and not yet returned by rcv()
    rcvd,           \* packets returned by rcv()
    open,
    spoilt          \* a packet was begun again in its middle

channelVars == <<inflight, rcvd, open, spoilt>>

ChannelInit == inflight = <<>> /\ rcvd = <<>> /\ open = TRUE /\ spoilt = FALSE

Send ==
    /\ open
    /\ \E m \in Packets : inflight' = Append(inflight, m)
    /\ UNCHANGED <<rcvd, open, spoilt>>

Deliver ==
    /\ inflight # <<>>
    /\ rcvd' = Append(rcvd, Head(inflight))
    /\ inflight' = Tail(inflight)
    /\ UNCHANGED <<open, spoilt>>

\* The connection ends; of the packets on their way the first k still arrive.
Cut ==
    /\ open
    /\ open' = FALSE
    /\ \E k \in 0 .. Len(inflight) : inflight' = SubSeq(inflight, 1, k)
    /\ UNCHANGED <<rcvd, spoilt>>

Spoil ==
    /\ ~ spoilt /\ spoilt' = TRUE
    /\ UNCHANGED <<inflight, rcvd, open>>

\* From then on anything may be returned, one packet at a time.
Unreliable ==
    /\ spoilt /\ spoilt'
    /\ open' => open
    /\ Len(rcvd') \in {Len(rcvd), Len(rcvd) + 1} /\ SubSeq(rcvd', 1, Len(rcvd)) = rcvd

ChannelNext == Send \/ Deliver \/ Cut \/ Spoil \/ Unreliable

\* What is in a channel that is not spoilt is delivered.
ChannelSpec ==
    /\ ChannelInit /\ [][ChannelNext]_channelVars
    /\ WF_channelVars(~ spoilt /\ Deliver)
=============================================================================
