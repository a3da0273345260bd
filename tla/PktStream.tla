------------------------------ MODULE PktStream ------------------------------
(***************************************************************************)
(* The framing of S1AP packets on a stream socket (network.cpp,            *)
(* sctp_client.cpp, sctp_server.cpp): a packet is written behind its       *)
(* length, and both read() and write() may transfer less than they were    *)
(* asked for.  One direction of one connection; a byte is what it is a     *)
(* byte of.                                                                *)
(***************************************************************************)
EXTENDS Naturals, Sequences

CONSTANTS
    Packets,    \* the packets that are sent
    size,       \* size[m]: number of bytes of packet m
    MaxSize,    \* the longest packet; BUF_SIZE is 1024 in the code
    IntSize,    \* sizeof(int), 4 in the code
    MaxSend,    \* bound on the packets sent
    MaxEperm    \* bound on the writes that fail with EPERM

ASSUME PktStreamAssumption ==
    /\ Packets # {} /\ Packets \subseteq Nat \ {0}
    /\ MaxSize \in Nat /\ size \in [Packets -> 1 .. MaxSize]
    /\ IntSize \in Nat \ {0}
    /\ {MaxSend, MaxEperm} \subseteq Nat

VARIABLES
    wbuf,       \* what write_stream() has still to write of the frame
    wpkt,       \* the packet in snd(), if any
    chan,       \* bytes in the connection
    fd,         \* "open", or "closed" by the sender
    rpc,        \* what read_sctp_pkt() reads: "len", "body", or "eof" for ever
    rbuf,       \* the bytes read_stream() has read
    need,       \* and the number it was asked for
    rcvd,       \* packets returned by rcv()
    sends, eperms,
    sent,       \* history: the packets given to snd()
    cut,        \* history: 1 when the end of the connection cut the last one
    spoilt      \* history: a packet of which something was written was begun again

streamVars == <<wbuf, wpkt, chan, fd, rpc, rbuf, need, rcvd, sends, eperms, sent, cut,
                spoilt>>
writer == <<wbuf, wpkt, sends, eperms, sent, cut, spoilt>>
reader == <<rpc, rbuf, need, rcvd>>

NoPkt   == <<>>
Garbled == 0    \* a packet made of bytes that are not one packet's

LenBytes(n) == [k \in 1 .. IntSize |-> <<"len", n, k>>]
Bytes(m)    == [k \in 1 .. size[m] |-> <<"data", m, k>>]

\* Packet::prepend_len().
prepend_len(m) == LenBytes(size[m]) \o Bytes(m)

\* The int in the first bytes, and the packet the bytes are: anything if they
\* are not the representation of an int, or of a packet.
Ints(b) == IF \E n \in 1 .. (MaxSize + IntSize) : b = LenBytes(n)
           THEN {n \in 1 .. (MaxSize + IntSize) : b = LenBytes(n)}
           ELSE 1 .. (MaxSize + IntSize)
PacketOf(b) == IF \E m \in Packets : b = Bytes(m)
               THEN CHOOSE m \in Packets : b = Bytes(m)
               ELSE Garbled

StreamInit ==
    /\ wbuf = <<>> /\ wpkt = NoPkt
    /\ chan = <<>> /\ fd = "open"
    /\ rpc = "len" /\ rbuf = <<>> /\ need = IntSize
    /\ rcvd = <<>>
    /\ sends = 0 /\ eperms = 0
    /\ sent = <<>> /\ cut = 0 /\ spoilt = FALSE

-----------------------------------------------------------------------------
\* snd(): write_sctp_pkt() of a copy of the packet.
snd(m) ==
    /\ fd = "open"
    /\ wpkt = NoPkt
    /\ sends < MaxSend
    /\ sends' = sends + 1
    /\ wpkt' = <<m>>
    /\ wbuf' = prepend_len(m)
    /\ sent' = Append(sent, m)
    /\ UNCHANGED <<chan, fd, reader, eperms, cut, spoilt>>

\* One round of write_stream().
write_stream ==
    /\ wbuf # <<>>
    /\ \E k \in 1 .. Len(wbuf) :
        /\ chan' = chan \o SubSeq(wbuf, 1, k)
        /\ wbuf' = SubSeq(wbuf, k + 1, Len(wbuf))
    /\ UNCHANGED <<wpkt, fd, reader, sends, eperms, sent, cut, spoilt>>

\* The packet is written and errno is not EPERM: snd() returns.
SndReturns ==
    /\ wpkt # NoPkt /\ wbuf = <<>>
    /\ wpkt' = NoPkt
    /\ UNCHANGED <<wbuf, chan, fd, reader, sends, eperms, sent, cut, spoilt>>

\* errno is EPERM after write_sctp_pkt(), because a write() failed or from an
\* earlier call: snd() starts again with the whole packet, whatever part of it
\* the peer has already been sent.
RetryEperm ==
    /\ wpkt # NoPkt
    /\ eperms < MaxEperm
    /\ eperms' = eperms + 1
    /\ wbuf' = prepend_len(wpkt[1])
    /\ spoilt' = (spoilt \/ wbuf # prepend_len(wpkt[1]))
    /\ UNCHANGED <<wpkt, chan, fd, reader, sends, sent, cut>>

\* The sender closes the socket or its process ends, in a frame or between
\* two; what it wrote still arrives.
CloseFd ==
    /\ fd = "open"
    /\ fd' = "closed"
    /\ wbuf' = <<>> /\ wpkt' = NoPkt
    /\ cut' = IF wbuf = <<>> THEN 0 ELSE 1
    /\ UNCHANGED <<chan, reader, sends, eperms, sent, spoilt>>

\* Mutant of read_stream: a read that returns something is taken for all.
ReadOnce ==
    /\ rpc # "eof"
    /\ chan # <<>>
    /\ \E k \in 1 .. Len(chan) :
        LET b == rbuf \o SubSeq(chan, 1, k) IN
        /\ Len(b) <= need
        /\ chan' = SubSeq(chan, k + 1, Len(chan))
        /\ \/ rpc = "len" /\ rpc' = "body" /\ need' \in Ints(b) /\ UNCHANGED rcvd
           \/ rpc = "body" /\ rpc' = "len" /\ need' = IntSize
              /\ rcvd' = Append(rcvd, PacketOf(b))
        /\ rbuf' = <<>>
    /\ UNCHANGED <<fd, writer>>

\* One round of read_stream(): at most what remains; the round that completes
\* the length goes on to the body, the one that completes the body returns.
read_stream ==
    /\ rpc # "eof"
    /\ chan # <<>>
    /\ \E k \in 1 .. Len(chan) :
        LET b == rbuf \o SubSeq(chan, 1, k) IN
        /\ chan' = SubSeq(chan, k + 1, Len(chan))
        /\ \/ /\ Len(b) < need
              /\ rbuf' = b
              /\ UNCHANGED <<rpc, need, rcvd>>
           \/ /\ Len(b) = need /\ rpc = "len"
              /\ rpc' = "body" /\ need' \in Ints(b) /\ rbuf' = <<>>
              /\ UNCHANGED rcvd
           \/ /\ Len(b) = need /\ rpc = "body"
              /\ rpc' = "len" /\ need' = IntSize /\ rbuf' = <<>>
              /\ rcvd' = Append(rcvd, PacketOf(b))
    /\ UNCHANGED <<fd, writer>>

\* read() returns 0: rcv() returns no packet and the connection is closed.
ReadEof ==
    /\ rpc # "eof"
    /\ fd = "closed" /\ chan = <<>>
    /\ rpc' = "eof"
    /\ UNCHANGED <<rbuf, need, rcvd, chan, fd, writer>>

StreamNext ==
    \/ \E m \in Packets : snd(m)
    \/ write_stream \/ SndReturns \/ RetryEperm \/ CloseFd \/ read_stream \/ ReadEof

\* A write() to a peer that reads, and a read() with bytes to read, return.
StreamFair ==
    WF_streamVars(write_stream) /\ WF_streamVars(read_stream) /\ WF_streamVars(ReadEof)

StreamSpec == StreamInit /\ [][StreamNext]_streamVars /\ StreamFair

-----------------------------------------------------------------------------
\* What rcv() has still to return: all that snd() was given and rcv() has not
\* returned, but for a packet that the end of the connection has cut.
Undelivered == SubSeq(sent, Len(rcvd) + 1, Len(sent) - cut)

Channel == INSTANCE MsgChannel WITH inflight <- Undelivered, open <- (fd = "open")

\* Packets arrive whole, once, in order, and do arrive, as long as no packet is
\* begun again in its middle: the stream with its partial reads and writes
\* implements a channel of packets that an errno of EPERM may spoil.
ImplementsChannel == Channel!ChannelSpec

\* Its safety part: every step of the stream is a step of the channel or none.
KeepsChannel == Channel!ChannelInit /\ [][Channel!ChannelNext]_(Channel!channelVars)
=============================================================================
