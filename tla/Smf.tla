-------------------------------- MODULE Smf --------------------------------
(***************************************************************************)
(* The SMF (smf.cpp, smf_server.cpp): every call of an AMF worker runs a   *)
(* handler on a gRPC thread of its own, which sends one N4 request from a  *)
(* new UDP socket and waits at most five seconds for the response.         *)
(***************************************************************************)
EXTENDS Links

VARIABLE smf_ctx  \* UE context table of the SMF: guti -> UeContext

smfVars == <<smf_ctx>>

SmfContext == [known : BOOLEAN, imsi : ImsiSet, mme : TeidSet, sgw : TeidSet,
               ul : TeidSet, dl : TeidSet, ip : ImsiSet]

NoSmfCtx == [known |-> FALSE, imsi |-> 0, mme |-> 0, sgw |-> 0, ul |-> 0, dl |-> 0, ip |-> 0]

SmfTypeOK == smf_ctx \in [GutiSet -> SmfContext]

SmfInit == smf_ctx = [g \in GutiSet |-> NoSmfCtx]

\* AmfSmfInteraction(): the call of worker w reaches its handler, which gets a socket.
Accept(w, op) ==
    /\ "smf" \notin exited
    /\ rpc[w].st = "req"
    /\ rpc[w].op = op
    /\ calls[w] < MaxCalls
    /\ calls' = [calls EXCEPT ![w] = @ + 1]

\* Every handler leaves with handle_type1_error on a zero guti; otherwise it
\* stores ctx for the guti, sends one N4 request and waits.
Request(w, op, ctx, teid, imsi, dl) ==
    IF rpc[w].guti = 0
    THEN /\ exited' = exited \cup {"smf"}
         /\ UNCHANGED <<n4req, rpc, smf_ctx>>
    ELSE /\ smf_ctx' = [smf_ctx EXCEPT ![rpc[w].guti] = [ctx EXCEPT !.known = TRUE]]
         /\ n4req' = n4req \cup {[op |-> op, sock |-> <<w, calls[w] + 1>>, teid |-> teid,
                                  imsi |-> imsi, dl |-> dl]}
         /\ rpc' = [rpc EXCEPT ![w].st = "busy"]
         /\ UNCHANGED exited

SmfCreateSession(w) ==
    /\ Accept(w, "create")
    /\ LET req == rpc[w]
           ctx == smf_ctx[req.guti]
       IN  Request(w, "create", [ctx EXCEPT !.imsi = req.imsi, !.mme = req.teid],
                   req.teid, req.imsi, 0)
    /\ UNCHANGED <<up, down, conn, n4rsp>>

\* The downlink tunnel of the request is overwritten by the one in the context.
SmfModifyBearer(w) ==
    /\ Accept(w, "modify")
    /\ LET ctx == smf_ctx[rpc[w].guti] IN Request(w, "modify", ctx, ctx.sgw, 0, ctx.dl)
    /\ UNCHANGED <<up, down, conn, n4rsp>>

\* Mutant of SmfDetach: the request is addressed to the downlink tunnel.
SmfDetachDl(w) ==
    /\ Accept(w, "detach")
    /\ LET ctx == smf_ctx[rpc[w].guti] IN Request(w, "detach", ctx, ctx.dl, 0, 0)
    /\ UNCHANGED <<up, down, conn, n4rsp>>

SmfDetach(w) ==
    /\ Accept(w, "detach")
    /\ LET ctx == smf_ctx[rpc[w].guti] IN Request(w, "detach", ctx, ctx.sgw, 0, 0)
    /\ UNCHANGED <<up, down, conn, n4rsp>>

-----------------------------------------------------------------------------
\* The rest of the create handler, with the packet pkt that rcv() left: the
\* session is reported as created whatever pkt is.
CreateReply(w, pkt) ==
    /\ smf_ctx' = [smf_ctx EXCEPT ![rpc[w].guti] =
                    [@ EXCEPT !.known = TRUE, !.ip = pkt.ip, !.sgw = pkt.teid, !.ul = pkt.ul]]
    /\ rpc' = [rpc EXCEPT ![w] = [@ EXCEPT !.st = "rep", !.teid = pkt.teid, !.ul = pkt.ul,
                                           !.ip = pkt.ip, !.res = TRUE]]

\* The rest of the other two handlers, which pass the result on.  The detach
\* handler removes no context.
ResultReply(w, pkt) ==
    /\ rpc' = [rpc EXCEPT ![w] = [@ EXCEPT !.st = "rep", !.res = pkt.res]]
    /\ UNCHANGED smf_ctx

Finish(w, pkt) ==
    IF rpc[w].op = "create" THEN CreateReply(w, pkt) ELSE ResultReply(w, pkt)

SmfRcv(w) ==
    /\ "smf" \notin exited
    /\ Open(SockOf(w))
    /\ \E r \in n4rsp :
        /\ r.sock = SockOf(w)
        /\ Finish(w, r)
        /\ n4rsp' = n4rsp \ {r}
    /\ UNCHANGED <<up, down, conn, calls, n4req, exited>>

\* recvfrom() times out: UdpClient::rcv leaves the cleared packet, all zeros.
SmfTimeout(w) ==
    /\ "smf" \notin exited
    /\ Open(SockOf(w))
    /\ \A r \in n4rsp : r.sock # SockOf(w)
    /\ Finish(w, [sock |-> SockOf(w), teid |-> 0, ip |-> 0, ul |-> 0, res |-> FALSE])
    /\ UNCHANGED <<up, down, conn, calls, n4req, n4rsp, exited>>

SmfHandler(w) == SmfCreateSession(w) \/ SmfModifyBearer(w) \/ SmfDetach(w) \/ SmfRcv(w)
=============================================================================
