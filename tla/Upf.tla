-------------------------------- MODULE Upf --------------------------------
(***************************************************************************)
(* The UPF's control plane (upf.cpp, upf_server.cpp): several threads take *)
(* N4 requests from one socket and update four tables, each behind a mutex *)
(* of its own, so a handler is cut at every critical section.              *)
(***************************************************************************)
EXTENDS Links

CONSTANT UpfThread  \* threads that run handle_s11_traffic()

ASSUME UpfAssumption == UpfThread # {}

VARIABLES
    s11_id,    \* S11 UE identification table: s11_cteid_upf -> imsi
    s1_id,     \* S1 UE identification table: s1_uteid_ul -> imsi
    sgi_id,    \* SGI UE identification table: ue_ip_addr -> imsi
    upf_ctx,   \* UE context table: imsi -> UeContext
    upf_pc,    \* where thread t is
    upf_pkt,   \* the request it handles
    upf_imsi,  \* its local imsi
    upf_old    \* the context its detach handler has read

upfTables == <<s11_id, s1_id, sgi_id, upf_ctx>>
upfVars   == <<upfTables, upf_pc, upf_pkt, upf_imsi, upf_old>>

UpfPc == {"idle", "create_s1", "create_sgi", "create_ctx", "modify", "detach",
          "rem_s11", "rem_s1", "rem_sgi", "rem_ctx"}

\* enb: the address and port of the eNodeB are set.
UpfContext == [known : BOOLEAN, ip : ImsiSet, ul : TeidSet, smf : TeidSet, upf : TeidSet,
               dl : TeidSet, enb : BOOLEAN]

NoUpfCtx == [known |-> FALSE, ip |-> 0, ul |-> 0, smf |-> 0, upf |-> 0, dl |-> 0, enb |-> FALSE]

NoPkt == [op |-> "create", sock |-> <<0, 1>>, teid |-> 0, imsi |-> 0, dl |-> 0]

UpfTypeOK ==
    /\ s11_id \in [TeidSet -> ImsiSet]
    /\ s1_id \in [TeidSet -> ImsiSet]
    /\ sgi_id \in [ImsiSet -> ImsiSet]
    /\ upf_ctx \in [ImsiSet -> UpfContext]
    /\ upf_pc \in [UpfThread -> UpfPc]
    /\ upf_pkt \in [UpfThread -> N4Req]
    /\ upf_imsi \in [UpfThread -> ImsiSet]
    /\ upf_old \in [UpfThread -> UpfContext]

UpfInit ==
    /\ s11_id = [i \in TeidSet |-> 0]
    /\ s1_id = [i \in TeidSet |-> 0]
    /\ sgi_id = [i \in ImsiSet |-> 0]
    /\ upf_ctx = [i \in ImsiSet |-> NoUpfCtx]
    /\ upf_pc = [t \in UpfThread |-> "idle"]
    /\ upf_pkt = [t \in UpfThread |-> NoPkt]
    /\ upf_imsi = [t \in UpfThread |-> 0]
    /\ upf_old = [t \in UpfThread |-> NoUpfCtx]

\* ip_addrs[imsi]: the address set_ip_addrs() provisioned, empty for another IMSI.
ip_addrs(imsi) == imsi

-----------------------------------------------------------------------------
UpfGoto(t, pc) == upf_pc' = [upf_pc EXCEPT ![t] = pc]

\* The handler returns and its locals are gone.
UpfReturn(t) ==
    /\ UpfGoto(t, "idle")
    /\ upf_pkt' = [upf_pkt EXCEPT ![t] = NoPkt]
    /\ upf_imsi' = [upf_imsi EXCEPT ![t] = 0]
    /\ upf_old' = [upf_old EXCEPT ![t] = NoUpfCtx]

\* handle_s11_traffic(): an idle thread receives the request m.
RcvN4(t, m, op) ==
    /\ "upf" \notin exited
    /\ upf_pc[t] = "idle"
    /\ m \in n4req
    /\ m.op = op
    /\ n4req' = n4req \ {m}
    /\ upf_pkt' = [upf_pkt EXCEPT ![t] = m]

At(t, pc) ==
    /\ "upf" \notin exited
    /\ upf_pc[t] = pc

\* Mutant of Respond: the result of the response is never set.
RespondNoResult(t, teid, ip, ul) ==
    LET s == upf_pkt[t].sock
    IN  n4rsp' = IF Open(s)
                 THEN n4rsp \cup {[sock |-> s, teid |-> teid, ip |-> ip, ul |-> ul, res |-> FALSE]}
                 ELSE n4rsp

\* s11_server.snd(): a response to a socket that is closed is lost.
Respond(t, teid, ip, ul) ==
    LET s == upf_pkt[t].sock
    IN  n4rsp' = IF Open(s)
                 THEN n4rsp \cup {[sock |-> s, teid |-> teid, ip |-> ip, ul |-> ul, res |-> TRUE]}
                 ELSE n4rsp

\* handle_create_session(): update_itfid(11), (1) and (0), the context, the response.
CreateS11(t, m) ==
    /\ RcvN4(t, m, "create")
    /\ s11_id' = [s11_id EXCEPT ![m.teid] = m.imsi]
    /\ UpfGoto(t, "create_s1")
    /\ UNCHANGED <<s1_id, sgi_id, upf_ctx, upf_imsi, upf_old, up, down, conn, rpc, calls,
                   n4rsp, exited>>

CreateS1(t) ==
    /\ At(t, "create_s1")
    /\ s1_id' = [s1_id EXCEPT ![upf_pkt[t].teid] = upf_pkt[t].imsi]
    /\ UpfGoto(t, "create_sgi")
    /\ UNCHANGED <<s11_id, sgi_id, upf_ctx, upf_pkt, upf_imsi, upf_old, linkVars>>

CreateSgi(t) ==
    /\ At(t, "create_sgi")
    /\ sgi_id' = [sgi_id EXCEPT ![ip_addrs(upf_pkt[t].imsi)] = upf_pkt[t].imsi]
    /\ UpfGoto(t, "create_ctx")
    /\ UNCHANGED <<s11_id, s1_id, upf_ctx, upf_pkt, upf_imsi, upf_old, linkVars>>

CreateCtx(t) ==
    /\ At(t, "create_ctx")
    /\ LET teid == upf_pkt[t].teid
           imsi == upf_pkt[t].imsi
       IN  /\ upf_ctx' = [upf_ctx EXCEPT ![imsi] =
                            [@ EXCEPT !.known = TRUE, !.ip = ip_addrs(imsi), !.ul = teid,
                                      !.smf = teid, !.upf = teid]]
           /\ Respond(t, teid, ip_addrs(imsi), teid)
    /\ UpfReturn(t)
    /\ UNCHANGED <<s11_id, s1_id, sgi_id, up, down, conn, rpc,
                   calls, n4req, exited>>

\* get_imsi(11, teid) of the other two handlers, which exit when it finds none.
Lookup(t, m, op) ==
    /\ RcvN4(t, m, op)
    /\ upf_imsi' = [upf_imsi EXCEPT ![t] = s11_id[m.teid]]
    /\ IF s11_id[m.teid] = 0
       THEN exited' = exited \cup {"upf"} /\ UNCHANGED upf_pc
       ELSE UpfGoto(t, op) /\ UNCHANGED exited
    /\ UNCHANGED <<upfTables, upf_old, up, down, conn, rpc, calls, n4rsp>>

LookupModify(t, m) == Lookup(t, m, "modify")
LookupDetach(t, m) == Lookup(t, m, "detach")

\* handle_modify_bearer(): the context, made by operator[] if it is missing
\* (then with an uplink tunnel that nobody initialised), and the response.
ModifyCtx(t) ==
    /\ At(t, "modify")
    /\ LET ctx == upf_ctx[upf_imsi[t]] IN
        /\ \E ul \in (IF ctx.known THEN {ctx.ul} ELSE TeidSet) :
            upf_ctx' = [upf_ctx EXCEPT ![upf_imsi[t]] =
                         [@ EXCEPT !.known = TRUE, !.ul = ul, !.dl = upf_pkt[t].dl, !.enb = TRUE]]
    /\ Respond(t, 0, 0, 0)
    /\ UpfReturn(t)
    /\ UNCHANGED <<s11_id, s1_id, sgi_id, up, down, conn, rpc,
                   calls, n4req, exited>>

\* handle_detach(): the context is read and the response sent; only then are
\* the tables cleaned, one critical section after the other.
DetachCtx(t) ==
    /\ At(t, "detach")
    /\ LET ctx == upf_ctx[upf_imsi[t]] IN
        IF ~ ctx.known
        THEN /\ exited' = exited \cup {"upf"}
             /\ UNCHANGED <<upf_pc, upf_old, n4rsp>>
        ELSE /\ upf_old' = [upf_old EXCEPT ![t] = ctx]
             /\ Respond(t, 0, 0, 0)
             /\ UpfGoto(t, "rem_s11")
             /\ UNCHANGED exited
    /\ UNCHANGED <<upfTables, upf_pkt, upf_imsi, up, down, conn, rpc, calls, n4req>>

\* Mutants of RemS11 and RemS1: the entry of the downlink tunnel is removed.
RemS11Dl(t) ==
    /\ At(t, "rem_s11")
    /\ s11_id' = [s11_id EXCEPT ![upf_old[t].dl] = 0]
    /\ UpfGoto(t, "rem_s1")
    /\ UNCHANGED <<s1_id, sgi_id, upf_ctx, upf_pkt, upf_imsi, upf_old, linkVars>>

RemS1Dl(t) ==
    /\ At(t, "rem_s1")
    /\ s1_id' = [s1_id EXCEPT ![upf_old[t].dl] = 0]
    /\ UpfGoto(t, "rem_sgi")
    /\ UNCHANGED <<s11_id, sgi_id, upf_ctx, upf_pkt, upf_imsi, upf_old, linkVars>>

RemS11(t) ==
    /\ At(t, "rem_s11")
    /\ s11_id' = [s11_id EXCEPT ![upf_old[t].upf] = 0]
    /\ UpfGoto(t, "rem_s1")
    /\ UNCHANGED <<s1_id, sgi_id, upf_ctx, upf_pkt, upf_imsi, upf_old, linkVars>>

RemS1(t) ==
    /\ At(t, "rem_s1")
    /\ s1_id' = [s1_id EXCEPT ![upf_old[t].ul] = 0]
    /\ UpfGoto(t, "rem_sgi")
    /\ UNCHANGED <<s11_id, sgi_id, upf_ctx, upf_pkt, upf_imsi, upf_old, linkVars>>

RemSgi(t) ==
    /\ At(t, "rem_sgi")
    /\ sgi_id' = [sgi_id EXCEPT ![upf_old[t].ip] = 0]
    /\ UpfGoto(t, "rem_ctx")
    /\ UNCHANGED <<s11_id, s1_id, upf_ctx, upf_pkt, upf_imsi, upf_old, linkVars>>

RemCtx(t) ==
    /\ At(t, "rem_ctx")
    /\ upf_ctx' = [upf_ctx EXCEPT ![upf_imsi[t]] = NoUpfCtx]
    /\ UpfReturn(t)
    /\ UNCHANGED <<s11_id, s1_id, sgi_id, linkVars>>

N4Thread(t) ==
    \/ \E m \in n4req : CreateS11(t, m) \/ LookupModify(t, m) \/ LookupDetach(t, m)
    \/ CreateS1(t) \/ CreateSgi(t) \/ CreateCtx(t) \/ ModifyCtx(t) \/ DetachCtx(t)
    \/ RemS11(t) \/ RemS1(t) \/ RemSgi(t) \/ RemCtx(t)

-----------------------------------------------------------------------------
(***************************************************************************)
(* The data plane reads the tables and changes nothing.  A packet for the  *)
(* address of a UE goes to the eNodeB with the downlink tunnel of its      *)
(* context, and is dropped while there is no route.                        *)
(***************************************************************************)
\* Mutant of get_downlink_info: a tunnel numbered zero counts as none.
DownlinkInfoNonZero(imsi) == upf_ctx[imsi].known /\ upf_ctx[imsi].enb /\ upf_ctx[imsi].dl # 0

get_downlink_info(imsi) == upf_ctx[imsi].known /\ upf_ctx[imsi].enb

handle_downlink_udata(ip) ==
    IF sgi_id[ip] # 0 /\ get_downlink_info(sgi_id[ip])
    THEN [forwarded |-> TRUE, teid |-> upf_ctx[sgi_id[ip]].dl]
    ELSE [forwarded |-> FALSE, teid |-> 0]
=============================================================================
