-------------------------------- MODULE Amf --------------------------------
(***************************************************************************)
(* The AMF (amf.cpp, amf_server.cpp).  Each worker runs handle_ue() on one *)
(* packet at a time; a handler is cut where another thread can see the     *)
(* difference: at its critical sections, at the remote calls it waits for, *)
(* and at the packets it sends.                                            *)
(***************************************************************************)
EXTENDS SctpServer

CONSTANT MaxRpcFail  \* bound on the remote calls that fail

ASSUME AmfAssumption == MaxRpcFail \in Nat

VARIABLES
    ue_count,    \* UE identifiers handed out
    s1amf_id,    \* S1_AMF UE identification table: identifier -> guti
    ue_ctx,      \* UE context table: guti -> UeContext
    amf_pc,      \* where worker w is in handle_ue()
    amf_conn,    \* the connection it serves
    amf_id,      \* the UE identifier of the packet it handles
    amf_guti,    \* its local guti
    amf_imsi,    \* the IMSI of the attach request it handles
    rpc_fails    \* remote calls that have failed

amfTables == <<ue_count, s1amf_id, ue_ctx>>
amfLocals == <<amf_conn, amf_id, amf_guti, amf_imsi>>
amfVars   == <<amfTables, amf_pc, amfLocals, rpc_fails>>

AmfPc == {"idle", "attach_init", "attach_autn", "location", "create", "bearer", "modify", "detach",
          "rem_itfid", "rem_uectx"}

UeContext == [known : BOOLEAN, imsi : ImsiSet, mme_id : MmeId, upf : TeidSet,
              ul : TeidSet, dl : TeidSet, emm_state : {0, 1}, ecm_state : {0, 1}]

\* "known" is membership in the table; the other fields are UeContext::UeContext.
NoUeCtx == [known |-> FALSE, imsi |-> 0, mme_id |-> 0, upf |-> 0, ul |-> 0, dl |-> 0,
            emm_state |-> 0, ecm_state |-> 0]

\* operator[] of the table: a missing context is default-constructed.
Touch(ctx) == [ctx EXCEPT !.known = TRUE]

\* Value of amf_conn while the worker handles no packet.
NoConn == CHOOSE c \in Conn : TRUE

AmfTypeOK ==
    /\ ue_count \in MmeId
    /\ s1amf_id \in [MmeId -> GutiSet]
    /\ ue_ctx \in [GutiSet -> UeContext]
    /\ amf_pc \in [Worker -> AmfPc]
    /\ amf_conn \in [Worker -> Conn]
    /\ amf_id \in [Worker -> MmeId]
    /\ amf_guti \in [Worker -> GutiSet]
    /\ amf_imsi \in [Worker -> ImsiSet]
    /\ rpc_fails \in 0 .. MaxRpcFail

AmfInit ==
    /\ ue_count = 0
    /\ s1amf_id = [i \in MmeId |-> 0]
    /\ ue_ctx = [g \in GutiSet |-> NoUeCtx]
    /\ amf_pc = [w \in Worker |-> "idle"]
    /\ amf_conn = [w \in Worker |-> NoConn]
    /\ amf_id = [w \in Worker |-> 0]
    /\ amf_guti = [w \in Worker |-> 0]
    /\ amf_imsi = [w \in Worker |-> 0]
    /\ rpc_fails = 0

-----------------------------------------------------------------------------
Goto(w, pc) == amf_pc' = [amf_pc EXCEPT ![w] = pc]

\* Worker w makes a remote call and waits for its return at pc.
Await(w, pc, call) ==
    /\ Goto(w, pc)
    /\ rpc' = [rpc EXCEPT ![w] = call]

\* The remote call that worker w waits for at pc has returned.
Returned(w, pc) ==
    /\ "amf" \notin exited
    /\ amf_pc[w] = pc
    /\ rpc[w].st = "rep"

\* handle_ue(): an idle worker takes a packet of the given type, which is for
\* a UE that has an identifier unless it is an attach request.
Serve(w, c, type) ==
    /\ "amf" \notin exited
    /\ amf_pc[w] = "idle"
    /\ ServerRcv(w, c)
    /\ Head(up[c]).type = type
    /\ (Head(up[c]).id = 0) <=> (type = 1)

\* The locals of the handler for a packet of connection c.
Locals(w, c, id, guti, imsi) ==
    /\ amf_conn' = [amf_conn EXCEPT ![w] = c]
    /\ amf_id' = [amf_id EXCEPT ![w] = id]
    /\ amf_guti' = [amf_guti EXCEPT ![w] = guti]
    /\ amf_imsi' = [amf_imsi EXCEPT ![w] = imsi]

\* The handler returns: its locals and the call it made are gone.
Return(w) ==
    /\ Goto(w, "idle")
    /\ rpc' = [rpc EXCEPT ![w] = NoCall]
    /\ Locals(w, NoConn, 0, 0, 0)

\* handle_type1_error(-1, "Zero guti: ..."): the identifier of the packet is
\* in no table.  The process ends, the worker with it.
ZeroGuti ==
    /\ exited' = exited \cup {"amf"}
    /\ UNCHANGED <<amf_pc, amfLocals, ue_ctx, rpc, down>>

-----------------------------------------------------------------------------
\* handle_initial_attach(): a new identifier for the UE, in one critical section.
handle_initial_attach(w, c) ==
    /\ Serve(w, c, 1)
    /\ ue_count < MaxUeCount
    /\ LET id   == ue_count + 1
           imsi == Head(up[c]).imsi
           guti == get_guti(GUMMEI, imsi)
       IN  /\ ue_count' = id
           /\ s1amf_id' = [s1amf_id EXCEPT ![id] = guti]
           /\ Locals(w, c, id, guti, imsi)
    /\ Goto(w, "attach_init")
    /\ UNCHANGED <<ue_ctx, rpc_fails, turn, owner, down, conn, rpc, calls, n4req, n4rsp, exited>>

\* The context of the guti, then the authentication request to the AUSF.
\* init() leaves the tunnels and states of an older context as they are.
AttachInit(w) ==
    /\ "amf" \notin exited
    /\ amf_pc[w] = "attach_init"
    /\ ue_ctx' = [ue_ctx EXCEPT ![amf_guti[w]] =
                    [Touch(@) EXCEPT !.imsi = amf_imsi[w], !.mme_id = amf_id[w]]]
    /\ Await(w, "attach_autn", Call("autn", 0, amf_imsi[w], 0))
    /\ UNCHANGED <<ue_count, s1amf_id, amfLocals, rpc_fails, turn, owner, up, down, conn,
                   calls, n4req, n4rsp, exited>>

\* The authentication vector is stored and the challenge sent.
AttachChallenge(w) ==
    /\ Returned(w, "attach_autn")
    /\ ue_ctx' = [ue_ctx EXCEPT ![amf_guti[w]] = Touch(@)]
    /\ ServerSnd(amf_conn[w], S1ap(1, amf_id[w]))
    /\ Return(w)
    /\ UNCHANGED <<ue_count, s1amf_id, rpc_fails, turn, owner, up, conn,
                   calls, n4req, n4rsp, exited>>

\* handle_autn(), which always succeeds, and handle_security_mode_cmd().
handle_autn(w, c) ==
    /\ Serve(w, c, 2)
    /\ LET id   == Head(up[c]).id
           guti == s1amf_id[id]
       IN  IF guti = 0
           THEN ZeroGuti
           ELSE /\ ue_ctx' = [ue_ctx EXCEPT ![guti] = Touch(@)]
                /\ ServerSnd(c, S1ap(2, id))
                /\ UNCHANGED <<amf_pc, amfLocals, rpc, exited>>
    /\ UNCHANGED <<ue_count, s1amf_id, rpc_fails, turn, owner, conn, calls, n4req, n4rsp>>

\* handle_security_mode_complete(), then handle_location_update() up to its call.
handle_security_mode_complete(w, c) ==
    /\ Serve(w, c, 3)
    /\ LET id   == Head(up[c]).id
           guti == s1amf_id[id]
       IN  IF guti = 0
           THEN ZeroGuti
           ELSE /\ ue_ctx' = [ue_ctx EXCEPT ![guti] = Touch(@)]
                /\ Locals(w, c, id, guti, 0)
                /\ Await(w, "location", Call("loc", 0, ue_ctx[guti].imsi, 0))
                /\ UNCHANGED <<down, exited>>
    /\ UNCHANGED <<ue_count, s1amf_id, rpc_fails, turn, owner, conn, calls, n4req, n4rsp>>

\* The end of handle_location_update(), then handle_create_session() up to its call.
handle_create_session(w) ==
    /\ Returned(w, "location")
    /\ LET guti == s1amf_id[amf_id[w]]
       IN  IF guti = 0
           THEN ZeroGuti
           ELSE /\ ue_ctx' = [ue_ctx EXCEPT ![guti] = Touch(@)]
                /\ amf_guti' = [amf_guti EXCEPT ![w] = guti]
                /\ Await(w, "create",
                         Call("create", guti, ue_ctx[guti].imsi, get_s11cteidamf(guti)))
                /\ UNCHANGED <<down, exited>>
    /\ UNCHANGED <<ue_count, s1amf_id, amf_conn, amf_id, amf_imsi, rpc_fails, turn, owner, up, conn,
                   calls, n4req, n4rsp>>

\* The session of the reply is stored and the attach accept sent, with
\* res = true whatever the reply says.
SessionAccept(w) ==
    /\ Returned(w, "create")
    /\ LET r == rpc[w] IN
        /\ ue_ctx' = [ue_ctx EXCEPT ![r.guti] = [Touch(@) EXCEPT !.upf = r.teid, !.ul = r.ul]]
        /\ ServerSnd(amf_conn[w], [S1ap(3, amf_id[w]) EXCEPT !.guti = r.guti, !.teid = r.ul,
                                                            !.ip = r.ip])
    /\ Return(w)
    /\ UNCHANGED <<ue_count, s1amf_id, rpc_fails, turn, owner, up, conn,
                   calls, n4req, n4rsp, exited>>

\* handle_attach_complete(): the downlink tunnel is stored, nothing is sent.
handle_attach_complete(w, c) ==
    /\ Serve(w, c, 4)
    /\ LET m    == Head(up[c])
           guti == s1amf_id[m.id]
       IN  IF guti = 0
           THEN ZeroGuti
           ELSE /\ ue_ctx' = [ue_ctx EXCEPT ![guti] =
                                [Touch(@) EXCEPT !.dl = m.teid, !.emm_state = 1]]
                /\ Locals(w, c, m.id, guti, 0)
                /\ Goto(w, "bearer")
                /\ UNCHANGED <<rpc, down, exited>>
    /\ UNCHANGED <<ue_count, s1amf_id, rpc_fails, turn, owner, conn, calls, n4req, n4rsp>>

\* handle_modify_bearer() up to its call: it looks the UE up again.
handle_modify_bearer(w) ==
    /\ "amf" \notin exited
    /\ amf_pc[w] = "bearer"
    /\ LET guti == s1amf_id[amf_id[w]]
       IN  IF guti = 0
           THEN ZeroGuti
           ELSE /\ ue_ctx' = [ue_ctx EXCEPT ![guti] = Touch(@)]
                /\ amf_guti' = [amf_guti EXCEPT ![w] = guti]
                /\ Await(w, "modify", Call("modify", guti, 0, ue_ctx[guti].dl))
                /\ UNCHANGED <<down, exited>>
    /\ UNCHANGED <<ue_count, s1amf_id, amf_conn, amf_id, amf_imsi, rpc_fails, turn, owner, up, conn,
                   calls, n4req, n4rsp>>

\* The UE becomes connected if the bearer was modified; nothing is sent.
BearerModified(w) ==
    /\ Returned(w, "modify")
    /\ ue_ctx' = IF rpc[w].res
                 THEN [ue_ctx EXCEPT ![amf_guti[w]] = [Touch(@) EXCEPT !.ecm_state = 1]]
                 ELSE ue_ctx
    /\ Return(w)
    /\ UNCHANGED <<ue_count, s1amf_id, rpc_fails, turn, owner, up, down, conn,
                   calls, n4req, n4rsp, exited>>

\* handle_detach() up to its call; the guti is the one the packet carries.
handle_detach(w, c) ==
    /\ Serve(w, c, 5)
    /\ LET m    == Head(up[c])
           guti == s1amf_id[m.id]
       IN  IF guti = 0
           THEN ZeroGuti
           ELSE /\ ue_ctx' = [ue_ctx EXCEPT ![guti] = Touch(@)]
                /\ Locals(w, c, m.id, m.guti, 0)
                /\ Await(w, "detach", Call("detach", m.guti, 0, 0))
                /\ UNCHANGED <<down, exited>>
    /\ UNCHANGED <<ue_count, s1amf_id, rpc_fails, turn, owner, conn, calls, n4req, n4rsp>>

\* A failed detach returns without an answer to the RAN.
DetachFailed(w) ==
    /\ Returned(w, "detach")
    /\ ~ rpc[w].res
    /\ Return(w)
    /\ UNCHANGED <<amfTables, rpc_fails, turn, owner, up, down, conn,
                   calls, n4req, n4rsp, exited>>

\* Mutant of DetachAnswer: only the context is removed afterwards.
DetachAnswerKeepId(w) ==
    /\ Returned(w, "detach")
    /\ rpc[w].res
    /\ ServerSnd(amf_conn[w], S1ap(5, amf_id[w]))
    /\ Await(w, "rem_uectx", NoCall)
    /\ UNCHANGED <<amfTables, amfLocals, rpc_fails, turn, owner, up, conn,
                   calls, n4req, n4rsp, exited>>

\* The answer is sent first, then the two tables are cleaned one by one.
DetachAnswer(w) ==
    /\ Returned(w, "detach")
    /\ rpc[w].res
    /\ ServerSnd(amf_conn[w], S1ap(5, amf_id[w]))
    /\ Await(w, "rem_itfid", NoCall)
    /\ UNCHANGED <<amfTables, amfLocals, rpc_fails, turn, owner, up, conn,
                   calls, n4req, n4rsp, exited>>

\* Mutant of rem_itfid: the latest identifier is erased, not the handler's own.
RemLatestId(w) ==
    /\ "amf" \notin exited
    /\ amf_pc[w] = "rem_itfid"
    /\ s1amf_id' = [s1amf_id EXCEPT ![ue_count] = 0]
    /\ Goto(w, "rem_uectx")
    /\ UNCHANGED <<ue_count, ue_ctx, amfLocals, rpc_fails, turn, owner, linkVars>>

rem_itfid(w) ==
    /\ "amf" \notin exited
    /\ amf_pc[w] = "rem_itfid"
    /\ s1amf_id' = [s1amf_id EXCEPT ![amf_id[w]] = 0]
    /\ Goto(w, "rem_uectx")
    /\ UNCHANGED <<ue_count, ue_ctx, amfLocals, rpc_fails, turn, owner, linkVars>>

rem_uectx(w) ==
    /\ "amf" \notin exited
    /\ amf_pc[w] = "rem_uectx"
    /\ ue_ctx' = [ue_ctx EXCEPT ![amf_guti[w]] = NoUeCtx]
    /\ Return(w)
    /\ UNCHANGED <<ue_count, s1amf_id, rpc_fails, turn, owner, up, down, conn, calls,
                   n4req, n4rsp, exited>>

\* handle_ue() on a connection the RAN closed: the UE's entries stay.
ConnClosed(w, c) ==
    /\ "amf" \notin exited
    /\ amf_pc[w] = "idle"
    /\ CloseConn(w, c)
    /\ UNCHANGED <<amfVars, turn, down, conn, rpc, calls, n4req, n4rsp, exited>>

\* The call cannot reach its server.  GreeterClient returns the packet as it
\* was: the fields only a reply fills in were never initialised.
RpcFail(w) ==
    /\ "amf" \notin exited
    /\ rpc[w].st = "req"
    /\ rpc_fails < MaxRpcFail
    /\ rpc_fails' = rpc_fails + 1
    /\ \E upf, ul \in TeidSet, res \in BOOLEAN :
        rpc' = [rpc EXCEPT ![w] = [@ EXCEPT !.st = "rep", !.teid = upf, !.ul = ul, !.res = res]]
    /\ UNCHANGED <<amfTables, amf_pc, amfLocals, turn, owner, up, down, conn,
                   calls, n4req, n4rsp, exited>>

AmfWorker(w) ==
    \/ \E c \in Conn :
        \/ handle_initial_attach(w, c) \/ handle_autn(w, c)
        \/ handle_security_mode_complete(w, c) \/ handle_attach_complete(w, c)
        \/ handle_detach(w, c) \/ ConnClosed(w, c)
    \/ AttachInit(w) \/ AttachChallenge(w) \/ handle_create_session(w) \/ SessionAccept(w)
    \/ handle_modify_bearer(w) \/ BearerModified(w) \/ DetachFailed(w) \/ DetachAnswer(w)
    \/ rem_itfid(w) \/ rem_uectx(w)
=============================================================================
