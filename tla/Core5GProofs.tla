---------------------------- MODULE Core5GProofs ----------------------------
(***************************************************************************)
(* Proofs about Core5G, for every number of UEs, runs, workers and         *)
(* threads, and every number of faults.                                    *)
(***************************************************************************)
EXTENDS Core5G, TLAPS

(***************************************************************************)
(* Types.                                                                  *)
(***************************************************************************)

\* The identifiers of the UE of a connection are in the sets of identifiers.
LEMMA IdentityTypes ==
    /\ \A c \in Conn : UeOf(c) \in RanNum
    /\ \A n \in RanNum : Imsi(n) \in ImsiSet /\ Guti(n) \in GutiSet /\ Teid(n) \in TeidSet
    /\ 0 \in ImsiSet /\ 0 \in GutiSet /\ 0 \in TeidSet /\ 0 \in MmeId
    /\ NoConn \in Conn
    /\ 0 \in Worker
    /\ \A g \in GutiSet : g # 0 => get_s11cteidamf(g) \in TeidSet
PROOF
  <1>1. \A c \in Conn : UeOf(c) \in RanNum
    BY DEF Conn, UeOf
  <1>2. \A n \in RanNum : Imsi(n) \in ImsiSet /\ Guti(n) \in GutiSet /\ Teid(n) \in TeidSet
    BY DEF ImsiSet, GutiSet, TeidSet
  <1>3. 0 \in ImsiSet /\ 0 \in GutiSet /\ 0 \in TeidSet
    BY DEF ImsiSet, GutiSet, TeidSet
  <1>4. 0 \in MmeId /\ 0 \in Worker
    BY LinksAssumption DEF MmeId, Worker
  <1>5. NoConn \in Conn
    <2>1. PICK n \in RanNum : TRUE
      BY LinksAssumption
    <2>2. <<n, 1>> \in Conn
      BY LinksAssumption DEF Conn
    <2> QED BY <2>2 DEF NoConn
  <1>6. \A g \in GutiSet : g # 0 => get_s11cteidamf(g) \in TeidSet
    BY DEF GutiSet, TeidSet, Teid
  <1> QED BY <1>1, <1>2, <1>3, <1>4, <1>5, <1>6

LEMMA InitTypeOK == Init => TypeOK
PROOF
  <1> SUFFICES ASSUME Init PROVE TypeOK
    OBVIOUS
  <1> USE IdentityTypes DEF Init
  <1>1. LinksTypeOK
    BY LinksAssumption DEF LinksInit, LinksTypeOK, RpcSlot, NoCall
  <1>2. RanTypeOK
    BY LinksAssumption, RanAssumption DEF RanInit, RanTypeOK, RanPc, RanCtx
  <1>3. SctpTypeOK
    BY DEF SctpInit, SctpTypeOK
  <1>4. AmfTypeOK
    BY AmfAssumption DEF AmfInit, AmfTypeOK, AmfPc, UeContext, NoUeCtx
  <1>5. AusfTypeOK /\ SmfTypeOK
    BY DEF AusfInit, AusfTypeOK, SmfInit, SmfTypeOK, SmfContext, NoSmfCtx
  <1>6. NoPkt \in N4Req
    BY LinksAssumption DEF NoPkt, N4Req, Sock, SmfOp
  <1>7. UpfTypeOK
    BY <1>6 DEF UpfInit, UpfTypeOK, UpfPc, UpfContext, NoUpfCtx
  <1> QED BY <1>1, <1>2, <1>3, <1>4, <1>5, <1>7, CoreAssumption DEF TypeOK

\* A type invariant that is inductive: the guti of a new UE is computed from
\* the IMSI of an attach request.
TypeInv == TypeOK /\ AttachImsi

\* What sending and receiving do to the packets of a connection.
LEMMA Sent ==
    ASSUME NEW q, q \in [Conn -> Seq(S1apMsg)], NEW q2, NEW c \in Conn, NEW m \in S1apMsg,
           q2 = [q EXCEPT ![c] = Append(@, m)]
    PROVE  /\ q2 \in [Conn -> Seq(S1apMsg)]
           /\ \A d \in Conn : d # c => q2[d] = q[d]
           /\ Len(q2[c]) = Len(q[c]) + 1
           /\ \A k \in 1 .. Len(q[c]) : q2[c][k] = q[c][k]
           /\ q2[c][Len(q[c]) + 1] = m
PROOF
  <1>1. q[c] \in Seq(S1apMsg)
    OBVIOUS
  <1>2. q2[c] = Append(q[c], m) /\ \A d \in Conn : d # c => q2[d] = q[d]
    OBVIOUS
  <1>3. Append(q[c], m) \in Seq(S1apMsg)
    BY <1>1
  <1>4. q2 \in [Conn -> Seq(S1apMsg)]
    BY <1>3
  <1> QED BY <1>1, <1>2, <1>4

LEMMA Taken ==
    ASSUME NEW q, q \in [Conn -> Seq(S1apMsg)], NEW q2, NEW c \in Conn, q[c] # <<>>,
           q2 = [q EXCEPT ![c] = Tail(@)]
    PROVE  /\ q2 \in [Conn -> Seq(S1apMsg)]
           /\ \A d \in Conn : d # c => q2[d] = q[d]
           /\ Head(q[c]) = q[c][1] /\ Head(q[c]) \in S1apMsg
           /\ Len(q[c]) \in Nat \ {0}
           /\ Len(q2[c]) = Len(q[c]) - 1
           /\ \A k \in 1 .. Len(q2[c]) : q2[c][k] = q[c][k + 1] /\ k + 1 \in 1 .. Len(q[c])
PROOF
  <1>1. q[c] \in Seq(S1apMsg)
    OBVIOUS
  <1>2. q2[c] = Tail(q[c]) /\ \A d \in Conn : d # c => q2[d] = q[d]
    OBVIOUS
  <1>3. Tail(q[c]) \in Seq(S1apMsg)
    BY <1>1
  <1>4. q2 \in [Conn -> Seq(S1apMsg)]
    BY <1>3
  <1>5. Len(q[c]) \in Nat \ {0}
    BY <1>1
  <1>6. Head(q[c]) = q[c][1] /\ Head(q[c]) \in S1apMsg
    BY <1>1, <1>5
  <1>7. Len(Tail(q[c])) = Len(q[c]) - 1
    BY <1>1, <1>5
  <1>8. \A k \in 1 .. Len(Tail(q[c])) : Tail(q[c])[k] = q[c][k + 1] /\ k + 1 \in 1 .. Len(q[c])
    BY <1>1, <1>5, <1>7
  <1> QED BY <1>2, <1>4, <1>5, <1>6, <1>7, <1>8

\* The packets of the RAN and of the AMF are well-formed.
LEMMA Messages ==
    /\ \A t \in 1 .. 5, i \in MmeId : S1ap(t, i) \in S1apMsg
    /\ \A m \in S1apMsg, x \in ImsiSet : [m EXCEPT !.imsi = x] \in S1apMsg
    /\ \A m \in S1apMsg, x \in GutiSet : [m EXCEPT !.guti = x] \in S1apMsg
    /\ \A m \in S1apMsg, x \in TeidSet : [m EXCEPT !.teid = x] \in S1apMsg
PROOF BY IdentityTypes DEF S1ap, S1apMsg

LEMMA AcceptMessage ==
    ASSUME NEW m \in S1apMsg, NEW x \in GutiSet, NEW y \in TeidSet, NEW z \in ImsiSet
    PROVE  [m EXCEPT !.guti = x, !.teid = y, !.ip = z] \in S1apMsg
PROOF BY DEF S1apMsg

\* A packet taken from a connection, or one that is no attach request sent on
\* it, keeps the types and the IMSIs of the attach requests.
LEMMA UpSent ==
    ASSUME TypeInv, NEW c \in Conn, NEW m \in S1apMsg, ClientSnd(c, m),
           m.type = 1 => m.imsi = Imsi(UeOf(c))
    PROVE  up' \in [Conn -> Seq(S1apMsg)] /\ AttachImsi'
PROOF
  <1>1. up \in [Conn -> Seq(S1apMsg)] /\ up' = [up EXCEPT ![c] = Append(@, m)]
    BY DEF TypeInv, TypeOK, LinksTypeOK, ClientSnd
  <1>2. /\ up' \in [Conn -> Seq(S1apMsg)]
        /\ \A d \in Conn : d # c => up'[d] = up[d]
        /\ Len(up'[c]) = Len(up[c]) + 1
        /\ \A k \in 1 .. Len(up[c]) : up'[c][k] = up[c][k]
        /\ up'[c][Len(up[c]) + 1] = m
    BY <1>1, Sent
  <1>3. ASSUME NEW d \in Conn, NEW k \in 1 .. Len(up'[d]), up'[d][k].type = 1
        PROVE  up'[d][k].imsi = Imsi(UeOf(d))
    <2>1. CASE d # c
      BY <1>2, <1>3, <2>1 DEF TypeInv, AttachImsi
    <2>2. CASE d = c /\ k \in 1 .. Len(up[c])
      BY <1>2, <1>3, <2>2 DEF TypeInv, AttachImsi
    <2>3. CASE d = c /\ k = Len(up[c]) + 1
      BY <1>2, <1>3, <2>3
    <2>4. Len(up[c]) \in Nat
      BY <1>1
    <2> QED BY <1>2, <2>1, <2>2, <2>3, <2>4
  <1> QED BY <1>2, <1>3 DEF AttachImsi

LEMMA UpTaken ==
    ASSUME TypeInv, NEW c \in Conn, NEW w \in Worker, ServerRcv(w, c)
    PROVE  /\ up' \in [Conn -> Seq(S1apMsg)] /\ AttachImsi'
           /\ Head(up[c]) \in S1apMsg
           /\ Head(up[c]).type = 1 => Head(up[c]).imsi = Imsi(UeOf(c))
PROOF
  <1>1. /\ up \in [Conn -> Seq(S1apMsg)] /\ up[c] # <<>>
        /\ up' = [up EXCEPT ![c] = Tail(@)]
    BY DEF TypeInv, TypeOK, LinksTypeOK, ServerRcv
  <1>2. /\ up' \in [Conn -> Seq(S1apMsg)]
        /\ \A d \in Conn : d # c => up'[d] = up[d]
        /\ Head(up[c]) = up[c][1] /\ Head(up[c]) \in S1apMsg
        /\ Len(up[c]) \in Nat \ {0}
        /\ \A k \in 1 .. Len(up'[c]) : up'[c][k] = up[c][k + 1] /\ k + 1 \in 1 .. Len(up[c])
    BY <1>1, Taken
  <1>3. AttachImsi'
    BY <1>2 DEF TypeInv, AttachImsi
  <1>4. Head(up[c]).type = 1 => Head(up[c]).imsi = Imsi(UeOf(c))
    BY <1>2 DEF TypeInv, AttachImsi
  <1> QED BY <1>2, <1>3, <1>4

LEMMA DownSent ==
    ASSUME TypeInv, NEW c \in Conn, NEW m \in S1apMsg, ServerSnd(c, m)
    PROVE  down' \in [Conn -> Seq(S1apMsg)]
PROOF
  <1>1. down \in [Conn -> Seq(S1apMsg)]
    BY DEF TypeInv, TypeOK, LinksTypeOK
  <1>2. CASE conn[c] = "open"
    BY <1>1, <1>2, Sent DEF ServerSnd
  <1>3. CASE conn[c] # "open"
    BY <1>1, <1>3 DEF ServerSnd
  <1> QED BY <1>2, <1>3

LEMMA DownTaken ==
    ASSUME TypeInv, NEW c \in Conn, Rcv(c)
    PROVE  down' \in [Conn -> Seq(S1apMsg)] /\ Head(down[c]) \in S1apMsg
PROOF
  <1>1. /\ down \in [Conn -> Seq(S1apMsg)] /\ down[c] # <<>>
        /\ down' = [down EXCEPT ![c] = Tail(@)]
    BY DEF TypeInv, TypeOK, LinksTypeOK, Rcv
  <1> QED BY <1>1, Taken

\* A step of a UE thread keeps the types.
LEMMA RanTypes ==
    ASSUME TypeInv, NEW c \in Conn, RanStep(c)
    PROVE  TypeInv'
PROOF
  <1> USE IdentityTypes
  <1>1. LinksTypeOK /\ RanTypeOK
    BY DEF TypeInv, TypeOK
  <1>2. /\ SctpTypeOK' /\ AmfTypeOK' /\ AusfTypeOK' /\ SmfTypeOK' /\ UpfTypeOK'
        /\ losses' \in 0 .. MaxLoss /\ late' \in 0 .. MaxLate
    BY DEF TypeInv, TypeOK, RanStep, sctpVars, amfVars, amfTables, amfLocals, ausfVars, smfVars,
           upfVars, upfTables, faultVars, SctpTypeOK, AmfTypeOK, AusfTypeOK, SmfTypeOK, UpfTypeOK
  <1>3. SUFFICES LinksTypeOK' /\ RanTypeOK' /\ AttachImsi'
    BY <1>2 DEF TypeInv, TypeOK
  <1>4. CASE conn_mme(c)
    BY <1>1, <1>4 DEF conn_mme, LinksTypeOK, RanTypeOK, RanPc, TypeInv, AttachImsi
  <1>5. CASE initial_attach(c)
    <2> DEFINE a == [S1ap(1, 0) EXCEPT !.imsi = Imsi(UeOf(c))]
    <2>1. a \in S1apMsg /\ a.imsi = Imsi(UeOf(c)) /\ ClientSnd(c, a)
      BY <1>5, Messages DEF S1ap, initial_attach
    <2>2. up' \in [Conn -> Seq(S1apMsg)] /\ AttachImsi'
      <3> HIDE DEF a
      <3> QED BY <2>1, UpSent
    <2>3. rounds' \in [Conn -> 0 .. MaxAttach]
      BY <1>1, <1>5, RanAssumption DEF initial_attach, RanTypeOK
    <2> QED BY <1>1, <1>5, <2>2, <2>3 DEF initial_attach, LinksTypeOK, RanTypeOK, RanPc
  <1>6. CASE authenticate(c)
    <2>1. down' \in [Conn -> Seq(S1apMsg)] /\ Head(down[c]) \in S1apMsg
      BY <1>6, DownTaken DEF authenticate
    <2>2. Head(down[c]).id \in MmeId
      BY <2>1 DEF S1apMsg
    <2>3. S1ap(2, Head(down[c]).id) \in S1apMsg /\ S1ap(2, Head(down[c]).id).type = 2
      BY <2>2, Messages DEF S1ap
    <2>4. up' \in [Conn -> Seq(S1apMsg)] /\ AttachImsi'
      BY <1>6, <2>3, UpSent DEF authenticate
    <2>5. ran_ctx' \in [Conn -> RanCtx]
      BY <1>1, <1>6, <2>2 DEF authenticate, RanTypeOK, RanCtx
    <2> QED BY <1>1, <1>6, <2>1, <2>4, <2>5 DEF authenticate, LinksTypeOK, RanTypeOK, RanPc
  <1>7. CASE set_security(c)
    <2>1. down' \in [Conn -> Seq(S1apMsg)]
      BY <1>7, DownTaken DEF set_security
    <2>2. ran_ctx[c].mme_id \in MmeId
      BY <1>1 DEF RanTypeOK, RanCtx
    <2>3. S1ap(3, ran_ctx[c].mme_id) \in S1apMsg /\ S1ap(3, ran_ctx[c].mme_id).type = 3
      BY <2>2, Messages DEF S1ap
    <2>4. up' \in [Conn -> Seq(S1apMsg)] /\ AttachImsi'
      BY <1>7, <2>3, UpSent DEF set_security
    <2> QED BY <1>1, <1>7, <2>1, <2>4 DEF set_security, LinksTypeOK, RanTypeOK, RanPc
  <1>8. CASE set_eps_session(c)
    <2> DEFINE m == Head(down[c])
               a == [S1ap(4, ran_ctx[c].mme_id) EXCEPT !.teid = m.teid]
    <2>1. down' \in [Conn -> Seq(S1apMsg)] /\ m \in S1apMsg
      BY <1>8, DownTaken DEF set_eps_session
    <2>2. m.guti \in GutiSet /\ m.teid \in TeidSet /\ m.ip \in ImsiSet
      BY <2>1 DEF S1apMsg
    <2>3. ran_ctx[c].mme_id \in MmeId
      BY <1>1 DEF RanTypeOK, RanCtx
    <2>4. a \in S1apMsg /\ a.type = 4 /\ ClientSnd(c, a)
      BY <1>8, <2>2, <2>3, Messages DEF S1ap, set_eps_session
    <2>5. up' \in [Conn -> Seq(S1apMsg)] /\ AttachImsi'
      <3> HIDE DEF a
      <3> QED BY <2>4, UpSent
    <2>6. ran_ctx' \in [Conn -> RanCtx]
      BY <1>1, <1>8, <2>2 DEF set_eps_session, RanTypeOK, RanCtx
    <2>7. uplink_info' \in [ImsiSet -> TeidSet \cup {NoTunnel}]
      BY <1>1, <1>8, <2>2 DEF set_eps_session, RanTypeOK
    <2> QED BY <1>1, <1>8, <2>1, <2>5, <2>6, <2>7 DEF set_eps_session, LinksTypeOK, RanTypeOK, RanPc
  <1>9. CASE detach_req(c)
    <2> DEFINE a == [S1ap(5, ran_ctx[c].mme_id) EXCEPT !.guti = ran_ctx[c].guti]
    <2>1. ran_ctx[c].mme_id \in MmeId /\ ran_ctx[c].guti \in GutiSet
      BY <1>1 DEF RanTypeOK, RanCtx
    <2>2. a \in S1apMsg /\ a.type = 5 /\ ClientSnd(c, a)
      BY <1>9, <2>1, Messages DEF S1ap, detach_req
    <2>3. up' \in [Conn -> Seq(S1apMsg)] /\ AttachImsi'
      <3> HIDE DEF a
      <3> QED BY <2>2, UpSent
    <2> QED BY <1>1, <1>9, <2>3 DEF detach_req, LinksTypeOK, RanTypeOK, RanPc
  <1>10. CASE detach_rsp(c)
    <2>1. down' \in [Conn -> Seq(S1apMsg)]
      BY <1>10, DownTaken DEF detach_rsp
    <2> QED BY <1>1, <1>10, <2>1 DEF detach_rsp, LinksTypeOK, RanTypeOK, RanPc, TypeInv, AttachImsi
  <1> QED BY <1>4, <1>5, <1>6, <1>7, <1>8, <1>9, <1>10 DEF RanStep, RanThread

\* Restarting the simulator and accepting a connection keep the types.
LEMMA RestartTypes ==
    ASSUME TypeInv, RestartStep
    PROVE  TypeInv'
PROOF
  <1>1. LinksTypeOK /\ RanTypeOK
    BY DEF TypeInv, TypeOK
  <1>2. /\ SctpTypeOK' /\ AmfTypeOK' /\ AusfTypeOK' /\ SmfTypeOK' /\ UpfTypeOK'
        /\ losses' \in 0 .. MaxLoss /\ late' \in 0 .. MaxLate
    BY DEF TypeInv, TypeOK, RestartStep, sctpVars, amfVars, amfTables, amfLocals, ausfVars,
           smfVars, upfVars, upfTables, faultVars, SctpTypeOK, AmfTypeOK, AusfTypeOK, SmfTypeOK,
           UpfTypeOK
  <1>3. RanRestart
    BY DEF RestartStep
  <1>4. down' \in [Conn -> Seq(S1apMsg)]
    BY <1>1, <1>3 DEF RanRestart, LinksTypeOK
  <1>5. LinksTypeOK'
    BY <1>1, <1>3, <1>4 DEF RanRestart, LinksTypeOK
  <1>6. RanTypeOK'
    BY <1>1, <1>3, LinksAssumption DEF RanRestart, RanTypeOK, RanPc
  <1>7. AttachImsi'
    BY <1>3 DEF RanRestart, TypeInv, AttachImsi
  <1> QED BY <1>2, <1>5, <1>6, <1>7 DEF TypeInv, TypeOK

LEMMA AcceptTypes ==
    ASSUME TypeInv, NEW c \in Conn, AcceptStep(c)
    PROVE  TypeInv'
PROOF
  <1>1. SctpTypeOK
    BY DEF TypeInv, TypeOK
  <1>2. /\ LinksTypeOK' /\ RanTypeOK' /\ AmfTypeOK' /\ AusfTypeOK' /\ SmfTypeOK' /\ UpfTypeOK'
        /\ losses' \in 0 .. MaxLoss /\ late' \in 0 .. MaxLate /\ AttachImsi'
    BY DEF TypeInv, TypeOK, AcceptStep, accept_clients, linkVars, ranVars, amfVars, amfTables,
           amfLocals, ausfVars, smfVars, upfVars, upfTables, faultVars, LinksTypeOK, RanTypeOK,
           AmfTypeOK, AusfTypeOK, SmfTypeOK, UpfTypeOK, AttachImsi
  <1>3. turn' \in Worker
    BY <1>1, LinksAssumption DEF AcceptStep, accept_clients, SctpTypeOK, Worker
  <1>4. owner' \in [Conn -> Worker \cup {NoWorker, NoLonger}]
    BY <1>1 DEF AcceptStep, accept_clients, SctpTypeOK
  <1> QED BY <1>2, <1>3, <1>4 DEF TypeInv, TypeOK, SctpTypeOK

-----------------------------------------------------------------------------
\* A call that a worker makes is well-formed.
LEMMA CallTypes ==
    /\ NoCall \in RpcSlot
    /\ \A op \in AusfOp \cup SmfOp, g \in GutiSet, i \in ImsiSet, t \in TeidSet :
        Call(op, g, i, t) \in RpcSlot
PROOF BY IdentityTypes DEF NoCall, Call, RpcSlot, AusfOp, SmfOp

\* What the pieces that the AMF's handlers are made of leave behind.
LEMMA AwaitTypes ==
    ASSUME TypeInv, NEW w \in Worker, NEW pc \in AmfPc, NEW call \in RpcSlot, Await(w, pc, call)
    PROVE  amf_pc' \in [Worker -> AmfPc] /\ rpc' \in [Worker -> RpcSlot]
PROOF BY DEF TypeInv, TypeOK, AmfTypeOK, LinksTypeOK, Await, Goto

LEMMA LocalsTypes ==
    ASSUME TypeInv, NEW w \in Worker, NEW c \in Conn, NEW i \in MmeId, NEW g \in GutiSet,
           NEW x \in ImsiSet, Locals(w, c, i, g, x)
    PROVE  /\ amf_conn' \in [Worker -> Conn] /\ amf_id' \in [Worker -> MmeId]
           /\ amf_guti' \in [Worker -> GutiSet] /\ amf_imsi' \in [Worker -> ImsiSet]
PROOF BY DEF TypeInv, TypeOK, AmfTypeOK, Locals

LEMMA ReturnTypes ==
    ASSUME TypeInv, NEW w \in Worker, Return(w)
    PROVE  /\ amf_pc' \in [Worker -> AmfPc] /\ rpc' \in [Worker -> RpcSlot]
           /\ amf_conn' \in [Worker -> Conn] /\ amf_id' \in [Worker -> MmeId]
           /\ amf_guti' \in [Worker -> GutiSet] /\ amf_imsi' \in [Worker -> ImsiSet]
PROOF
  <1>1. Locals(w, NoConn, 0, 0, 0)
    BY DEF Return
  <1>2. /\ amf_conn' \in [Worker -> Conn] /\ amf_id' \in [Worker -> MmeId]
        /\ amf_guti' \in [Worker -> GutiSet] /\ amf_imsi' \in [Worker -> ImsiSet]
    BY <1>1, IdentityTypes, LocalsTypes
  <1>3. amf_pc' \in [Worker -> AmfPc] /\ rpc' \in [Worker -> RpcSlot]
    BY CallTypes DEF Return, Goto, TypeInv, TypeOK, AmfTypeOK, LinksTypeOK, AmfPc
  <1> QED BY <1>2, <1>3

\* The contexts the handlers store are well-formed.
LEMMA ContextTypes ==
    ASSUME NEW x \in UeContext
    PROVE  /\ Touch(x) \in UeContext /\ NoUeCtx \in UeContext
           /\ \A i \in ImsiSet, k \in MmeId :
                [Touch(x) EXCEPT !.imsi = i, !.mme_id = k] \in UeContext
           /\ \A t, u \in TeidSet : [Touch(x) EXCEPT !.upf = t, !.ul = u] \in UeContext
           /\ \A t \in TeidSet : [Touch(x) EXCEPT !.dl = t, !.emm_state = 1] \in UeContext
           /\ [Touch(x) EXCEPT !.ecm_state = 1] \in UeContext
PROOF BY IdentityTypes DEF Touch, UeContext, NoUeCtx

\* Leaving through handle_type1_error changes only the processes that exited.
LEMMA ZeroGutiTypes ==
    ASSUME TypeInv, ZeroGuti
    PROVE  /\ exited' \subseteq Process /\ UNCHANGED <<amf_pc, amfLocals, ue_ctx, rpc, down>>
PROOF BY DEF TypeInv, TypeOK, LinksTypeOK, ZeroGuti, Process

\* A step of a worker of the AMF keeps the types.
LEMMA AmfTypes ==
    ASSUME TypeInv, NEW w \in Worker, AmfStep(w)
    PROVE  TypeInv'
PROOF
  <1> USE IdentityTypes
  <1>1. LinksTypeOK /\ SctpTypeOK /\ AmfTypeOK /\ AttachImsi
    BY DEF TypeInv, TypeOK
  <1>2. /\ RanTypeOK' /\ AusfTypeOK' /\ SmfTypeOK' /\ UpfTypeOK'
        /\ losses' \in 0 .. MaxLoss /\ late' \in 0 .. MaxLate
    BY DEF TypeInv, TypeOK, AmfStep, ranVars, ausfVars, smfVars, upfVars, upfTables, faultVars,
           RanTypeOK, AusfTypeOK, SmfTypeOK, UpfTypeOK
  <1>3. SUFFICES LinksTypeOK' /\ SctpTypeOK' /\ AmfTypeOK' /\ AttachImsi'
    BY <1>2 DEF TypeInv, TypeOK
  <1>4. amf_conn[w] \in Conn /\ amf_id[w] \in MmeId /\ amf_guti[w] \in GutiSet /\ amf_imsi[w] \in ImsiSet
    BY <1>1 DEF AmfTypeOK
  <1>5. rpc[w] \in RpcSlot /\ rpc[w].guti \in GutiSet /\ rpc[w].teid \in TeidSet
        /\ rpc[w].ul \in TeidSet /\ rpc[w].ip \in ImsiSet
    BY <1>1 DEF LinksTypeOK, RpcSlot
  <1>6. \A g \in GutiSet : ue_ctx[g] \in UeContext /\ ue_ctx[g].imsi \in ImsiSet
    BY <1>1 DEF AmfTypeOK, UeContext
  <1>7. \A i \in MmeId : s1amf_id[i] \in GutiSet
    BY <1>1 DEF AmfTypeOK
  <1>8. ASSUME NEW c \in Conn, handle_initial_attach(w, c)
        PROVE  LinksTypeOK' /\ SctpTypeOK' /\ AmfTypeOK' /\ AttachImsi'
    <2>1. /\ up' \in [Conn -> Seq(S1apMsg)] /\ AttachImsi' /\ Head(up[c]) \in S1apMsg
          /\ Head(up[c]).type = 1 => Head(up[c]).imsi = Imsi(UeOf(c))
      BY <1>8, UpTaken DEF handle_initial_attach, Serve
    <2>2. Head(up[c]).imsi = Imsi(UeOf(c))
      BY <1>8, <2>1 DEF handle_initial_attach, Serve
    <2>3. get_guti(GUMMEI, Head(up[c]).imsi) \in GutiSet /\ Head(up[c]).imsi \in ImsiSet
      BY <2>2 DEF Guti
    <2>4. ue_count + 1 \in MmeId
      BY <1>1, <1>8, LinksAssumption DEF handle_initial_attach, AmfTypeOK, MmeId
    <2>5. /\ amf_conn' \in [Worker -> Conn] /\ amf_id' \in [Worker -> MmeId]
          /\ amf_guti' \in [Worker -> GutiSet] /\ amf_imsi' \in [Worker -> ImsiSet]
      BY <1>8, <2>3, <2>4, LocalsTypes DEF handle_initial_attach
    <2>6. s1amf_id' \in [MmeId -> GutiSet] /\ ue_count' \in MmeId
      BY <1>1, <1>8, <2>3, <2>4 DEF handle_initial_attach, AmfTypeOK
    <2>7. amf_pc' \in [Worker -> AmfPc]
      BY <1>1, <1>8 DEF handle_initial_attach, AmfTypeOK, Goto, AmfPc
    <2> QED BY <1>1, <1>8, <2>1, <2>5, <2>6, <2>7
            DEF handle_initial_attach, LinksTypeOK, SctpTypeOK, AmfTypeOK
  <1>9. ASSUME AttachInit(w)
        PROVE  LinksTypeOK' /\ SctpTypeOK' /\ AmfTypeOK' /\ AttachImsi'
    <2>1. Call("autn", 0, amf_imsi[w], 0) \in RpcSlot
      BY <1>4, CallTypes DEF AusfOp
    <2>2. amf_pc' \in [Worker -> AmfPc] /\ rpc' \in [Worker -> RpcSlot]
      BY <1>9, <2>1, AwaitTypes DEF AttachInit, AmfPc
    <2>3. ue_ctx' \in [GutiSet -> UeContext]
      BY <1>1, <1>4, <1>6, <1>9, ContextTypes DEF AttachInit, AmfTypeOK
    <2> QED BY <1>1, <1>9, <2>2, <2>3
            DEF AttachInit, LinksTypeOK, SctpTypeOK, AmfTypeOK, amfLocals, AttachImsi
  <1>10. ASSUME AttachChallenge(w)
         PROVE  LinksTypeOK' /\ SctpTypeOK' /\ AmfTypeOK' /\ AttachImsi'
    <2>1. down' \in [Conn -> Seq(S1apMsg)]
      BY <1>4, <1>10, Messages, DownSent DEF AttachChallenge
    <2>2. ue_ctx' \in [GutiSet -> UeContext]
      BY <1>1, <1>4, <1>6, <1>10, ContextTypes DEF AttachChallenge, AmfTypeOK
    <2> QED BY <1>1, <1>10, <2>1, <2>2, ReturnTypes
            DEF AttachChallenge, LinksTypeOK, SctpTypeOK, AmfTypeOK, AttachImsi
  <1>11. ASSUME NEW c \in Conn, NEW t \in 2 .. 5, Serve(w, c, t)
         PROVE  /\ up' \in [Conn -> Seq(S1apMsg)] /\ AttachImsi' /\ Head(up[c]) \in S1apMsg
                /\ Head(up[c]).id \in MmeId /\ Head(up[c]).guti \in GutiSet
                /\ Head(up[c]).teid \in TeidSet
    BY <1>11, UpTaken DEF Serve, S1apMsg
  <1>12. ASSUME NEW c \in Conn, handle_autn(w, c)
         PROVE  LinksTypeOK' /\ SctpTypeOK' /\ AmfTypeOK' /\ AttachImsi'
    <2> DEFINE id   == Head(up[c]).id
               guti == s1amf_id[id]
    <2>1. up' \in [Conn -> Seq(S1apMsg)] /\ AttachImsi' /\ id \in MmeId
      BY <1>11, <1>12 DEF handle_autn
    <2>2. guti \in GutiSet
      BY <1>7, <2>1
    <2>3. CASE guti = 0
      BY <1>1, <1>12, <2>1, <2>3, ZeroGutiTypes
         DEF handle_autn, LinksTypeOK, SctpTypeOK, AmfTypeOK, amfLocals
    <2>4. CASE guti # 0
      <3>1. ue_ctx' = [ue_ctx EXCEPT ![guti] = Touch(@)] /\ ServerSnd(c, S1ap(2, id))
        BY <1>12, <2>4 DEF handle_autn
      <3>2. down' \in [Conn -> Seq(S1apMsg)]
        BY <2>1, <3>1, Messages, DownSent
      <3>3. ue_ctx' \in [GutiSet -> UeContext]
        BY <1>1, <1>6, <2>2, <3>1, ContextTypes DEF AmfTypeOK
      <3> QED BY <1>1, <1>12, <2>1, <2>4, <3>2, <3>3
              DEF handle_autn, LinksTypeOK, SctpTypeOK, AmfTypeOK, amfLocals
    <2> QED BY <2>3, <2>4
  <1>13. ASSUME NEW c \in Conn, handle_security_mode_complete(w, c)
         PROVE  LinksTypeOK' /\ SctpTypeOK' /\ AmfTypeOK' /\ AttachImsi'
    <2> DEFINE id   == Head(up[c]).id
               guti == s1amf_id[id]
    <2>1. up' \in [Conn -> Seq(S1apMsg)] /\ AttachImsi' /\ id \in MmeId
      BY <1>11, <1>13 DEF handle_security_mode_complete
    <2>2. guti \in GutiSet
      BY <1>7, <2>1
    <2>3. CASE guti = 0
      BY <1>1, <1>13, <2>1, <2>3, ZeroGutiTypes
         DEF handle_security_mode_complete, LinksTypeOK, SctpTypeOK, AmfTypeOK, amfLocals
    <2>4. CASE guti # 0
      <3>1. /\ Locals(w, c, id, guti, 0)
            /\ Await(w, "location", Call("loc", 0, ue_ctx[guti].imsi, 0))
            /\ ue_ctx' = [ue_ctx EXCEPT ![guti] = Touch(@)]
        BY <1>13, <2>4 DEF handle_security_mode_complete
      <3>2. /\ amf_conn' \in [Worker -> Conn] /\ amf_id' \in [Worker -> MmeId]
            /\ amf_guti' \in [Worker -> GutiSet] /\ amf_imsi' \in [Worker -> ImsiSet]
        BY <2>1, <2>2, <3>1, LocalsTypes
      <3>3. Call("loc", 0, ue_ctx[guti].imsi, 0) \in RpcSlot
        BY <1>6, <2>2, CallTypes DEF AusfOp
      <3>4. amf_pc' \in [Worker -> AmfPc] /\ rpc' \in [Worker -> RpcSlot]
        BY <3>1, <3>3, AwaitTypes DEF AmfPc
      <3>5. ue_ctx' \in [GutiSet -> UeContext]
        BY <1>1, <1>6, <2>2, <3>1, ContextTypes DEF AmfTypeOK
      <3> QED BY <1>1, <1>13, <2>1, <2>4, <3>2, <3>4, <3>5
              DEF handle_security_mode_complete, LinksTypeOK, SctpTypeOK, AmfTypeOK
    <2> QED BY <2>3, <2>4
  <1>14. ASSUME handle_create_session(w)
         PROVE  LinksTypeOK' /\ SctpTypeOK' /\ AmfTypeOK' /\ AttachImsi'
    <2> DEFINE guti == s1amf_id[amf_id[w]]
    <2>1. guti \in GutiSet
      BY <1>4, <1>7
    <2>2. CASE guti = 0
      BY <1>1, <1>14, <2>2, ZeroGutiTypes
         DEF handle_create_session, LinksTypeOK, SctpTypeOK, AmfTypeOK, amfLocals, AttachImsi
    <2>3. CASE guti # 0
      <3> DEFINE call == Call("create", guti, ue_ctx[guti].imsi, get_s11cteidamf(guti))
      <3>1. /\ Await(w, "create", call)
            /\ ue_ctx' = [ue_ctx EXCEPT ![guti] = Touch(@)]
            /\ amf_guti' = [amf_guti EXCEPT ![w] = guti]
        BY <1>14, <2>3 DEF handle_create_session
      <3>2. call \in RpcSlot
        BY <1>6, <2>1, <2>3, CallTypes DEF SmfOp
      <3>3. amf_pc' \in [Worker -> AmfPc] /\ rpc' \in [Worker -> RpcSlot]
        <4> HIDE DEF call
        <4> QED BY <3>1, <3>2, AwaitTypes DEF AmfPc
      <3>4. ue_ctx' \in [GutiSet -> UeContext]
        BY <1>1, <1>6, <2>1, <3>1, ContextTypes DEF AmfTypeOK
      <3>5. amf_guti' \in [Worker -> GutiSet]
        BY <1>1, <2>1, <3>1 DEF AmfTypeOK
      <3> QED BY <1>1, <1>14, <2>3, <3>3, <3>4, <3>5
              DEF handle_create_session, LinksTypeOK, SctpTypeOK, AmfTypeOK, AttachImsi
    <2> QED BY <2>2, <2>3
  <1>15. ASSUME SessionAccept(w)
         PROVE  LinksTypeOK' /\ SctpTypeOK' /\ AmfTypeOK' /\ AttachImsi'
    <2> DEFINE m == [S1ap(3, amf_id[w]) EXCEPT !.guti = rpc[w].guti, !.teid = rpc[w].ul,
                                              !.ip = rpc[w].ip]
    <2>1. m \in S1apMsg
      <3>1. S1ap(3, amf_id[w]) \in S1apMsg
        BY <1>4, Messages
      <3> QED BY <1>5, <3>1, AcceptMessage
    <2>2. down' \in [Conn -> Seq(S1apMsg)]
      <3>1. ServerSnd(amf_conn[w], m)
        BY <1>15 DEF SessionAccept
      <3> HIDE DEF m
      <3> QED BY <1>4, <2>1, <3>1, DownSent
    <2>3. ue_ctx' \in [GutiSet -> UeContext]
      BY <1>1, <1>5, <1>6, <1>15, ContextTypes DEF SessionAccept, AmfTypeOK
    <2> QED BY <1>1, <1>15, <2>2, <2>3, ReturnTypes
            DEF SessionAccept, LinksTypeOK, SctpTypeOK, AmfTypeOK, AttachImsi
  <1>16. ASSUME NEW c \in Conn, handle_attach_complete(w, c)
         PROVE  LinksTypeOK' /\ SctpTypeOK' /\ AmfTypeOK' /\ AttachImsi'
    <2> DEFINE m    == Head(up[c])
               guti == s1amf_id[m.id]
    <2>1. /\ up' \in [Conn -> Seq(S1apMsg)] /\ AttachImsi' /\ m.id \in MmeId
          /\ m.teid \in TeidSet
      BY <1>11, <1>16 DEF handle_attach_complete
    <2>2. guti \in GutiSet
      BY <1>7, <2>1
    <2>3. CASE guti = 0
      BY <1>1, <1>16, <2>1, <2>3, ZeroGutiTypes
         DEF handle_attach_complete, LinksTypeOK, SctpTypeOK, AmfTypeOK, amfLocals
    <2>4. CASE guti # 0
      <3>1. /\ Locals(w, c, m.id, guti, 0)
            /\ amf_pc' = [amf_pc EXCEPT ![w] = "bearer"]
            /\ ue_ctx' = [ue_ctx EXCEPT ![guti] = [Touch(@) EXCEPT !.dl = m.teid, !.emm_state = 1]]
        BY <1>16, <2>4 DEF handle_attach_complete, Goto
      <3>2. /\ amf_conn' \in [Worker -> Conn] /\ amf_id' \in [Worker -> MmeId]
            /\ amf_guti' \in [Worker -> GutiSet] /\ amf_imsi' \in [Worker -> ImsiSet]
        BY <2>1, <2>2, <3>1, LocalsTypes
      <3>3. amf_pc' \in [Worker -> AmfPc]
        BY <1>1, <3>1 DEF AmfTypeOK, AmfPc
      <3>4. ue_ctx' \in [GutiSet -> UeContext]
        BY <1>1, <1>6, <2>1, <2>2, <3>1, ContextTypes DEF AmfTypeOK
      <3> QED BY <1>1, <1>16, <2>1, <2>4, <3>2, <3>3, <3>4
              DEF handle_attach_complete, LinksTypeOK, SctpTypeOK, AmfTypeOK
    <2> QED BY <2>3, <2>4
  <1>17. ASSUME handle_modify_bearer(w)
         PROVE  LinksTypeOK' /\ SctpTypeOK' /\ AmfTypeOK' /\ AttachImsi'
    <2> DEFINE guti == s1amf_id[amf_id[w]]
    <2>1. guti \in GutiSet
      BY <1>4, <1>7
    <2>2. CASE guti = 0
      BY <1>1, <1>17, <2>2, ZeroGutiTypes
         DEF handle_modify_bearer, LinksTypeOK, SctpTypeOK, AmfTypeOK, amfLocals, AttachImsi
    <2>3. CASE guti # 0
      <3> DEFINE call == Call("modify", guti, 0, ue_ctx[guti].dl)
      <3>1. /\ Await(w, "modify", call)
            /\ ue_ctx' = [ue_ctx EXCEPT ![guti] = Touch(@)]
            /\ amf_guti' = [amf_guti EXCEPT ![w] = guti]
        BY <1>17, <2>3 DEF handle_modify_bearer
      <3>2. call \in RpcSlot
        <4>1. ue_ctx[guti].dl \in TeidSet
          BY <1>6, <2>1 DEF UeContext
        <4> QED BY <2>1, <4>1, CallTypes DEF SmfOp
      <3>3. amf_pc' \in [Worker -> AmfPc] /\ rpc' \in [Worker -> RpcSlot]
        <4> HIDE DEF call
        <4> QED BY <3>1, <3>2, AwaitTypes DEF AmfPc
      <3>4. ue_ctx' \in [GutiSet -> UeContext]
        BY <1>1, <1>6, <2>1, <3>1, ContextTypes DEF AmfTypeOK
      <3>5. amf_guti' \in [Worker -> GutiSet]
        BY <1>1, <2>1, <3>1 DEF AmfTypeOK
      <3> QED BY <1>1, <1>17, <2>3, <3>3, <3>4, <3>5
              DEF handle_modify_bearer, LinksTypeOK, SctpTypeOK, AmfTypeOK, AttachImsi
    <2> QED BY <2>2, <2>3
  <1>18. ASSUME BearerModified(w)
         PROVE  LinksTypeOK' /\ SctpTypeOK' /\ AmfTypeOK' /\ AttachImsi'
    <2>1. ue_ctx' \in [GutiSet -> UeContext]
      BY <1>1, <1>4, <1>6, <1>18, ContextTypes DEF BearerModified, AmfTypeOK
    <2> QED BY <1>1, <1>18, <2>1, ReturnTypes
            DEF BearerModified, LinksTypeOK, SctpTypeOK, AmfTypeOK, AttachImsi
  <1>19. ASSUME NEW c \in Conn, handle_detach(w, c)
         PROVE  LinksTypeOK' /\ SctpTypeOK' /\ AmfTypeOK' /\ AttachImsi'
    <2> DEFINE m    == Head(up[c])
               guti == s1amf_id[m.id]
    <2>1. /\ up' \in [Conn -> Seq(S1apMsg)] /\ AttachImsi' /\ m.id \in MmeId
          /\ m.guti \in GutiSet
      BY <1>11, <1>19 DEF handle_detach
    <2>2. guti \in GutiSet
      BY <1>7, <2>1
    <2>3. CASE guti = 0
      BY <1>1, <1>19, <2>1, <2>3, ZeroGutiTypes
         DEF handle_detach, LinksTypeOK, SctpTypeOK, AmfTypeOK, amfLocals
    <2>4. CASE guti # 0
      <3>1. /\ Locals(w, c, m.id, m.guti, 0)
            /\ Await(w, "detach", Call("detach", m.guti, 0, 0))
            /\ ue_ctx' = [ue_ctx EXCEPT ![guti] = Touch(@)]
        BY <1>19, <2>4 DEF handle_detach
      <3>2. /\ amf_conn' \in [Worker -> Conn] /\ amf_id' \in [Worker -> MmeId]
            /\ amf_guti' \in [Worker -> GutiSet] /\ amf_imsi' \in [Worker -> ImsiSet]
        BY <2>1, <2>2, <3>1, LocalsTypes
      <3>3. Call("detach", m.guti, 0, 0) \in RpcSlot
        BY <2>1, CallTypes DEF SmfOp
      <3>4. amf_pc' \in [Worker -> AmfPc] /\ rpc' \in [Worker -> RpcSlot]
        BY <3>1, <3>3, AwaitTypes DEF AmfPc
      <3>5. ue_ctx' \in [GutiSet -> UeContext]
        BY <1>1, <1>6, <2>2, <3>1, ContextTypes DEF AmfTypeOK
      <3> QED BY <1>1, <1>19, <2>1, <2>4, <3>2, <3>4, <3>5
              DEF handle_detach, LinksTypeOK, SctpTypeOK, AmfTypeOK
    <2> QED BY <2>3, <2>4
  <1>20. ASSUME DetachFailed(w)
         PROVE  LinksTypeOK' /\ SctpTypeOK' /\ AmfTypeOK' /\ AttachImsi'
    BY <1>1, <1>20, ReturnTypes
       DEF DetachFailed, LinksTypeOK, SctpTypeOK, AmfTypeOK, amfTables, AttachImsi
  <1>21. ASSUME DetachAnswer(w)
         PROVE  LinksTypeOK' /\ SctpTypeOK' /\ AmfTypeOK' /\ AttachImsi'
    <2>1. down' \in [Conn -> Seq(S1apMsg)]
      BY <1>4, <1>21, Messages, DownSent DEF DetachAnswer
    <2>2. amf_pc' \in [Worker -> AmfPc] /\ rpc' \in [Worker -> RpcSlot]
      BY <1>21, CallTypes, AwaitTypes DEF DetachAnswer, AmfPc
    <2> QED BY <1>1, <1>21, <2>1, <2>2
            DEF DetachAnswer, LinksTypeOK, SctpTypeOK, AmfTypeOK, amfTables, amfLocals, AttachImsi
  <1>22. ASSUME rem_itfid(w)
         PROVE  LinksTypeOK' /\ SctpTypeOK' /\ AmfTypeOK' /\ AttachImsi'
    BY <1>1, <1>4, <1>22
       DEF rem_itfid, Goto, AmfPc, LinksTypeOK, SctpTypeOK, AmfTypeOK, amfLocals, linkVars, AttachImsi
  <1>23. ASSUME rem_uectx(w)
         PROVE  LinksTypeOK' /\ SctpTypeOK' /\ AmfTypeOK' /\ AttachImsi'
    <2>1. ue_ctx' \in [GutiSet -> UeContext]
      BY <1>1, <1>4, <1>6, <1>23, ContextTypes DEF rem_uectx, AmfTypeOK
    <2> QED BY <1>1, <1>23, <2>1, ReturnTypes
            DEF rem_uectx, LinksTypeOK, SctpTypeOK, AmfTypeOK, AttachImsi
  <1>24. ASSUME NEW c \in Conn, ConnClosed(w, c)
         PROVE  LinksTypeOK' /\ SctpTypeOK' /\ AmfTypeOK' /\ AttachImsi'
    <2>1. up' \in [Conn -> Seq(S1apMsg)] /\ AttachImsi'
      BY <1>1, <1>24 DEF ConnClosed, CloseConn, LinksTypeOK, AttachImsi
    <2> QED BY <1>1, <1>24, <2>1
            DEF ConnClosed, CloseConn, LinksTypeOK, SctpTypeOK, AmfTypeOK, amfVars, amfTables, amfLocals
  <1> QED BY <1>8, <1>9, <1>10, <1>12, <1>13, <1>14, <1>15, <1>16, <1>17, <1>18, <1>19, <1>20,
             <1>21, <1>22, <1>23, <1>24 DEF AmfStep, AmfWorker

-----------------------------------------------------------------------------
\* The steps of the other components keep the types.
LEMMA SlotTypes ==
    ASSUME NEW r \in RpcSlot
    PROVE  /\ [r EXCEPT !.st = "busy"] \in RpcSlot /\ [r EXCEPT !.st = "rep"] \in RpcSlot
           /\ \A b \in BOOLEAN : [r EXCEPT !.st = "rep", !.res = b] \in RpcSlot
           /\ \A t, u \in TeidSet, i \in ImsiSet :
                [r EXCEPT !.st = "rep", !.teid = t, !.ul = u, !.ip = i, !.res = TRUE] \in RpcSlot
PROOF BY DEF RpcSlot

LEMMA RpcFailTypes ==
    ASSUME TypeInv, NEW w \in Worker, RpcFailStep(w)
    PROVE  TypeInv'
PROOF
  <1>1. LinksTypeOK /\ SctpTypeOK /\ AmfTypeOK /\ RpcFail(w)
    BY DEF TypeInv, TypeOK, RpcFailStep
  <1>2. /\ RanTypeOK' /\ AusfTypeOK' /\ SmfTypeOK' /\ UpfTypeOK'
        /\ losses' \in 0 .. MaxLoss /\ late' \in 0 .. MaxLate
    BY DEF TypeInv, TypeOK, RpcFailStep, ranVars, ausfVars, smfVars, upfVars, upfTables,
           faultVars, RanTypeOK, AusfTypeOK, SmfTypeOK, UpfTypeOK
  <1>3. rpc' \in [Worker -> RpcSlot]
    <2>1. PICK upf \in TeidSet, ul \in TeidSet, res \in BOOLEAN :
            rpc' = [rpc EXCEPT ![w] = [@ EXCEPT !.st = "rep", !.teid = upf, !.ul = ul, !.res = res]]
      BY <1>1 DEF RpcFail
    <2> QED BY <1>1, <2>1, ZenonT(30) DEF LinksTypeOK, RpcSlot
  <1>4. rpc_fails' \in 0 .. MaxRpcFail
    BY <1>1, AmfAssumption DEF RpcFail, AmfTypeOK
  <1>5. LinksTypeOK' /\ SctpTypeOK' /\ AmfTypeOK' /\ AttachImsi'
    BY <1>1, <1>3, <1>4 DEF RpcFail, LinksTypeOK, SctpTypeOK, AmfTypeOK, amfTables, amfLocals,
                            TypeInv, AttachImsi
  <1> QED BY <1>2, <1>5 DEF TypeInv, TypeOK

LEMMA AusfTypes ==
    ASSUME TypeInv, NEW w \in Worker, AusfStep(w)
    PROVE  TypeInv'
PROOF
  <1>1. LinksTypeOK /\ AusfTypeOK /\ AusfServer(w)
    BY DEF TypeInv, TypeOK, AusfStep
  <1>2. /\ RanTypeOK' /\ SctpTypeOK' /\ AmfTypeOK' /\ SmfTypeOK' /\ UpfTypeOK'
        /\ losses' \in 0 .. MaxLoss /\ late' \in 0 .. MaxLate
    BY DEF TypeInv, TypeOK, AusfStep, ranVars, sctpVars, amfVars, amfTables, amfLocals, smfVars,
           upfVars, upfTables, faultVars, RanTypeOK, SctpTypeOK, AmfTypeOK, SmfTypeOK, UpfTypeOK
  <1>3. rpc[w] \in RpcSlot /\ rpc[w].imsi \in ImsiSet
    BY <1>1 DEF LinksTypeOK, RpcSlot
  <1>4. rpc' \in [Worker -> RpcSlot]
    <2>1. \/ rpc' = [rpc EXCEPT ![w] = [@ EXCEPT !.st = "rep"]]
          \/ rpc' = [rpc EXCEPT ![w] = [@ EXCEPT !.st = "busy"]]
      BY <1>1 DEF AusfServer, handle_autninfo_req, SetLocDelete, SetLocInsert, AusfReturn
    <2> QED BY <1>1, <1>3, <2>1, SlotTypes DEF LinksTypeOK
  <1>5. loc_info' \in [ImsiSet -> Nat]
    BY <1>1, <1>3 DEF AusfServer, handle_autninfo_req, SetLocDelete, SetLocInsert, AusfTypeOK
  <1>6. UNCHANGED <<up, down, conn, calls, n4req, n4rsp, exited>>
    BY <1>1 DEF AusfServer, handle_autninfo_req, SetLocDelete, SetLocInsert
  <1>7. LinksTypeOK' /\ AttachImsi'
    BY <1>1, <1>4, <1>6 DEF LinksTypeOK, TypeInv, AttachImsi
  <1> QED BY <1>2, <1>5, <1>7 DEF TypeInv, TypeOK, AusfTypeOK

\* The SMF stores well-formed contexts, requests and replies.
LEMMA SmfCtxTypes ==
    ASSUME NEW x \in SmfContext
    PROVE  /\ [x EXCEPT !.known = TRUE] \in SmfContext
           /\ \A i \in ImsiSet, t \in TeidSet : [x EXCEPT !.imsi = i, !.mme = t] \in SmfContext
           /\ \A i \in ImsiSet, t, u \in TeidSet :
                [x EXCEPT !.known = TRUE, !.ip = i, !.sgw = t, !.ul = u] \in SmfContext
           /\ x.sgw \in TeidSet /\ x.dl \in TeidSet
PROOF BY DEF SmfContext

LEMMA RequestTypes ==
    ASSUME TypeInv, NEW w \in Worker, NEW op \in SmfOp, NEW ctx \in SmfContext,
           NEW teid \in TeidSet, NEW imsi \in ImsiSet, NEW dl \in TeidSet,
           Accept(w, op), Request(w, op, ctx, teid, imsi, dl)
    PROVE  /\ smf_ctx' \in [GutiSet -> SmfContext] /\ n4req' \subseteq N4Req
           /\ rpc' \in [Worker -> RpcSlot] /\ calls' \in [Worker -> 0 .. MaxCalls]
           /\ exited' \subseteq Process
PROOF
  <1>1. LinksTypeOK /\ SmfTypeOK
    BY DEF TypeInv, TypeOK
  <1>2. rpc[w].guti \in GutiSet
    BY <1>1 DEF LinksTypeOK, RpcSlot
  <1>3. calls[w] + 1 \in 1 .. MaxCalls /\ calls' \in [Worker -> 0 .. MaxCalls]
    BY <1>1, LinksAssumption DEF Accept, LinksTypeOK
  <1>4. CASE rpc[w].guti = 0
    BY <1>1, <1>3, <1>4 DEF Request, LinksTypeOK, SmfTypeOK, Process
  <1>5. CASE rpc[w].guti # 0
    <2>1. smf_ctx' \in [GutiSet -> SmfContext]
      BY <1>1, <1>2, <1>5, SmfCtxTypes DEF Request, SmfTypeOK
    <2>2. [op |-> op, sock |-> <<w, calls[w] + 1>>, teid |-> teid, imsi |-> imsi, dl |-> dl] \in N4Req
      BY <1>3 DEF N4Req, Sock
    <2>3. rpc' \in [Worker -> RpcSlot]
      <3>1. rpc' = [rpc EXCEPT ![w] = [@ EXCEPT !.st = "busy"]] /\ rpc[w] \in RpcSlot
        BY <1>1, <1>5 DEF Request, LinksTypeOK
      <3> QED BY <1>1, <3>1, SlotTypes DEF LinksTypeOK
    <2> QED BY <1>1, <1>3, <1>5, <2>1, <2>2, <2>3 DEF Request, LinksTypeOK
  <1> QED BY <1>4, <1>5

LEMMA FinishTypes ==
    ASSUME TypeInv, NEW w \in Worker, NEW pkt, pkt.teid \in TeidSet, pkt.ul \in TeidSet,
           pkt.ip \in ImsiSet, pkt.res \in BOOLEAN, Finish(w, pkt)
    PROVE  smf_ctx' \in [GutiSet -> SmfContext] /\ rpc' \in [Worker -> RpcSlot]
PROOF
  <1>1. LinksTypeOK /\ SmfTypeOK
    BY DEF TypeInv, TypeOK
  <1>2. rpc[w].guti \in GutiSet /\ rpc[w] \in RpcSlot
    BY <1>1 DEF LinksTypeOK, RpcSlot
  <1>3. CASE rpc[w].op = "create"
    <2>1. smf_ctx' \in [GutiSet -> SmfContext]
      <3> DEFINE x == smf_ctx[rpc[w].guti]
      <3>1. x \in SmfContext
        BY <1>1, <1>2 DEF SmfTypeOK
      <3>2. [x EXCEPT !.known = TRUE, !.ip = pkt.ip, !.sgw = pkt.teid, !.ul = pkt.ul] \in SmfContext
        BY <3>1, SmfCtxTypes
      <3> QED BY <1>1, <1>2, <1>3, <3>2 DEF Finish, CreateReply, ResultReply, SmfTypeOK
    <2>2. rpc' \in [Worker -> RpcSlot]
      <3> DEFINE r == [rpc[w] EXCEPT !.st = "rep", !.teid = pkt.teid, !.ul = pkt.ul,
                                     !.ip = pkt.ip, !.res = TRUE]
      <3>1. r \in RpcSlot
        BY <1>2, SlotTypes
      <3>2. rpc' = [rpc EXCEPT ![w] = r]
        BY <1>3 DEF Finish, CreateReply, ResultReply
      <3> HIDE DEF r
      <3> QED BY <1>1, <3>1, <3>2 DEF LinksTypeOK
    <2> QED BY <2>1, <2>2
  <1>4. CASE rpc[w].op # "create"
    <2> DEFINE r == [rpc[w] EXCEPT !.st = "rep", !.res = pkt.res]
    <2>1. r \in RpcSlot
      BY <1>2, SlotTypes
    <2>2. rpc' = [rpc EXCEPT ![w] = r] /\ smf_ctx' = smf_ctx
      BY <1>4 DEF Finish, CreateReply, ResultReply
    <2> HIDE DEF r
    <2> QED BY <1>1, <2>1, <2>2 DEF LinksTypeOK, SmfTypeOK
  <1> QED BY <1>3, <1>4

LEMMA SmfTypes ==
    ASSUME TypeInv, NEW w \in Worker, SmfStep(w)
    PROVE  TypeInv'
PROOF
  <1> USE IdentityTypes
  <1>1. LinksTypeOK /\ SmfTypeOK /\ AttachImsi /\ SmfHandler(w)
    BY DEF TypeInv, TypeOK, SmfStep
  <1>2. /\ RanTypeOK' /\ SctpTypeOK' /\ AmfTypeOK' /\ AusfTypeOK' /\ UpfTypeOK'
        /\ losses' \in 0 .. MaxLoss /\ late' \in 0 .. MaxLate
    BY DEF TypeInv, TypeOK, SmfStep, ranVars, sctpVars, amfVars, amfTables, amfLocals, ausfVars,
           upfVars, upfTables, faultVars, RanTypeOK, SctpTypeOK, AmfTypeOK, AusfTypeOK, UpfTypeOK
  <1>3. SUFFICES LinksTypeOK' /\ SmfTypeOK' /\ AttachImsi'
    BY <1>2 DEF TypeInv, TypeOK
  <1>4. rpc[w].guti \in GutiSet /\ rpc[w].imsi \in ImsiSet /\ rpc[w].teid \in TeidSet
    BY <1>1 DEF LinksTypeOK, RpcSlot
  <1>5. smf_ctx[rpc[w].guti] \in SmfContext
    BY <1>1, <1>4 DEF SmfTypeOK
  <1>6. CASE SmfCreateSession(w)
    <2> DEFINE ctx == [smf_ctx[rpc[w].guti] EXCEPT !.imsi = rpc[w].imsi, !.mme = rpc[w].teid]
    <2>1. ctx \in SmfContext
      BY <1>4, <1>5, SmfCtxTypes
    <2>2. Accept(w, "create") /\ Request(w, "create", ctx, rpc[w].teid, rpc[w].imsi, 0)
      BY <1>6 DEF SmfCreateSession
    <2>3. "create" \in SmfOp
      BY DEF SmfOp
    <2>4. /\ smf_ctx' \in [GutiSet -> SmfContext] /\ n4req' \subseteq N4Req
          /\ rpc' \in [Worker -> RpcSlot] /\ calls' \in [Worker -> 0 .. MaxCalls]
          /\ exited' \subseteq Process
      <3> HIDE DEF ctx
      <3> QED BY <1>4, <2>1, <2>2, <2>3, RequestTypes
    <2> QED BY <1>1, <1>6, <2>4 DEF SmfCreateSession, LinksTypeOK, SmfTypeOK, AttachImsi
  <1>7. CASE SmfModifyBearer(w)
    <2> DEFINE ctx == smf_ctx[rpc[w].guti]
    <2>1. ctx.sgw \in TeidSet /\ ctx.dl \in TeidSet /\ "modify" \in SmfOp
      BY <1>5, SmfCtxTypes DEF SmfOp
    <2>2. Accept(w, "modify") /\ Request(w, "modify", ctx, ctx.sgw, 0, ctx.dl)
      BY <1>7 DEF SmfModifyBearer
    <2>3. /\ smf_ctx' \in [GutiSet -> SmfContext] /\ n4req' \subseteq N4Req
          /\ rpc' \in [Worker -> RpcSlot] /\ calls' \in [Worker -> 0 .. MaxCalls]
          /\ exited' \subseteq Process
      BY <1>5, <2>1, <2>2, RequestTypes
    <2> QED BY <1>1, <1>7, <2>3 DEF SmfModifyBearer, LinksTypeOK, SmfTypeOK, AttachImsi
  <1>8. CASE SmfDetach(w)
    <2> DEFINE ctx == smf_ctx[rpc[w].guti]
    <2>1. ctx.sgw \in TeidSet /\ "detach" \in SmfOp
      BY <1>5, SmfCtxTypes DEF SmfOp
    <2>2. Accept(w, "detach") /\ Request(w, "detach", ctx, ctx.sgw, 0, 0)
      BY <1>8 DEF SmfDetach
    <2>3. /\ smf_ctx' \in [GutiSet -> SmfContext] /\ n4req' \subseteq N4Req
          /\ rpc' \in [Worker -> RpcSlot] /\ calls' \in [Worker -> 0 .. MaxCalls]
          /\ exited' \subseteq Process
      BY <1>5, <2>1, <2>2, RequestTypes
    <2> QED BY <1>1, <1>8, <2>3 DEF SmfDetach, LinksTypeOK, SmfTypeOK, AttachImsi
  <1>9. CASE SmfRcv(w)
    <2>1. PICK r \in n4rsp : Finish(w, r) /\ n4rsp' = n4rsp \ {r}
      BY <1>9 DEF SmfRcv
    <2>2. r.teid \in TeidSet /\ r.ul \in TeidSet /\ r.ip \in ImsiSet /\ r.res \in BOOLEAN
      BY <1>1, <2>1 DEF LinksTypeOK, N4Rsp
    <2>3. smf_ctx' \in [GutiSet -> SmfContext] /\ rpc' \in [Worker -> RpcSlot]
      BY <2>1, <2>2, FinishTypes
    <2> QED BY <1>1, <1>9, <2>1, <2>3 DEF SmfRcv, LinksTypeOK, SmfTypeOK, AttachImsi
  <1> QED BY <1>1, <1>6, <1>7, <1>8, <1>9 DEF SmfHandler

LEMMA TimeoutTypes ==
    ASSUME TypeInv, NEW w \in Worker, TimeoutStep(w)
    PROVE  TypeInv'
PROOF
  <1>1. LinksTypeOK /\ SmfTypeOK /\ AttachImsi /\ SmfTimeout(w) /\ N4Timeout(w)
    BY DEF TypeInv, TypeOK, TimeoutStep, N4Timeout
  <1>2. RanTypeOK' /\ SctpTypeOK' /\ AmfTypeOK' /\ AusfTypeOK' /\ UpfTypeOK'
    BY DEF TypeInv, TypeOK, TimeoutStep, ranVars, sctpVars, amfVars, amfTables, amfLocals,
           ausfVars, upfVars, upfTables, RanTypeOK, SctpTypeOK, AmfTypeOK, AusfTypeOK, UpfTypeOK
  <1>3. losses' \in 0 .. MaxLoss /\ late' \in 0 .. MaxLate
    BY <1>1, CoreAssumption DEF N4Timeout, TypeInv, TypeOK
  <1> DEFINE pkt == [sock |-> SockOf(w), teid |-> 0, ip |-> 0, ul |-> 0, res |-> FALSE]
  <1>4. Finish(w, pkt)
    BY <1>1 DEF SmfTimeout
  <1>5. pkt.teid \in TeidSet /\ pkt.ul \in TeidSet /\ pkt.ip \in ImsiSet /\ pkt.res \in BOOLEAN
    BY IdentityTypes
  <1>6. smf_ctx' \in [GutiSet -> SmfContext] /\ rpc' \in [Worker -> RpcSlot]
    <2> HIDE DEF pkt
    <2> QED BY <1>4, <1>5, FinishTypes
  <1>7. LinksTypeOK' /\ SmfTypeOK' /\ AttachImsi'
    BY <1>1, <1>6 DEF SmfTimeout, LinksTypeOK, SmfTypeOK, AttachImsi
  <1> QED BY <1>2, <1>3, <1>7 DEF TypeInv, TypeOK

LEMMA LossTypes ==
    ASSUME TypeInv, LossStep
    PROVE  TypeInv'
PROOF
  <1>1. LinksTypeOK /\ N4Loss
    BY DEF TypeInv, TypeOK, LossStep
  <1>2. RanTypeOK' /\ SctpTypeOK' /\ AmfTypeOK' /\ AusfTypeOK' /\ SmfTypeOK' /\ UpfTypeOK'
    BY DEF TypeInv, TypeOK, LossStep, ranVars, sctpVars, amfVars, amfTables, amfLocals, ausfVars,
           smfVars, upfVars, upfTables, RanTypeOK, SctpTypeOK, AmfTypeOK, AusfTypeOK, SmfTypeOK,
           UpfTypeOK
  <1>3. losses' \in 0 .. MaxLoss /\ late' \in 0 .. MaxLate
    BY <1>1, CoreAssumption DEF N4Loss, TypeInv, TypeOK
  <1>4. n4req' \subseteq N4Req /\ n4rsp' \subseteq N4Rsp
    BY <1>1 DEF N4Loss, LinksTypeOK
  <1>5. LinksTypeOK' /\ AttachImsi'
    BY <1>1, <1>4 DEF N4Loss, LinksTypeOK, TypeInv, AttachImsi
  <1> QED BY <1>2, <1>3, <1>5 DEF TypeInv, TypeOK

\* The UPF stores well-formed contexts and responses.
LEMMA UpfCtxTypes ==
    ASSUME NEW x \in UpfContext
    PROVE  /\ NoUpfCtx \in UpfContext
           /\ \A i \in ImsiSet, t \in TeidSet :
                [x EXCEPT !.known = TRUE, !.ip = i, !.ul = t, !.smf = t, !.upf = t] \in UpfContext
           /\ \A t, u \in TeidSet :
                [x EXCEPT !.known = TRUE, !.ul = t, !.dl = u, !.enb = TRUE] \in UpfContext
           /\ x.ul \in TeidSet /\ x.upf \in TeidSet /\ x.dl \in TeidSet /\ x.ip \in ImsiSet
PROOF BY IdentityTypes DEF UpfContext, NoUpfCtx

LEMMA RespondTypes ==
    ASSUME TypeInv, NEW t \in UpfThread, NEW teid \in TeidSet, NEW ip \in ImsiSet,
           NEW ul \in TeidSet, Respond(t, teid, ip, ul)
    PROVE  n4rsp' \subseteq N4Rsp
PROOF
  <1>1. upf_pkt[t].sock \in Sock /\ n4rsp \subseteq N4Rsp
    BY DEF TypeInv, TypeOK, LinksTypeOK, UpfTypeOK, N4Req
  <1>2. [sock |-> upf_pkt[t].sock, teid |-> teid, ip |-> ip, ul |-> ul, res |-> TRUE] \in N4Rsp
    BY <1>1 DEF N4Rsp
  <1> QED BY <1>1, <1>2 DEF Respond

LEMMA UpfReturnTypes ==
    ASSUME TypeInv, NEW t \in UpfThread, UpfReturn(t)
    PROVE  /\ upf_pc' \in [UpfThread -> UpfPc] /\ upf_pkt' \in [UpfThread -> N4Req]
           /\ upf_imsi' \in [UpfThread -> ImsiSet] /\ upf_old' \in [UpfThread -> UpfContext]
PROOF
  <1>1. NoPkt \in N4Req
    BY IdentityTypes, LinksAssumption DEF NoPkt, N4Req, Sock, SmfOp
  <1>2. NoUpfCtx \in UpfContext
    BY IdentityTypes DEF NoUpfCtx, UpfContext
  <1> QED BY <1>1, <1>2, IdentityTypes
          DEF UpfReturn, UpfGoto, TypeInv, TypeOK, UpfTypeOK, UpfPc

LEMMA UpfTypes ==
    ASSUME TypeInv, NEW t \in UpfThread, UpfStep(t)
    PROVE  TypeInv'
PROOF
  <1> USE IdentityTypes
  <1>1. LinksTypeOK /\ UpfTypeOK /\ AttachImsi /\ N4Thread(t)
    BY DEF TypeInv, TypeOK, UpfStep
  <1>2. /\ RanTypeOK' /\ SctpTypeOK' /\ AmfTypeOK' /\ AusfTypeOK' /\ SmfTypeOK'
        /\ losses' \in 0 .. MaxLoss /\ late' \in 0 .. MaxLate
    BY DEF TypeInv, TypeOK, UpfStep, ranVars, sctpVars, amfVars, amfTables, amfLocals, ausfVars,
           smfVars, faultVars, RanTypeOK, SctpTypeOK, AmfTypeOK, AusfTypeOK, SmfTypeOK
  <1>3. SUFFICES LinksTypeOK' /\ UpfTypeOK' /\ AttachImsi'
    BY <1>2 DEF TypeInv, TypeOK
  <1>4. upf_pkt[t] \in N4Req /\ upf_pkt[t].teid \in TeidSet /\ upf_pkt[t].imsi \in ImsiSet
        /\ upf_pkt[t].dl \in TeidSet
    BY <1>1 DEF UpfTypeOK, N4Req
  <1>5. /\ upf_imsi[t] \in ImsiSet /\ upf_ctx[upf_imsi[t]] \in UpfContext
        /\ upf_ctx[upf_pkt[t].imsi] \in UpfContext
        /\ upf_old[t] \in UpfContext
    BY <1>1, <1>4 DEF UpfTypeOK
  <1>6. \A m \in n4req : m \in N4Req /\ m.teid \in TeidSet /\ m.imsi \in ImsiSet
    BY <1>1 DEF LinksTypeOK, N4Req
  <1>7. ASSUME NEW m \in n4req, CreateS11(t, m)
        PROVE  LinksTypeOK' /\ UpfTypeOK' /\ AttachImsi'
    BY <1>1, <1>6, <1>7 DEF CreateS11, RcvN4, UpfGoto, LinksTypeOK, UpfTypeOK, UpfPc, AttachImsi
  <1>8. ASSUME NEW m \in n4req, NEW op \in {"modify", "detach"}, Lookup(t, m, op)
        PROVE  LinksTypeOK' /\ UpfTypeOK' /\ AttachImsi'
    <2>1. s11_id[m.teid] \in ImsiSet
      BY <1>1, <1>6, <1>8 DEF UpfTypeOK
    <2>2. upf_pc' \in [UpfThread -> UpfPc] /\ exited' \subseteq Process
      BY <1>1, <1>8 DEF Lookup, UpfGoto, LinksTypeOK, UpfTypeOK, UpfPc, Process
    <2>3. upf_pkt' \in [UpfThread -> N4Req] /\ n4req' \subseteq N4Req
      BY <1>1, <1>6, <1>8 DEF Lookup, RcvN4, LinksTypeOK, UpfTypeOK
    <2>4. upf_imsi' \in [UpfThread -> ImsiSet]
      BY <1>1, <1>8, <2>1 DEF Lookup, UpfTypeOK
    <2> QED BY <1>1, <1>8, <2>2, <2>3, <2>4 DEF Lookup, LinksTypeOK, UpfTypeOK, upfTables, AttachImsi
  <1>9. CASE CreateS1(t)
    BY <1>1, <1>4, <1>9 DEF CreateS1, UpfGoto, LinksTypeOK, UpfTypeOK, UpfPc, linkVars, AttachImsi
  <1>10. CASE CreateSgi(t)
    BY <1>1, <1>4, <1>10
       DEF CreateSgi, UpfGoto, LinksTypeOK, UpfTypeOK, UpfPc, linkVars, AttachImsi, ip_addrs
  <1>11. CASE CreateCtx(t)
    <2> DEFINE teid == upf_pkt[t].teid
               imsi == upf_pkt[t].imsi
               x    == [upf_ctx[imsi] EXCEPT !.known = TRUE, !.ip = ip_addrs(imsi), !.ul = teid,
                                             !.smf = teid, !.upf = teid]
    <2>1. x \in UpfContext
      BY <1>4, <1>5, UpfCtxTypes DEF ip_addrs
    <2>2. upf_ctx' = [upf_ctx EXCEPT ![imsi] = x]
      BY <1>11 DEF CreateCtx
    <2>3. upf_ctx' \in [ImsiSet -> UpfContext]
      <3> HIDE DEF x
      <3> QED BY <1>1, <1>4, <2>1, <2>2 DEF UpfTypeOK
    <2>4. n4rsp' \subseteq N4Rsp
      BY <1>4, <1>11, RespondTypes DEF CreateCtx, ip_addrs
    <2> QED BY <1>1, <1>11, <2>3, <2>4, UpfReturnTypes DEF CreateCtx, LinksTypeOK, UpfTypeOK, AttachImsi
  <1>12. CASE ModifyCtx(t)
    <2> DEFINE imsi == upf_imsi[t]
    <2>1. PICK ul \in (IF upf_ctx[imsi].known THEN {upf_ctx[imsi].ul} ELSE TeidSet) :
            upf_ctx' = [upf_ctx EXCEPT ![imsi] =
                         [@ EXCEPT !.known = TRUE, !.ul = ul, !.dl = upf_pkt[t].dl, !.enb = TRUE]]
      BY <1>12 DEF ModifyCtx
    <2>2. ul \in TeidSet
      BY <1>5, <2>1, UpfCtxTypes
    <2> DEFINE x == [upf_ctx[imsi] EXCEPT !.known = TRUE, !.ul = ul, !.dl = upf_pkt[t].dl, !.enb = TRUE]
    <2>3. x \in UpfContext
      BY <1>4, <1>5, <2>2, UpfCtxTypes
    <2>4. upf_ctx' = [upf_ctx EXCEPT ![imsi] = x]
      BY <2>1
    <2>5. upf_ctx' \in [ImsiSet -> UpfContext]
      <3> HIDE DEF x
      <3> QED BY <1>1, <1>5, <2>3, <2>4 DEF UpfTypeOK
    <2>6. n4rsp' \subseteq N4Rsp
      BY <1>12, RespondTypes DEF ModifyCtx
    <2> QED BY <1>1, <1>12, <2>5, <2>6, UpfReturnTypes DEF ModifyCtx, LinksTypeOK, UpfTypeOK, AttachImsi
  <1>13. CASE DetachCtx(t)
    <2>1. CASE ~ upf_ctx[upf_imsi[t]].known
      BY <1>1, <1>13, <2>1 DEF DetachCtx, LinksTypeOK, UpfTypeOK, upfTables, AttachImsi, Process
    <2>2. CASE upf_ctx[upf_imsi[t]].known
      <3>1. n4rsp' \subseteq N4Rsp
        BY <1>13, <2>2, RespondTypes DEF DetachCtx
      <3> QED BY <1>1, <1>5, <1>13, <2>2, <3>1
              DEF DetachCtx, UpfGoto, UpfPc, LinksTypeOK, UpfTypeOK, upfTables, AttachImsi
    <2> QED BY <2>1, <2>2
  <1>14. CASE RemS11(t)
    BY <1>1, <1>5, <1>14, UpfCtxTypes
       DEF RemS11, UpfGoto, LinksTypeOK, UpfTypeOK, UpfPc, linkVars, AttachImsi
  <1>15. CASE RemS1(t)
    BY <1>1, <1>5, <1>15, UpfCtxTypes
       DEF RemS1, UpfGoto, LinksTypeOK, UpfTypeOK, UpfPc, linkVars, AttachImsi
  <1>16. CASE RemSgi(t)
    BY <1>1, <1>5, <1>16, UpfCtxTypes
       DEF RemSgi, UpfGoto, LinksTypeOK, UpfTypeOK, UpfPc, linkVars, AttachImsi
  <1>17. CASE RemCtx(t)
    <2>1. upf_ctx' \in [ImsiSet -> UpfContext]
      BY <1>1, <1>5, <1>17, UpfCtxTypes DEF RemCtx, UpfTypeOK
    <2> QED BY <1>1, <1>17, <2>1, UpfReturnTypes DEF RemCtx, LinksTypeOK, UpfTypeOK, linkVars, AttachImsi
  <1> QED BY <1>1, <1>7, <1>8, <1>9, <1>10, <1>11, <1>12, <1>13, <1>14, <1>15, <1>16, <1>17
          DEF N4Thread, LookupModify, LookupDetach

LEMMA StutterTypes ==
    ASSUME TypeInv, UNCHANGED vars
    PROVE  TypeInv'
PROOF BY DEF TypeInv, TypeOK, AttachImsi, vars, linkVars, ranVars, sctpVars, amfVars, amfTables,
             amfLocals, ausfVars, smfVars, upfVars, upfTables, faultVars, LinksTypeOK, RanTypeOK,
             SctpTypeOK, AmfTypeOK, AusfTypeOK, SmfTypeOK, UpfTypeOK

LEMMA NextTypes ==
    ASSUME TypeInv, [Next]_vars
    PROVE  TypeInv'
PROOF
  <1>1. CASE RestartStep
    BY <1>1, RestartTypes
  <1>2. CASE LossStep
    BY <1>2, LossTypes
  <1>3. ASSUME NEW c \in Conn, RanStep(c) \/ AcceptStep(c)
        PROVE  TypeInv'
    BY <1>3, RanTypes, AcceptTypes
  <1>4. ASSUME NEW w \in Worker,
               AmfStep(w) \/ RpcFailStep(w) \/ AusfStep(w) \/ SmfStep(w) \/ TimeoutStep(w)
        PROVE  TypeInv'
    BY <1>4, AmfTypes, RpcFailTypes, AusfTypes, SmfTypes, TimeoutTypes
  <1>5. ASSUME NEW t \in UpfThread, UpfStep(t)
        PROVE  TypeInv'
    BY <1>5, UpfTypes
  <1>6. CASE UNCHANGED vars
    BY <1>6, StutterTypes
  <1> QED BY <1>1, <1>2, <1>3, <1>4, <1>5, <1>6 DEF Next

LEMMA InitTypes == Init => TypeInv
PROOF
  <1>1. Init => AttachImsi
    BY DEF Init, LinksInit, AttachImsi
  <1> QED BY <1>1, InitTypeOK DEF TypeInv

\* Type correctness: whatever the number of UEs, runs, workers, threads and
\* faults, every table, packet, call and datagram stays well-formed; so no
\* handler indexes a table with anything but an identifier of a known UE or zero.
THEOREM TypeCorrect == Spec => []TypeOK
PROOF
  <1>1. Init => TypeInv
    BY InitTypes
  <1>2. TypeInv /\ [Next]_vars => TypeInv'
    BY NextTypes
  <1>3. TypeInv => TypeOK
    BY DEF TypeInv
  <1> QED BY <1>1, <1>2, <1>3, PTL DEF Spec
=============================================================================
