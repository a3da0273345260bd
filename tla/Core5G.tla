------------------------------- MODULE Core5G -------------------------------
(***************************************************************************)
(* The control plane of the core: RAN simulator, AMF, AUSF, SMF and UPF    *)
(* working together from the attach of a UE to its detach.                 *)
(***************************************************************************)
EXTENDS Ran, Amf, Ausf, Smf, Upf

CONSTANTS
    MaxLoss,  \* bound on the N4 datagrams the network loses
    MaxLate   \* bound on the time-outs whose response was still to come

ASSUME CoreAssumption == MaxLoss \in Nat /\ MaxLate \in Nat

VARIABLES losses, late

faultVars == <<losses, late>>
vars == <<linkVars, ranVars, sctpVars, amfVars, ausfVars, smfVars, upfVars, faultVars>>

Init ==
    /\ LinksInit /\ RanInit /\ SctpInit /\ AmfInit /\ AusfInit /\ SmfInit /\ UpfInit
    /\ losses = 0 /\ late = 0

-----------------------------------------------------------------------------
\* The network loses a datagram of either direction.
N4Loss ==
    /\ losses < MaxLoss
    /\ losses' = losses + 1
    /\ \/ /\ \E m \in n4req : n4req' = n4req \ {m}
          /\ UNCHANGED n4rsp
       \/ /\ \E r \in n4rsp : n4rsp' = n4rsp \ {r}
          /\ UNCHANGED n4req
    /\ UNCHANGED <<up, down, conn, rpc, calls, exited, late>>

\* The response to socket s can still come.
Coming(s) ==
    /\ "upf" \notin exited
    /\ \/ \E m \in n4req : m.sock = s
       \/ \E t \in UpfThread : /\ upf_pkt[t].sock = s
                               /\ upf_pc[t] \in {"create_s1", "create_sgi", "create_ctx",
                                                 "modify", "detach"}

\* The SMF gives up: because nothing will come, or because the UPF is slow.
N4Timeout(w) ==
    /\ SmfTimeout(w)
    /\ IF Coming(SockOf(w))
       THEN late < MaxLate /\ late' = late + 1
       ELSE late' = late
    /\ UNCHANGED losses

RanStep(c)    == RanThread(c) /\ UNCHANGED <<sctpVars, amfVars, ausfVars, smfVars, upfVars, faultVars>>
RestartStep   == RanRestart /\ UNCHANGED <<sctpVars, amfVars, ausfVars, smfVars, upfVars, faultVars>>
AcceptStep(c) == accept_clients(c) /\ UNCHANGED <<ranVars, amfVars, ausfVars, smfVars, upfVars, faultVars>>
AmfStep(w)    == AmfWorker(w) /\ UNCHANGED <<ranVars, ausfVars, smfVars, upfVars, faultVars>>
RpcFailStep(w) == RpcFail(w) /\ UNCHANGED <<ranVars, ausfVars, smfVars, upfVars, faultVars>>
AusfStep(w)   == AusfServer(w) /\ UNCHANGED <<ranVars, sctpVars, amfVars, smfVars, upfVars, faultVars>>
SmfStep(w)    == SmfHandler(w) /\ UNCHANGED <<ranVars, sctpVars, amfVars, ausfVars, upfVars, faultVars>>
TimeoutStep(w) == N4Timeout(w) /\ UNCHANGED <<ranVars, sctpVars, amfVars, ausfVars, upfVars>>
UpfStep(t)    == N4Thread(t) /\ UNCHANGED <<ranVars, sctpVars, amfVars, ausfVars, smfVars, faultVars>>
LossStep      == N4Loss /\ UNCHANGED <<ranVars, sctpVars, amfVars, ausfVars, smfVars, upfVars>>

Next ==
    \/ RestartStep
    \/ LossStep
    \/ \E c \in Conn : RanStep(c) \/ AcceptStep(c)
    \/ \E w \in Worker : AmfStep(w) \/ RpcFailStep(w) \/ AusfStep(w) \/ SmfStep(w) \/ TimeoutStep(w)
    \/ \E t \in UpfThread : UpfStep(t)

Spec == Init /\ [][Next]_vars

TypeOK ==
    /\ LinksTypeOK /\ RanTypeOK /\ SctpTypeOK /\ AmfTypeOK
    /\ AusfTypeOK /\ SmfTypeOK /\ UpfTypeOK
    /\ losses \in 0 .. MaxLoss /\ late \in 0 .. MaxLate

-----------------------------------------------------------------------------
(***************************************************************************)
(* Safety.                                                                 *)
(***************************************************************************)

\* No network function leaves through handle_type1_error.  The handlers of the
\* AMF do when an identifier has no guti, those of the UPF when a tunnel has
\* no IMSI or an IMSI no context: other UEs are then cut off as well.
NoExit == exited = {}

\* No handler of the AMF finds a zero guti (amf.cpp, "Zero guti: ...").
NoAmfExit == "amf" \notin exited

\* No handler of the UPF finds a zero imsi or a missing context (upf.cpp,
\* "Zero imsi: ...", "No uectx: ...").
NoUpfExit == "upf" \notin exited

\* Identifier id is in the AMF's table for the UE of connection c.
Mapped(c, id) ==
    /\ id \in 1 .. ue_count
    /\ s1amf_id[id] = Guti(UeOf(c))

\* A packet that the AMF has still to read carries an identifier that leads
\* to the guti of the UE that sent it, although the AMF removes identifiers
\* while the UE goes on and the simulator may be restarted (get_guti()).
IdsResolve ==
    \A c \in Conn : \A i \in 1 .. Len(up[c]) :
        up[c][i].type # 1 => Mapped(c, up[c][i].id)

\* What a UE thread waits for at each step of simulate().
Expected(pc) ==
    CASE pc = "autn" -> 1 [] pc = "security" -> 2 [] pc = "session" -> 3
      [] pc = "detach" -> 5 [] OTHER -> 0

\* The methods of Ran take the next packet without looking at its type; it is
\* always the one answer to the request they sent.
AnswersInStep ==
    \A c \in Conn : down[c] # <<>> =>
        /\ Len(down[c]) = 1
        /\ Head(down[c]).type = Expected(ran_pc[c])

\* The session of a UE: everything the UPF has to know of it is in its tables.
InUpf(n) ==
    /\ s11_id[Teid(n)] = Imsi(n)
    /\ s1_id[Teid(n)] = Imsi(n)
    /\ sgi_id[ip_addrs(Imsi(n))] = Imsi(n)
    /\ upf_ctx[Imsi(n)].known

\* While a UE transfers data, RAN, AMF, SMF and UPF agree on its session,
\* whatever the other UEs are doing.
SessionAgreed ==
    \A c \in Conn : ran_pc[c] = "data" =>
        LET n == UeOf(c) IN
        /\ InUpf(n)
        /\ ran_ctx[c].ul = upf_ctx[Imsi(n)].ul
        /\ ran_ctx[c].ip = ip_addrs(Imsi(n))
        /\ uplink_info[ran_ctx[c].ip] = ran_ctx[c].ul
        /\ ue_ctx[Guti(n)].ul = ran_ctx[c].ul
        /\ smf_ctx[Guti(n)].sgw = upf_ctx[Imsi(n)].upf

\* Once the AMF holds a UE as connected and the UE transfers data, the UPF
\* forwards downlink packets for its address (get_downlink_info()).
DownlinkForwarded ==
    \A c \in Conn :
        /\ ran_pc[c] = "data"
        /\ ue_ctx[Guti(UeOf(c))].ecm_state = 1
        => handle_downlink_udata(ran_ctx[c].ip).forwarded

\* Nothing is under way in the core.
Quiet ==
    /\ \A w \in Worker : amf_pc[w] = "idle"
    /\ \A t \in UpfThread : upf_pc[t] = "idle"
    /\ \A c \in Conn : up[c] = <<>>
    /\ n4req = {}

\* When every UE has detached and nothing is under way, AMF and UPF have
\* forgotten all of them.
NothingLeft ==
    (Quiet /\ \A c \in Conn : ran_pc[c] \in {"start", "loop"}) =>
        /\ \A i \in MmeId : s1amf_id[i] = 0
        /\ \A g \in GutiSet : ~ ue_ctx[g].known
        /\ \A i \in TeidSet : s11_id[i] = 0 /\ s1_id[i] = 0
        /\ \A i \in ImsiSet : sgi_id[i] = 0 /\ ~ upf_ctx[i].known

\* A remote call of a worker is about the UE whose packet it handles: the
\* context it read the IMSI from was not removed and made again meanwhile.
ImsiOfCaller ==
    \A w \in Worker : rpc[w].op \in {"autn", "loc", "create"} =>
        rpc[w].imsi = Imsi(UeOf(amf_conn[w]))

\* ... and a session the SMF reports to the AMF as created is in the UPF's
\* tables for that UE.
CreatedMeansStored ==
    ImsiOfCaller /\ \A w \in Worker :
        (rpc[w].st = "rep" /\ rpc[w].op = "create" /\ rpc[w].res) => InUpf(UeOf(amf_conn[w]))

\* With one N4 thread a detach takes the session of the UE that asked for it
\* out of the UPF's tables, never that of another UE, nor the one with which
\* the UE transfers data after it has attached again.  (With two threads it
\* may: see UpfReattach.)
OwnSessionOnly ==
    [][\A i \in TeidSet : (s11_id[i] # 0 /\ s11_id'[i] = 0) =>
        \E c \in Conn : /\ Imsi(UeOf(c)) = s11_id[i]
                        /\ ran_pc[c] \notin {"start", "data"}]_vars

-----------------------------------------------------------------------------
(***************************************************************************)
(* Why the identifiers resolve.  A UE thread and the worker that serves    *)
(* its connection hold a conversation in which only one of them has the    *)
(* next word; the one exception is the detach request, which the thread    *)
(* sends without waiting for an answer to its attach complete.             *)
(***************************************************************************)

\* Worker w handles a packet of connection c.
Busy(w, c) == amf_pc[w] # "idle" /\ amf_conn[w] = c

NoUp(c)      == Len(up[c]) = 0
OneUp(c, t)  == Len(up[c]) = 1 /\ up[c][1].type = t
TwoUp(c)     == Len(up[c]) = 2 /\ up[c][1].type = 4 /\ up[c][2].type = 5
NoDown(c)    == Len(down[c]) = 0

\* What is on its way to the AMF, by the step the UE thread is at.
RanTurn(c) ==
    /\ conn[c] = "open" <=> ran_pc[c] \notin {"start", "dead"}
    /\ ran_pc[c] \in {"start", "loop"} => NoUp(c)
    /\ ran_pc[c] \in {"autn", "security", "session"} =>
        NoUp(c) \/ (OneUp(c, Expected(ran_pc[c])) /\ NoDown(c))
    /\ ran_pc[c] = "data" => NoUp(c) \/ OneUp(c, 4)
    /\ ran_pc[c] = "detach" => NoUp(c) \/ ((OneUp(c, 5) \/ TwoUp(c)) /\ NoDown(c))
    /\ ran_pc[c] = "dead" => NoUp(c) \/ TwoUp(c) \/ \E t \in 1 .. 5 : OneUp(c, t)

\* What the UE thread of c may be doing, by the step the worker is at.
WorkerTurn(w, c) ==
    /\ amf_pc[w] \in {"attach_init", "attach_autn"} =>
        NoUp(c) /\ NoDown(c) /\ ran_pc[c] \in {"autn", "dead"}
    /\ amf_pc[w] \in {"location", "create"} =>
        NoUp(c) /\ NoDown(c) /\ ran_pc[c] \in {"session", "dead"}
    /\ amf_pc[w] \in {"bearer", "modify"} =>
        /\ NoDown(c)
        /\ \/ ran_pc[c] \in {"data", "dead"} /\ NoUp(c)
           \/ ran_pc[c] \in {"detach", "dead"} /\ OneUp(c, 5)
    /\ amf_pc[w] = "detach" =>
        NoUp(c) /\ NoDown(c) /\ ran_pc[c] \in {"detach", "dead"}
    /\ amf_pc[w] \in {"rem_itfid", "rem_uectx"} =>
        \/ ran_pc[c] = "detach" /\ NoUp(c) /\ ~ NoDown(c)
        \/ ran_pc[c] \in {"loop", "dead"} /\ NoUp(c) /\ NoDown(c)
        \/ ran_pc[c] \in {"autn", "dead"} /\ OneUp(c, 1) /\ NoDown(c)

\* Identifier i is in use by connection c: a packet, the UE thread or the
\* worker will still look it up.
Uses(c, i) ==
    \/ \E k \in 1 .. Len(up[c]) : up[c][k].type # 1 /\ up[c][k].id = i
    \/ ran_pc[c] \in {"security", "session", "data"} /\ ran_ctx[c].mme_id = i
    \/ ran_pc[c] = "autn" /\ ~ NoDown(c) /\ down[c][1].id = i
    \/ \E w \in Worker : Busy(w, c) /\ amf_pc[w] # "rem_uectx" /\ amf_id[w] = i

\* A UE is served by the worker that owns its connection, the two take turns,
\* and an identifier in use is in the table for that UE and in use by no other
\* connection, be it of another UE or of an earlier run of the simulator.
Conversation ==
    /\ \A c \in Conn : RanTurn(c)
    /\ \A w \in Worker, c \in Conn : Busy(w, c) => owner[c] = w /\ WorkerTurn(w, c)

OwnIds ==
    /\ \A c \in Conn, i \in MmeId : Uses(c, i) => Mapped(c, i)
    /\ \A c, d \in Conn, i \in MmeId : (Uses(c, i) /\ Uses(d, i)) => c = d

\* An attach request carries the IMSI of the UE.
AttachImsi ==
    \A c \in Conn : \A k \in 1 .. Len(up[c]) :
        up[c][k].type = 1 => up[c][k].imsi = Imsi(UeOf(c))

\* The inductive invariant behind NoAmfExit, IdsResolve and AnswersInStep.
IdInv == TypeOK /\ NoAmfExit /\ AnswersInStep /\ Conversation /\ OwnIds /\ AttachImsi

-----------------------------------------------------------------------------
(***************************************************************************)
(* Liveness, without faults: every thread that can go on does.  A UE       *)
(* thread need not begin another attach.                                   *)
(***************************************************************************)
RanGoesOn(c) == RanStep(c) /\ rounds' = rounds

FairSpec ==
    /\ Spec
    /\ \A c \in Conn : WF_vars(RanGoesOn(c)) /\ WF_vars(AcceptStep(c))
    /\ \A w \in Worker : WF_vars(AmfStep(w)) /\ WF_vars(AusfStep(w))
                         /\ WF_vars(SmfStep(w)) /\ WF_vars(TimeoutStep(w))
    /\ \A t \in UpfThread : WF_vars(UpfStep(t))

\* A UE that asks to attach gets its session.
AttachCompletes == \A c \in Conn : ran_pc[c] = "autn" ~> ran_pc[c] = "data"

\* A UE that asks to detach gets its answer.
DetachCompletes == \A c \in Conn : ran_pc[c] = "detach" ~> ran_pc[c] = "loop"
=============================================================================
