----------------------------- MODULE DataPlane -----------------------------
(***************************************************************************)
(* The user plane: the traffic monitor of the RAN simulator (ran.cpp), the *)
(* N3 and SGi threads of the UPF (upf.cpp, upf_server.cpp) and the sink    *)
(* (sink.cpp, sink_server.cpp).  A packet goes from the UE's tun device to *)
(* the application behind the sink, and the answer goes back, while the N4 *)
(* threads of the UPF create and remove the session the forwarding tables  *)
(* describe, one critical section at a time.  What RAN, AMF and SMF do     *)
(* between two requests to the UPF is in their modules; here the requests  *)
(* come in their order, the next one after the answer to the last.         *)
(***************************************************************************)
EXTENDS Naturals, FiniteSets

CONSTANTS
    UE,          \* numbers of the UEs; UE n has address, IMSI and tunnel n
    N4Thread,    \* the threads of handle_s11_traffic
    MaxSession,  \* bound on the sessions
    MaxPkt,      \* bound on the packets of a UE under way at once
    MaxLoss      \* bound on the datagrams lost

ASSUME DataPlaneAssumption ==
    /\ UE \subseteq Nat \ {0}
    /\ {MaxSession, MaxPkt, MaxLoss} \subseteq Nat

Pkt      == UE \X (1 .. MaxPkt)
Ip(p)    == p[1]      \* the address of the UE in the IP header
Unset    == 0         \* of a table: no entry; of a field: never assigned
enodeb   == 1         \* address and port of the RAN's traffic monitor

VARIABLES
    uplink_info,  \* TrafficMonitor: ip -> s1_uteid_ul
    s11_id,       \* Upf: s11_cteid_upf -> imsi
    sgi_id,       \* Upf: ip -> imsi
    ue_ctx,       \* Upf: imsi -> UeContext, as far as this module reads it
    sess,         \* how far the control plane is with the session of the UE
    job,          \* job[t]: the handler of N4 thread t: whose, where, and its ue_ip_addr
    exited,       \* handle_type1_error() has ended the UPF
    sessions,
    overlapped,   \* history: the UE came back while handle_detach() was still removing it
    at,           \* at[p]: the queue that holds p, or the thread's place in it
    hdr,          \* hdr[p]: tunnel and destination of the GTP datagram
    lost

tables    == <<uplink_info, s11_id, sgi_id, ue_ctx, sess, job, exited, sessions,
               overlapped>>
packets   == <<at, hdr, lost>>
planeVars == <<tables, packets>>

\* Datagrams in a socket's queue, which UDP may lose.
Datagram == {"s1", "sgi", "sgidn", "s1dn"}
Place    == {"none", "tun", "app", "echo", "found", "rcvd", "dropped"} \cup Datagram
Session  == {"none", "creating", "ctx", "accepted", "modifying", "active", "detaching"}
Handler  == {"idle", "sgi", "ctx", "bearer", "answer", "rem11", "rem0", "remctx"}

NoCtx    == [known |-> FALSE, ip |-> Unset, s1_uteid_dl |-> Unset, enb |-> Unset]
Idle     == [ue |-> Unset, pc |-> "idle", ip |-> Unset]
NoHdr    == [teid |-> Unset, dst |-> Unset]

PlaneTypeOK ==
    /\ uplink_info \in [UE -> UE \cup {Unset}]
    /\ s11_id \in [UE -> UE \cup {Unset}] /\ sgi_id \in [UE -> UE \cup {Unset}]
    /\ ue_ctx \in [UE -> [known : BOOLEAN, ip : UE \cup {Unset}, s1_uteid_dl : UE \cup {Unset},
                         enb : {Unset, enodeb}]]
    /\ sess \in [UE -> Session]
    /\ job \in [N4Thread -> [ue : UE \cup {Unset}, pc : Handler, ip : UE \cup {Unset}]]
    /\ exited \in BOOLEAN /\ sessions \in 0 .. MaxSession /\ overlapped \in [UE -> BOOLEAN]
    /\ at \in [Pkt -> Place]
    /\ hdr \in [Pkt -> [teid : UE \cup {Unset}, dst : {Unset, enodeb}]]
    /\ lost \in 0 .. MaxLoss

PlaneInit ==
    /\ uplink_info = [n \in UE |-> Unset]
    /\ s11_id = [n \in UE |-> Unset]
    /\ sgi_id = [n \in UE |-> Unset]
    /\ ue_ctx = [n \in UE |-> NoCtx]
    /\ sess = [n \in UE |-> "none"]
    /\ job = [t \in N4Thread |-> Idle]
    /\ exited = FALSE
    /\ sessions = 0
    /\ overlapped = [n \in UE |-> FALSE]
    /\ at = [p \in Pkt |-> "none"]
    /\ hdr = [p \in Pkt |-> NoHdr]
    /\ lost = 0

Becomes(n, s) == sess' = [sess EXCEPT ![n] = s]
Put(p, q)     == at' = [at EXCEPT ![p] = q]

Busy(t, n)    == job[t].pc # "idle" /\ job[t].ue = n
At(t, l)      == ~ exited /\ job[t].pc = l
StepTo(t, l)  == job' = [job EXCEPT ![t].pc = l]
Done(t)       == job' = [job EXCEPT ![t] = Idle]

-----------------------------------------------------------------------------
(***************************************************************************)
(* The N4 threads: a request of the SMF is taken by any thread that waits. *)
(***************************************************************************)
Take(t, n, l) == job' = [job EXCEPT ![t] = [ue |-> n, pc |-> l, ip |-> Unset]]

\* handle_create_session(): update_itfid(11), ...
handle_create_session(t, n) ==
    /\ At(t, "idle") /\ sess[n] = "none" /\ sessions < MaxSession
    /\ sessions' = sessions + 1
    /\ s11_id' = [s11_id EXCEPT ![n] = n]
    /\ overlapped' = [overlapped EXCEPT ![n] = @ \/ \E u \in N4Thread : Busy(u, n)]
    /\ Take(t, n, "sgi") /\ Becomes(n, "creating")
    /\ UNCHANGED <<uplink_info, sgi_id, ue_ctx, exited, packets>>

\* Mutant of CreateSgi: the address of the UE is not entered.
CreateSgiSkip(t) ==
    /\ At(t, "sgi")
    /\ StepTo(t, "ctx")
    /\ UNCHANGED <<uplink_info, s11_id, sgi_id, ue_ctx, sess, exited, sessions, overlapped, packets>>

\* ... update_itfid(0), ...
CreateSgi(t) ==
    /\ At(t, "sgi")
    /\ sgi_id' = [sgi_id EXCEPT ![job[t].ue] = job[t].ue]
    /\ StepTo(t, "ctx")
    /\ UNCHANGED <<uplink_info, s11_id, ue_ctx, sess, exited, sessions, overlapped, packets>>

\* ... and the context, of which init() does not touch the downlink fields.
CreateCtx(t) ==
    /\ At(t, "ctx")
    /\ LET n == job[t].ue
       IN  /\ ue_ctx' = [ue_ctx EXCEPT ![n] = [@ EXCEPT !.known = TRUE, !.ip = n]]
           /\ Becomes(n, "ctx")
    /\ Done(t)
    /\ UNCHANGED <<uplink_info, s11_id, sgi_id, exited, sessions, overlapped, packets>>

\* set_eps_session(): the RAN knows the tunnel before the UPF knows the RAN.
update_uplink_info(n) ==
    /\ sess[n] = "ctx"
    /\ uplink_info' = [uplink_info EXCEPT ![n] = n]
    /\ Becomes(n, "accepted")
    /\ UNCHANGED <<s11_id, sgi_id, ue_ctx, job, exited, sessions, overlapped, packets>>

\* An identifier without a UE ends the UPF.
handle_modify_bearer(t, n) ==
    /\ At(t, "idle") /\ sess[n] = "accepted"
    /\ IF s11_id[n] = Unset
       THEN exited' = TRUE /\ UNCHANGED <<job, sess>>
       ELSE Take(t, n, "bearer") /\ Becomes(n, "modifying") /\ UNCHANGED exited
    /\ UNCHANGED <<uplink_info, s11_id, sgi_id, ue_ctx, sessions, overlapped, packets>>

\* The SMF sends the s1_uteid_dl of its own context (smf.cpp:372), not the RAN's;
\* its constructor sets that to 0 (smf.cpp:147) and nothing else assigns it.
\* A context that is not there is inserted.
StoreBearer(t) ==
    /\ At(t, "bearer")
    /\ LET n == job[t].ue
       IN  /\ ue_ctx' = [ue_ctx EXCEPT ![n] = [known |-> TRUE, ip |-> @.ip, s1_uteid_dl |-> Unset,
                                              enb |-> enodeb]]
           /\ Becomes(n, "active")
    /\ Done(t)
    /\ UNCHANGED <<uplink_info, s11_id, sgi_id, exited, sessions, overlapped, packets>>

handle_detach(t, n) ==
    /\ At(t, "idle") /\ sess[n] = "active"
    /\ IF s11_id[n] = Unset
       THEN exited' = TRUE /\ UNCHANGED <<job, sess>>
       ELSE Take(t, n, "answer") /\ Becomes(n, "detaching") /\ UNCHANGED exited
    /\ UNCHANGED <<uplink_info, s11_id, sgi_id, ue_ctx, sessions, overlapped, packets>>

\* The context is read and the SMF answered, before anything is removed: from
\* here on the UE may attach again, in another thread.
AnswerDetach(t) ==
    /\ At(t, "answer")
    /\ LET n == job[t].ue
       IN  IF ue_ctx[n].known
           THEN /\ job' = [job EXCEPT ![t] = [ue |-> n, pc |-> "rem11", ip |-> ue_ctx[n].ip]]
                /\ Becomes(n, "none") /\ UNCHANGED exited
           ELSE exited' = TRUE /\ UNCHANGED <<job, sess>>
    /\ UNCHANGED <<uplink_info, s11_id, sgi_id, ue_ctx, sessions, overlapped, packets>>

\* The RAN keeps its uplink_info.
RemS11(t) ==
    /\ At(t, "rem11")
    /\ s11_id' = [s11_id EXCEPT ![job[t].ue] = Unset]
    /\ StepTo(t, "rem0")
    /\ UNCHANGED <<uplink_info, sgi_id, ue_ctx, sess, exited, sessions, overlapped, packets>>

\* By the address that the context had.
RemSgi(t) ==
    /\ At(t, "rem0")
    /\ sgi_id' = [n \in UE |-> IF n = job[t].ip THEN Unset ELSE sgi_id[n]]
    /\ StepTo(t, "remctx")
    /\ UNCHANGED <<uplink_info, s11_id, ue_ctx, sess, exited, sessions, overlapped, packets>>

rem_uectx(t) ==
    /\ At(t, "remctx")
    /\ ue_ctx' = [ue_ctx EXCEPT ![job[t].ue] = NoCtx]
    /\ Done(t)
    /\ UNCHANGED <<uplink_info, s11_id, sgi_id, sess, exited, sessions, overlapped, packets>>

-----------------------------------------------------------------------------
(***************************************************************************)
(* The RAN's traffic monitor.                                              *)
(***************************************************************************)
\* The application of the UE (transfer_data) writes a packet, after the
\* attach; the kernel routes it to the tun device.
transfer_data(p) ==
    /\ at[p] \in {"none", "rcvd"}
    /\ sess[Ip(p)] \in {"accepted", "active"}
    /\ Put(p, "tun")
    /\ hdr' = [hdr EXCEPT ![p] = NoHdr]
    /\ UNCHANGED <<tables, lost>>

RanUplink(p) ==
    /\ at[p] = "tun"
    /\ IF uplink_info[Ip(p)] # Unset
       THEN /\ hdr' = [hdr EXCEPT ![p].teid = uplink_info[Ip(p)]]
            /\ Put(p, "s1")
       ELSE Put(p, "dropped") /\ UNCHANGED hdr
    /\ UNCHANGED <<tables, lost>>

\* The tunnel of the datagram is not looked at.
RanDownlink(p) ==
    /\ at[p] = "s1dn"
    /\ Put(p, "rcvd")
    /\ UNCHANGED <<tables, hdr, lost>>

-----------------------------------------------------------------------------
(***************************************************************************)
(* The UPF: threads of the N3 socket and threads of the SGi socket.        *)
(***************************************************************************)
\* Upf::handle_uplink_udata(): the tunnel of the datagram is not looked up.
UpfUplink(p) ==
    /\ ~ exited /\ at[p] = "s1"
    /\ Put(p, "sgi")
    /\ hdr' = [hdr EXCEPT ![p] = NoHdr]
    /\ UNCHANGED <<tables, lost>>

\* Upf::handle_downlink_udata(): the IMSI of the destination address ...
get_imsi(p) ==
    /\ ~ exited /\ at[p] = "sgidn"
    /\ Put(p, IF sgi_id[Ip(p)] = Unset THEN "dropped" ELSE "found")
    /\ UNCHANGED <<tables, hdr, lost>>

\* Mutant of get_downlink_info: the port is not compared with zero.
AnyPort(p) ==
    /\ ~ exited /\ at[p] = "found"
    /\ LET ctx == ue_ctx[Ip(p)]
       IN  IF ctx.known
           THEN /\ hdr' = [hdr EXCEPT ![p] = [teid |-> ctx.s1_uteid_dl, dst |-> ctx.enb]]
                /\ Put(p, "s1dn")
           ELSE Put(p, "dropped") /\ UNCHANGED hdr
    /\ UNCHANGED <<tables, lost>>

\* Mutant of get_downlink_info: operator[] without find() inserts a context.
LookupInserts(p) ==
    /\ ~ exited /\ at[p] = "found"
    /\ ue_ctx' = [ue_ctx EXCEPT ![Ip(p)].known = TRUE]
    /\ LET ctx == ue_ctx[Ip(p)]
       IN  IF ctx.enb # Unset
           THEN /\ hdr' = [hdr EXCEPT ![p] = [teid |-> ctx.s1_uteid_dl, dst |-> ctx.enb]]
                /\ Put(p, "s1dn")
           ELSE Put(p, "dropped") /\ UNCHANGED hdr
    /\ UNCHANGED <<uplink_info, s11_id, sgi_id, sess, job, exited, sessions, overlapped, lost>>

\* ... and later, in another critical section, what its context says.
get_downlink_info(p) ==
    /\ ~ exited /\ at[p] = "found"
    /\ LET ctx == ue_ctx[Ip(p)]
       IN  IF ctx.known /\ ctx.enb # Unset
           THEN /\ hdr' = [hdr EXCEPT ![p] = [teid |-> ctx.s1_uteid_dl, dst |-> ctx.enb]]
                /\ Put(p, "s1dn")
           ELSE Put(p, "dropped") /\ UNCHANGED hdr
    /\ UNCHANGED <<tables, lost>>

-----------------------------------------------------------------------------
(***************************************************************************)
(* The sink: one thread waits for both of its descriptors with select().   *)
(***************************************************************************)
ServerReady == \E p \in Pkt : at[p] = "sgi"

SinkUplink ==
    /\ \E p \in Pkt : at[p] = "sgi" /\ Put(p, "app")
    /\ UNCHANGED <<tables, hdr, lost>>

\* The tun device is served only when the socket has nothing.
SinkDownlink ==
    /\ ~ServerReady
    /\ \E p \in Pkt : at[p] = "echo" /\ Put(p, "sgidn")
    /\ UNCHANGED <<tables, hdr, lost>>

traffic_monitor == SinkUplink \/ SinkDownlink

\* The application behind the sink (iperf3) answers.
Reply(p) ==
    /\ at[p] = "app"
    /\ Put(p, "echo")
    /\ UNCHANGED <<tables, hdr, lost>>

\* The network, or a full socket, loses a datagram.
Lose(p) ==
    /\ lost < MaxLoss
    /\ at[p] \in Datagram
    /\ lost' = lost + 1
    /\ Put(p, "dropped")
    /\ UNCHANGED <<tables, hdr>>

-----------------------------------------------------------------------------
N4Step(t) ==
    \/ \E n \in UE : handle_create_session(t, n) \/ handle_modify_bearer(t, n) \/ handle_detach(t, n)
    \/ CreateSgi(t) \/ CreateCtx(t) \/ StoreBearer(t)
    \/ AnswerDetach(t) \/ RemS11(t) \/ RemSgi(t) \/ rem_uectx(t)

Forward(p) ==
    \/ RanUplink(p) \/ RanDownlink(p) \/ UpfUplink(p) \/ get_imsi(p) \/ get_downlink_info(p)

PlaneNext ==
    \/ \E t \in N4Thread : N4Step(t)
    \/ \E n \in UE : update_uplink_info(n)
    \/ \E p \in Pkt : transfer_data(p) \/ Forward(p) \/ Reply(p) \/ Lose(p)
    \/ traffic_monitor

PlaneSpec == PlaneInit /\ [][PlaneNext]_planeVars

\* Every thread of a socket or a tun device goes on receiving; the
\* application answers; nothing says that a UE sends, attaches or detaches.
PlaneFair ==
    /\ \A p \in Pkt : WF_planeVars(Forward(p)) /\ WF_planeVars(Reply(p))
    /\ WF_planeVars(traffic_monitor)

-----------------------------------------------------------------------------
(***************************************************************************)
(* Properties.                                                             *)
(***************************************************************************)
\* An uplink datagram carries the tunnel of the UE whose address is in the
\* packet.  A downlink one goes to an eNodeB whose address is known, and on
\* tunnel 0, which is no UE's, since the SMF never learns the RAN's tunnel:
\* between the two lookups of handle_downlink_udata the UE may detach and attach
\* again, and the answer to a first packet may overtake the modify-bearer
\* request.
OwnTunnel ==
    \A p \in Pkt :
        /\ at[p] = "s1" => hdr[p].teid = Ip(p)
        /\ at[p] = "s1dn" => hdr[p] = [teid |-> Unset, dst |-> enodeb]

\* Once the UPF has removed a UE no table names it, whatever packets of the UE
\* were being looked up meanwhile; unless the UE came back, in another thread,
\* before a handle_detach() that had answered was through with its removals.
NoGhostContext ==
    \A n \in UE :
        ~ overlapped[n] /\ sess[n] = "none" /\ (\A t \in N4Thread : ~ Busy(t, n))
        => ue_ctx[n] = NoCtx /\ sgi_id[n] = Unset /\ s11_id[n] = Unset

Active(p) == sess[Ip(p)] = "active" /\ ~ overlapped[Ip(p)]

\* The sink's loop prefers its socket: a packet in the tun device waits while
\* uplink data is pending, and nothing bounds that wait.  Once no more uplink
\* data comes, an answer to a UE that stays attached reaches the UE, unless a
\* datagram is lost, the UPF ends, or the removals of the UE's last session are
\* still to come.
AnswerArrives ==
    (<>[]~ServerReady /\ [](lost = 0 /\ ~ exited)) =>
        \A p \in Pkt : (at[p] = "echo" /\ Active(p)) ~> (at[p] = "rcvd" \/ ~Active(p))
=============================================================================
