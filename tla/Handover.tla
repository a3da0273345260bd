------------------------------ MODULE Handover ------------------------------
(***************************************************************************)
(* The handover of a UE from a source to a target RAN (ran.cpp, amf.cpp,   *)
(* upf.cpp): an indirect tunnel is set up at the UPF, the downlink is      *)
(* switched to the target, and the indirect tunnel is torn down.  The UEs  *)
(* are attached; each is handed over at most once.  The AMF sends to a     *)
(* port of its own (amf.cpp: 7300), the UPF listens at another (upf.cpp:   *)
(* 7000); both are variables of the programs and constants here.  The      *)
(* RAN's listener that takes the AMF's connections is not in the           *)
(* repository: it is there from some time on, or never, and handles the    *)
(* messages for a UE in the order they were sent.                          *)
(***************************************************************************)
EXTENDS Telecom, Sequences, FiniteSets

CONSTANTS
    UE,            \* numbers of the attached UEs
    UpfThread,     \* threads that run handle_s11_traffic()
    AmfPorts,      \* values of the AMF's g_upf_s11_port
    UpfPort,       \* and of the UPF's
    MaxFault,      \* bound on the datagrams lost and the time-outs that come early
    HO_KEY_RANGE   \* keys of ho_ue_ctx, 2^32 in the code

ASSUME HandoverAssumption ==
    /\ UE # {} /\ UE \subseteq 0 .. (TEID_RANGE - 1)
    /\ UpfThread # {}
    /\ MaxFault \in Nat
    /\ HO_KEY_RANGE \in Nat \ {0} /\ UE \subseteq 0 .. (HO_KEY_RANGE - 1)

\* A UE's connection from the source RAN to the AMF, and the target's.
Conn   == UE \X {"source", "target"}
Tunnel == 0 .. TEID_RANGE
Nobody == 0

\* What initial attach left behind: the UE's identifiers at RAN and AMF.
EnbId(n)   == n
MmeId(n)   == n + 1
OldDl      == 0        \* downlink tunnel the UPF stores for an attached UE

\* s1amf_id and ue_ctx of the AMF, which a handover only reads.
get_guti_of(mme) == IF \E n \in UE : MmeId(n) = mme
                    THEN Guti(CHOOSE n \in UE : MmeId(n) = mme)
                    ELSE 0
s1_uteid_ul(guti)   == get_s11cteidamf(guti)
s11_cteid_upf(guti) == get_s11cteidamf(guti)

\* s11_id of the UPF, which a handover only reads.
get_imsi_of(teid) == IF \E n \in UE : Teid(n) = teid
                     THEN Imsi(CHOOSE n \in UE : Teid(n) = teid)
                     ELSE 0

\* ho_ue_ctx is declared with 32-bit keys, an IMSI has more.
HoKey(imsi) == imsi % HO_KEY_RANGE

VARIABLES
    src,        \* src[n]: the Ran object of UE n at the source
    tgt,        \* tgt[n]: the one at the target
    up,         \* up[c]: S1AP packets on their way to the AMF
    toSrc,      \* toSrc[n]: packets from the AMF to the source RAN
    toTgt,      \* toTgt[n]: and to the target RAN
    amf,        \* amf[c]: where the worker that serves connection c waits
    out,        \* out[c]: what it has for the RAN that it connects to
    listening,  \* a RAN takes the AMF's connections
    port,       \* the port the AMF sends to
    n4req, n4rsp,
    s1_id,      \* S1 UE identification table of the UPF: s1_uteid_ul -> imsi
    dl,         \* s1_uteid_dl of the UPF's ue_ctx: imsi -> tunnel
    ho_ue_ctx,  \* the UPF's handover table: key -> downlink tunnel
    upf,        \* upf[t]: where N4 thread t is, with its request and its locals
    faults,     \* datagrams lost and calls given up too early
    missed      \* history: a call did not get its answer

hoVars == <<src, tgt, up, toSrc, toTgt, amf, out, listening, port, n4req, n4rsp, s1_id, dl,
            ho_ue_ctx, upf, faults, missed>>
ranHo  == <<src, tgt>>
upfHo  == <<s1_id, dl, ho_ue_ctx, upf>>
envHo  == <<listening, port, faults, missed>>

\* For the UPF's answer, and for a RAN to accept the connection.
Waiting    == {"setup", "switch", "teardown"}
Connecting == {"request", "setup_conn", "switch_conn"}

NoEntry == TEID_RANGE + 1   \* a key that ho_ue_ctx does not have, a field never assigned
Key     == {HoKey(Imsi(n)) : n \in UE} \cup {HoKey(0)}
ImsiHo  == {Imsi(n) : n \in UE} \cup {Nobody}

RanHo  == [handover_state : 0 .. 4, enb : 0 .. TEID_RANGE, mme : 0 .. TEID_RANGE, ul : Tunnel,
           indirect : Tunnel \cup {NoEntry}, done : BOOLEAN]
HoMsg  == [type : 7 .. 10, enb : 0 .. TEID_RANGE, mme : 0 .. TEID_RANGE, teid : Tunnel]
N4Msg  == [op : 4 .. 6, conn : Conn, teid : Tunnel, x : Tunnel]
UpfLoc == [pc : {"idle", "setup", "itf", "switch", "erase", "erasing", "teardown"},
           pkt : N4Msg, imsi : ImsiHo, smf : Tunnel]

NoN4    == [op |-> 4, conn |-> CHOOSE c \in Conn : TRUE, teid |-> 0, x |-> 0]
UpfIdle == [pc |-> "idle", pkt |-> NoN4, imsi |-> Nobody, smf |-> 0]

HoTypeOK ==
    /\ src \in [UE -> RanHo] /\ tgt \in [UE -> RanHo]
    /\ up \in [Conn -> Seq(HoMsg)]
    /\ toSrc \in [UE -> Seq(HoMsg)] /\ toTgt \in [UE -> Seq(HoMsg)]
    /\ amf \in [Conn -> Waiting \cup Connecting \cup {"idle"}]
    /\ out \in [Conn -> Seq(HoMsg)]
    /\ listening \in BOOLEAN /\ port \in AmfPorts
    /\ n4req \subseteq N4Msg /\ n4rsp \subseteq N4Msg
    /\ s1_id \in [Tunnel -> ImsiHo]
    /\ dl \in [ImsiHo -> Tunnel]
    /\ ho_ue_ctx \in [Key -> Tunnel \cup {NoEntry}]
    /\ upf \in [UpfThread -> UpfLoc]
    /\ faults \in 0 .. MaxFault /\ missed \in BOOLEAN

\* The indirect tunnel of a RanContext is not initialised.
HoInit ==
    /\ src = [n \in UE |-> [handover_state |-> 0, enb |-> EnbId(n), mme |-> MmeId(n),
                            ul |-> Teid(n), indirect |-> NoEntry, done |-> FALSE]]
    /\ tgt = [n \in UE |-> [handover_state |-> 0, enb |-> 0, mme |-> 0, ul |-> 0,
                            indirect |-> NoEntry, done |-> FALSE]]
    /\ up = [c \in Conn |-> <<>>]
    /\ toSrc = [n \in UE |-> <<>>]
    /\ toTgt = [n \in UE |-> <<>>]
    /\ amf = [c \in Conn |-> "idle"]
    /\ out = [c \in Conn |-> <<>>]
    /\ listening = FALSE /\ port \in AmfPorts
    /\ n4req = {} /\ n4rsp = {}
    /\ s1_id = [i \in Tunnel |-> get_imsi_of(i)]
    /\ dl = [i \in ImsiHo |-> OldDl]
    /\ ho_ue_ctx = [k \in Key |-> NoEntry]
    /\ upf = [t \in UpfThread |-> UpfIdle]
    /\ faults = 0 /\ missed = FALSE

S1apHo(type, enb, mme, teid) == [type |-> type, enb |-> enb, mme |-> mme, teid |-> teid]

-----------------------------------------------------------------------------
(***************************************************************************)
(* The two RANs.                                                           *)
(***************************************************************************)
initiate_handover(n) ==
    /\ src[n].handover_state = 0
    /\ src' = [src EXCEPT ![n].handover_state = 1]
    /\ up' = [up EXCEPT ![<<n, "source">>] = Append(@, S1apHo(7, src[n].enb, src[n].mme, 0))]
    /\ UNCHANGED <<tgt, toSrc, toTgt, amf, out, n4req, n4rsp, upfHo, envHo>>

\* The target takes over the UE's identifiers and its uplink tunnel; its own
\* downlink tunnel is the eNodeB's identifier of the UE.
handle_handover(n) ==
    /\ toTgt[n] # <<>>
    /\ toTgt' = [toTgt EXCEPT ![n] = Tail(@)]
    /\ LET m == Head(toTgt[n]) IN
        /\ tgt' = [tgt EXCEPT ![n] = [@ EXCEPT !.handover_state = 3, !.enb = m.enb,
                                               !.mme = m.mme, !.ul = m.teid]]
        /\ up' = [up EXCEPT ![<<n, "target">>] = Append(@, S1apHo(8, m.enb, m.mme, m.enb))]
    /\ UNCHANGED <<src, toSrc, amf, out, n4req, n4rsp, upfHo, envHo>>

indirect_tunnel_complete(n) ==
    /\ toSrc[n] # <<>>
    /\ Head(toSrc[n]).type = 8
    /\ toSrc' = [toSrc EXCEPT ![n] = Tail(@)]
    /\ src' = [src EXCEPT ![n] = [@ EXCEPT !.handover_state = 4, !.indirect = Head(toSrc[n]).teid]]
    /\ UNCHANGED <<tgt, up, toTgt, amf, out, n4req, n4rsp, upfHo, envHo>>

\* The target says that it is ready; nothing tells it that the tunnel is set up.
complete_handover(n) ==
    /\ tgt[n].handover_state = 3
    /\ ~ tgt[n].done
    /\ tgt' = [tgt EXCEPT ![n].done = TRUE]
    /\ up' = [up EXCEPT ![<<n, "target">>] = Append(@, S1apHo(9, tgt[n].enb, tgt[n].mme, 0))]
    /\ UNCHANGED <<src, toSrc, toTgt, amf, out, n4req, n4rsp, upfHo, envHo>>

\* Mutant of request_tear_down: the direct tunnel is torn down.
TearDownDirect(n) ==
    /\ toSrc[n] # <<>>
    /\ Head(toSrc[n]).type = 9
    /\ toSrc' = [toSrc EXCEPT ![n] = Tail(@)]
    /\ src' = [src EXCEPT ![n] = [@ EXCEPT !.ul = 0, !.done = TRUE]]
    /\ up' = [up EXCEPT ![<<n, "source">>] =
                Append(@, S1apHo(10, src[n].enb, src[n].mme, src[n].ul))]
    /\ UNCHANGED <<tgt, toTgt, amf, out, n4req, n4rsp, upfHo, envHo>>

\* A tunnel that the source was never told of is whatever the memory holds.
request_tear_down(n) ==
    /\ toSrc[n] # <<>>
    /\ Head(toSrc[n]).type = 9
    /\ toSrc' = [toSrc EXCEPT ![n] = Tail(@)]
    /\ src' = [src EXCEPT ![n] = [@ EXCEPT !.ul = 0, !.done = TRUE]]
    /\ \E g \in (IF src[n].indirect = NoEntry THEN Tunnel ELSE {src[n].indirect}) :
        up' = [up EXCEPT ![<<n, "source">>] = Append(@, S1apHo(10, src[n].enb, src[n].mme, g))]
    /\ UNCHANGED <<tgt, toTgt, amf, out, n4req, n4rsp, upfHo, envHo>>

-----------------------------------------------------------------------------
(***************************************************************************)
(* The AMF.  The packets of a connection are handled one after the other.  *)
(***************************************************************************)
Serve(c, type) ==
    /\ amf[c] = "idle"
    /\ up[c] # <<>>
    /\ Head(up[c]).type = type
    /\ up' = [up EXCEPT ![c] = Tail(@)]

request_target_RAN(c) ==
    /\ Serve(c, 7)
    /\ LET m == Head(up[c]) IN
        out' = [out EXCEPT ![c] = <<S1apHo(7, m.enb, m.mme, s1_uteid_ul(get_guti_of(m.mme)))>>]
    /\ amf' = [amf EXCEPT ![c] = "request"]
    /\ UNCHANGED <<ranHo, toSrc, toTgt, n4req, n4rsp, upfHo, envHo>>

\* The three handlers that ask the UPF do so alike and wait for its answer.
\* What is sent to a port where nobody listens is gone.
Ask(c, type, op, pc) ==
    /\ Serve(c, type)
    /\ LET m == Head(up[c]) IN
        n4req' = n4req \cup (IF port = UpfPort
                             THEN {[op |-> op, conn |-> c, x |-> m.teid,
                                    teid |-> s11_cteid_upf(get_guti_of(m.mme))]}
                             ELSE {})
    /\ missed' = (missed \/ port # UpfPort)
    /\ amf' = [amf EXCEPT ![c] = pc]
    /\ UNCHANGED <<ranHo, toSrc, toTgt, out, listening, port, n4rsp, upfHo, faults>>

setup_indirect_tunnel(c)    == Ask(c, 8, 4, "setup")
handle_handover_completion(c) == Ask(c, 9, 5, "switch")
teardown_indirect_tunnel(c) == Ask(c, 10, 6, "teardown")

\* Where a request is handled, and where its worker waits.
Start(op) == CASE op = 4 -> "setup" [] op = 5 -> "switch" [] op = 6 -> "teardown"

\* The worker whose socket message m goes to still waits at it.
Waits(m)  == amf[m.conn] = Start(m.op)

\* After the answer, or without it, the first two handlers connect to the source.
Then(pc)  == CASE pc = "setup" -> "setup_conn" [] pc = "switch" -> "switch_conn" [] pc = "teardown" -> "idle"

\* Mutant of Told: the source is told to tear down when the tunnel is set up.
ToldTooEarly(c, m) ==
    IF m.op = 4
    THEN <<S1apHo(8, EnbId(c[1]), MmeId(c[1]), m.x), S1apHo(9, EnbId(c[1]), MmeId(c[1]), 0)>>
    ELSE <<>>

\* The UPF answered with res = true: what the source RAN will be told.
Told(c, m) ==
    CASE m.op = 4 -> <<S1apHo(8, EnbId(c[1]), MmeId(c[1]), m.x)>>
      [] m.op = 5 -> <<S1apHo(9, EnbId(c[1]), MmeId(c[1]), 0)>>
      [] m.op = 6 -> <<>>

Answered(c) ==
    \E m \in n4rsp :
        /\ m.conn = c
        /\ amf[c] \in Waiting
        /\ n4rsp' = {o \in n4rsp : o.conn # c}
        /\ out' = [out EXCEPT ![c] = Told(c, m)]
        /\ amf' = [amf EXCEPT ![c] = Then(@)]
        /\ UNCHANGED <<ranHo, up, toSrc, toTgt, n4req, upfHo, envHo>>

\* Mutant of HoTimeout: the receive has no time-out.
NoTimeout(c) ==
    /\ FALSE
    /\ UNCHANGED hoVars

\* The call of connection c is under way.
Pending(c) ==
    \/ \E m \in n4req \cup n4rsp : m.conn = c /\ Waits(m)
    \/ \E t \in UpfThread : upf[t].pc # "idle" /\ upf[t].pkt.conn = c /\ Waits(upf[t].pkt)

\* Nothing came in time: the packet is zeros and res is false.  The socket goes
\* with the handler's UdpClient, and what is answered later is dropped.
HoTimeout(c) ==
    /\ amf[c] \in Waiting
    /\ IF Pending(c)
       THEN faults < MaxFault /\ faults' = faults + 1 /\ missed' = TRUE
       ELSE UNCHANGED <<faults, missed>>
    /\ n4rsp' = {m \in n4rsp : m.conn # c}
    /\ amf' = [amf EXCEPT ![c] = Then(@)]
    /\ UNCHANGED <<ranHo, up, toSrc, toTgt, out, listening, port, n4req, upfHo>>

\* SctpClient::conn() tries until the RAN listens; then snd(), if there is
\* something to say, and the handler ends.
snd_to_target(c) ==
    /\ amf[c] = "request" /\ listening
    /\ toTgt' = [toTgt EXCEPT ![c[1]] = @ \o out[c]]
    /\ out' = [out EXCEPT ![c] = <<>>]
    /\ amf' = [amf EXCEPT ![c] = "idle"]
    /\ UNCHANGED <<ranHo, up, toSrc, n4req, n4rsp, upfHo, envHo>>

snd_to_source(c) ==
    /\ amf[c] \in {"setup_conn", "switch_conn"} /\ listening
    /\ toSrc' = [toSrc EXCEPT ![c[1]] = @ \o out[c]]
    /\ out' = [out EXCEPT ![c] = <<>>]
    /\ amf' = [amf EXCEPT ![c] = "idle"]
    /\ UNCHANGED <<ranHo, up, toTgt, n4req, n4rsp, upfHo, envHo>>

\* A listener of the RAN comes up.
RanListens ==
    /\ ~ listening
    /\ listening' = TRUE
    /\ UNCHANGED <<ranHo, up, toSrc, toTgt, amf, out, port, n4req, n4rsp, upfHo, faults, missed>>

HoLose ==
    /\ faults < MaxFault
    /\ faults' = faults + 1 /\ missed' = TRUE
    /\ \/ \E m \in n4req : n4req' = n4req \ {m} /\ UNCHANGED n4rsp
       \/ \E m \in n4rsp : n4rsp' = n4rsp \ {m} /\ UNCHANGED n4req
    /\ UNCHANGED <<ranHo, up, toSrc, toTgt, amf, out, listening, port, upfHo>>

-----------------------------------------------------------------------------
(***************************************************************************)
(* The UPF.  Each handler looks the IMSI up first and goes on without      *)
(* looking at it.                                                          *)
(***************************************************************************)
RcvHo(t) ==
    /\ upf[t].pc = "idle"
    /\ \E m \in n4req :
        /\ n4req' = n4req \ {m}
        /\ upf' = [upf EXCEPT ![t] = [pc |-> Start(m.op), pkt |-> m, smf |-> 0,
                                      imsi |-> get_imsi_of(m.teid)]]
    /\ UNCHANGED <<ranHo, up, toSrc, toTgt, amf, out, n4rsp, s1_id, dl, ho_ue_ctx, envHo>>

\* The handler's thread answers with x and is free again; a socket that is
\* closed takes nothing.
Reply(t, x) ==
    /\ n4rsp' = n4rsp \cup (IF Waits(upf[t].pkt) THEN {[upf[t].pkt EXCEPT !.x = x]} ELSE {})
    /\ upf' = [upf EXCEPT ![t] = UpfIdle]

\* handle_indirect_tunnel_setup(): the section under uectx_mux.  An erase that
\* another thread is in the middle of, without the mutex, may lose the entry.
SetupCtx(t) ==
    /\ upf[t].pc = "setup"
    /\ LET k == HoKey(upf[t].imsi) IN
        \/ ho_ue_ctx' = [ho_ue_ctx EXCEPT ![k] = upf[t].pkt.x]
        \/ /\ \E u \in UpfThread : upf[u].pc = "erasing"
           /\ UNCHANGED ho_ue_ctx
    /\ upf' = [upf EXCEPT ![t] = [@ EXCEPT !.pc = "itf", !.smf = upf[t].pkt.teid]]
    /\ UNCHANGED <<ranHo, up, toSrc, toTgt, amf, out, n4req, n4rsp, s1_id, dl, envHo>>

\* update_itfid(1, s11_cteid_smf + 1, imsi) and the response.
SetupItf(t) ==
    /\ upf[t].pc = "itf"
    /\ LET ul == upf[t].smf + 1 IN
        /\ s1_id' = [s1_id EXCEPT ![ul] = upf[t].imsi]
        /\ Reply(t, ul)
    /\ UNCHANGED <<ranHo, up, toSrc, toTgt, amf, out, n4req, dl, ho_ue_ctx, envHo>>

\* handle_handover_completion(): the section under uectx_mux.  An entry that
\* is not there is made with a tunnel that nobody initialised.
SwitchCtx(t) ==
    /\ upf[t].pc = "switch"
    /\ LET ho == ho_ue_ctx[HoKey(upf[t].imsi)] IN
        \E d \in (IF ho = NoEntry THEN Tunnel ELSE {ho}) :
            /\ dl' = [dl EXCEPT ![upf[t].imsi] = d]
            /\ ho_ue_ctx' = [ho_ue_ctx EXCEPT ![HoKey(upf[t].imsi)] = d]
    /\ upf' = [upf EXCEPT ![t] = [@ EXCEPT !.pc = "erase", !.smf = upf[t].pkt.teid]]
    /\ UNCHANGED <<ranHo, up, toSrc, toTgt, amf, out, n4req, n4rsp, s1_id, envHo>>

\* ho_ue_ctx.erase(imsi) is outside the mutex: it begins and it ends.
EraseBegin(t) ==
    /\ upf[t].pc = "erase"
    /\ upf' = [upf EXCEPT ![t].pc = "erasing"]
    /\ UNCHANGED <<ranHo, up, toSrc, toTgt, amf, out, n4req, n4rsp, s1_id, dl, ho_ue_ctx, envHo>>

EraseEnd(t) ==
    /\ upf[t].pc = "erasing"
    /\ ho_ue_ctx' = [ho_ue_ctx EXCEPT ![HoKey(upf[t].imsi)] = NoEntry]
    /\ Reply(t, 0)
    /\ UNCHANGED <<ranHo, up, toSrc, toTgt, amf, out, n4req, s1_id, dl, envHo>>

\* handle_indirect_tunnel_teardown_(): rem_itfid(1, ...) of what the RAN sent.
Teardown(t) ==
    /\ upf[t].pc = "teardown"
    /\ s1_id' = [s1_id EXCEPT ![upf[t].pkt.x] = Nobody]
    /\ Reply(t, 0)
    /\ UNCHANGED <<ranHo, up, toSrc, toTgt, amf, out, n4req, dl, ho_ue_ctx, envHo>>

-----------------------------------------------------------------------------
RanHoStep(n) ==
    \/ handle_handover(n) \/ indirect_tunnel_complete(n)
    \/ complete_handover(n) \/ request_tear_down(n)

AmfHoStep(c) ==
    \/ request_target_RAN(c) \/ setup_indirect_tunnel(c) \/ handle_handover_completion(c)
    \/ teardown_indirect_tunnel(c) \/ Answered(c) \/ snd_to_target(c) \/ snd_to_source(c)

UpfHoStep(t) ==
    \/ RcvHo(t) \/ SetupCtx(t) \/ SetupItf(t) \/ SwitchCtx(t)
    \/ EraseBegin(t) \/ EraseEnd(t) \/ Teardown(t)

HoNext ==
    \/ \E n \in UE : initiate_handover(n) \/ RanHoStep(n)
    \/ \E c \in Conn : AmfHoStep(c) \/ HoTimeout(c)
    \/ \E t \in UpfThread : UpfHoStep(t)
    \/ HoLose \/ RanListens

HoSpec == HoInit /\ [][HoNext]_hoVars

HoFairSpec ==
    /\ HoSpec
    /\ \A n \in UE : WF_hoVars(RanHoStep(n))
    /\ \A c \in Conn : WF_hoVars(AmfHoStep(c)) /\ WF_hoVars(HoTimeout(c))
    /\ \A t \in UpfThread : WF_hoVars(UpfHoStep(t))

-----------------------------------------------------------------------------
\* The indirect tunnel of a UE is one above its own: it is that of the UE with
\* the next number, which loses it when the UPF is asked to set up the other's.
Overlaid(n) == \E m \in UE : Teid(m) + 1 = Teid(n) /\ tgt[m].handover_state = 3

\* The uplink tunnel of an attached UE leads to that UE, handovers of other UEs
\* or not: s1_id is "S1 UE identification table: s1_uteid_ul -> imsi".
TunnelOwner == \A n \in UE : s1_id[Teid(n)] = Imsi(n) \/ Overlaid(n)

\* The target RAN holds the uplink tunnel that leads to the UE it took over.
UplinkKept ==
    \A n \in UE : tgt[n].handover_state = 3 => s1_id[tgt[n].ul] = Imsi(n) \/ Overlaid(n)

\* The source has torn down, and nothing of the UE is under way.
Over(n) ==
    /\ src[n].done
    /\ \A c \in Conn : c[1] = n => up[c] = <<>> /\ amf[c] = "idle"

\* When the handover of a UE is over nothing of it is left at the UPF: no
\* indirect tunnel and no entry of ho_ue_ctx.
NoIndirectLeft ==
    \A n \in UE : Over(n) =>
        /\ \A i \in Tunnel : s1_id[i] = Imsi(n) => i = Teid(n)
        /\ ho_ue_ctx[HoKey(Imsi(n))] = NoEntry

\* When every call gets its answer the tables of the UPF lead every UE's packets
\* to that UE during all handovers, but those of a UE whose predecessor is being
\* handed over or has been; and they forget the indirect tunnels of all after
\* the handovers, also when the erase outside the mutex races with another
\* thread.
TunnelsKept == HoTypeOK /\ (~ missed => TunnelOwner /\ UplinkKept /\ NoIndirectLeft)

\* Make before break: the UPF switches the downlink of no UE but one whose
\* target RAN has said that the handover is complete, whatever is lost or late
\* and whatever races; and, when every call gets its answer, an entry of a UE is
\* removed only when the target has said so and the source has been told, or
\* when it is overlaid by that of the UE with the number before.
MakeBeforeBreak ==
    [][/\ \A n \in UE : dl'[Imsi(n)] # dl[Imsi(n)] => tgt[n].done
       /\ ~ missed =>
            \A i \in Tunnel, n \in UE :
                (s1_id[i] = Imsi(n) /\ s1_id'[i] # Imsi(n)) =>
                    \/ tgt[n].done /\ src[n].done
                    \/ i = Teid(n) /\ Overlaid(n)]_hoVars

\* Once a RAN listens, a worker of the AMF is free again in the end, although
\* requests go to a port where nobody is, datagrams are lost, answers are late
\* and nothing is sent again; and when every call gets its answer a handover that
\* was initiated comes to its end.
HandoverEnds ==
    <>listening =>
        /\ \A c \in Conn : []<>(amf[c] = "idle")
        /\ []~missed => \A n \in UE : src[n].handover_state = 1 ~> Over(n)

\* "handle_handover_completion: handover setup completed", which the AMF prints
\* at the end of its handler: the UPF has switched the downlink to the target.
CompletedIsSwitched ==
    \A n \in UE :
        (tgt[n].done /\ up[<<n, "target">>] = <<>> /\ amf[<<n, "target">>] = "idle")
        => dl[Imsi(n)] = EnbId(n)
=============================================================================
