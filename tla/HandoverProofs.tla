--------------------------- MODULE HandoverProofs ---------------------------
(***************************************************************************)
(* Handovers keep the tunnels of all UEs but those that the UE with the    *)
(* number before overlays, for every set of UEs, number of UPF threads, of *)
(* faults, and ports the AMF sends to.                                     *)
(*                                                                         *)
(* The invariant HoInv has two layers.  What packets, datagrams and        *)
(* handlers carry is that of the UE they are about, whatever is lost or    *)
(* late (HoData, HoCalls).  Where every call got its answer, each UE is at *)
(* one point of the protocol (Before, After), which says what the UPF's    *)
(* tables hold (Tables).                                                   *)
(***************************************************************************)
EXTENDS Handover, Integers, TLAPS

Src(n) == <<n, "source">>
Tgt(n) == <<n, "target">>

-----------------------------------------------------------------------------
\* What the RANs and the packets know of UE n.
RanData(n) ==
    /\ src[n].mme = MmeId(n)
    /\ tgt[n].handover_state = 3 => tgt[n].mme = MmeId(n) /\ tgt[n].ul = Teid(n)
    /\ tgt[n].done => tgt[n].handover_state = 3

PacketData(c) ==
    \A k \in 1 .. Len(up[c]) :
        /\ up[c][k].mme = MmeId(c[1])
        /\ up[c][k].type = 9 => c = Tgt(c[1]) /\ tgt[c[1]].done

ForwardData(n) ==
    \A k \in 1 .. Len(toTgt[n]) : toTgt[n][k].mme = MmeId(n) /\ toTgt[n][k].teid = Teid(n)

\* A worker has something to send only when it connects.
OutData(c) ==
    /\ amf[c] \notin Connecting => out[c] = <<>>
    /\ amf[c] = "request" =>
        \E m \in HoMsg : /\ out[c] = <<m>> /\ m.type = 7
                         /\ m.mme = MmeId(c[1]) /\ m.teid = Teid(c[1])
    /\ amf[c] \in Connecting => out[c] = <<>> \/ \E m \in HoMsg : out[c] = <<m>>

HoData ==
    /\ \A n \in UE : RanData(n) /\ ForwardData(n)
    /\ \A c \in Conn : PacketData(c) /\ OutData(c)

MsgOk(m) ==
    /\ m.teid = Teid(m.conn[1])
    /\ m.op = 5 => tgt[m.conn[1]].done

Working(t) == upf[t].pc # "idle"

Handler(t) ==
    Working(t) =>
        /\ MsgOk(upf[t].pkt)
        /\ upf[t].imsi = Imsi(upf[t].pkt.conn[1])
        /\ upf[t].pc \in {"setup", "itf"} => upf[t].pkt.op = 4
        /\ upf[t].pc \in {"switch", "erase", "erasing"} => upf[t].pkt.op = 5
        /\ upf[t].pc = "teardown" => upf[t].pkt.op = 6
        /\ upf[t].pc = "itf" => upf[t].smf = upf[t].pkt.teid

\* One datagram or one handler stands for a call.
OneWay ==
    /\ \A m, o \in n4req : m.conn = o.conn => m = o
    /\ \A m, o \in n4rsp : m.conn = o.conn => m = o
    /\ \A m \in n4req, o \in n4rsp : m.conn # o.conn
    /\ \A t, u \in UpfThread : (Working(t) /\ Working(u) /\ upf[t].pkt.conn = upf[u].pkt.conn) => t = u
    /\ \A m \in n4req \cup n4rsp, t \in UpfThread : Working(t) => upf[t].pkt.conn # m.conn

HoCalls ==
    /\ \A m \in n4req \cup n4rsp : MsgOk(m)
    /\ \A m \in n4rsp : Waits(m) /\ (m.op = 4 => m.x = Teid(m.conn[1]) + 1)
    /\ \A t \in UpfThread : Handler(t)

-----------------------------------------------------------------------------
\* When every call gets its answer: there are no calls but those that a worker
\* waits for, and the worker that waits has a call under way.
Current ==
    /\ \A m \in n4req : Waits(m)
    /\ \A t \in UpfThread : Working(t) => Waits(upf[t].pkt)
    /\ OneWay

Asked(c)   == \E m \in n4req : m.conn = c
Handled(c) == \E t \in UpfThread : Working(t) /\ upf[t].pkt.conn = c
Replied(c) == \E m \in n4rsp : m.conn = c
Carried(c) == amf[c] \in Waiting => Asked(c) \/ Handled(c) \/ Replied(c)

\* The queue q holds packets of these types and no others.
One(q, a)    == Len(q) = 1 /\ q[1].type = a
Two(q, a, b) == Len(q) = 2 /\ q[1].type = a /\ q[2].type = b

\* The target has not heard of the handover yet.
Before(n) ==
    /\ tgt[n].handover_state = 0 /\ ~ src[n].done /\ toSrc[n] = <<>>
    /\ up[Tgt(n)] = <<>> /\ amf[Tgt(n)] = "idle"
    /\ \/ /\ src[n].handover_state = 0 /\ up[Src(n)] = <<>> /\ toTgt[n] = <<>>
          /\ amf[Src(n)] = "idle"
       \/ /\ src[n].handover_state # 0 /\ One(up[Src(n)], 7) /\ toTgt[n] = <<>>
          /\ amf[Src(n)] = "idle"
       \/ /\ src[n].handover_state # 0 /\ up[Src(n)] = <<>> /\ toTgt[n] = <<>>
          /\ amf[Src(n)] = "request"
       \/ /\ src[n].handover_state # 0 /\ up[Src(n)] = <<>> /\ One(toTgt[n], 7)
          /\ amf[Src(n)] = "idle"

\* The source's part: it does nothing, it is told of the indirect tunnel and
\* then that the target is ready, and it tears the indirect tunnel down.
Idle(n) == ~ src[n].done /\ up[Src(n)] = <<>> /\ amf[Src(n)] = "idle"

Got(n) ==
    \/ One(toSrc[n], 8) /\ toSrc[n][1].teid = Teid(n) + 1
    \/ toSrc[n] = <<>> /\ src[n].indirect = Teid(n) + 1

GotBoth(n) ==
    \/ Two(toSrc[n], 8, 9) /\ toSrc[n][1].teid = Teid(n) + 1
    \/ One(toSrc[n], 9) /\ src[n].indirect = Teid(n) + 1

Tears(n) ==
    /\ src[n].done /\ toSrc[n] = <<>>
    /\ \/ amf[Src(n)] = "idle" /\ One(up[Src(n)], 10) /\ up[Src(n)][1].teid = Teid(n) + 1
       \/ amf[Src(n)] \in {"idle", "teardown"} /\ up[Src(n)] = <<>>

\* The target's part: the tunnel is to be set up, is being set up and the source
\* is connected to; and the same for the downlink, which then is switched.
ToSetup(n)  == amf[Tgt(n)] = "idle" /\ IF tgt[n].done THEN Two(up[Tgt(n)], 8, 9) ELSE One(up[Tgt(n)], 8)
Rest(n)     == IF tgt[n].done THEN One(up[Tgt(n)], 9) ELSE up[Tgt(n)] = <<>>
Setup(n)    == amf[Tgt(n)] = "setup" /\ Rest(n)
SetupConn(n) ==
    /\ amf[Tgt(n)] = "setup_conn" /\ Rest(n)
    /\ One(out[Tgt(n)], 8) /\ out[Tgt(n)][1].teid = Teid(n) + 1
ToSwitch(n) == amf[Tgt(n)] = "idle" /\ Rest(n)
Switch(n)   == amf[Tgt(n)] = "switch" /\ up[Tgt(n)] = <<>> /\ tgt[n].done
SwitchConn(n) ==
    /\ amf[Tgt(n)] = "switch_conn" /\ up[Tgt(n)] = <<>> /\ tgt[n].done
    /\ One(out[Tgt(n)], 9)
Switched(n) == amf[Tgt(n)] = "idle" /\ up[Tgt(n)] = <<>> /\ tgt[n].done

After(n) ==
    /\ tgt[n].handover_state = 3 /\ src[n].handover_state # 0 /\ toTgt[n] = <<>>
    /\ \/ Idle(n) /\ toSrc[n] = <<>> /\ (ToSetup(n) \/ Setup(n) \/ SetupConn(n))
       \/ Idle(n) /\ Got(n) /\ (ToSwitch(n) \/ Switch(n) \/ SwitchConn(n))
       \/ Idle(n) /\ GotBoth(n) /\ Switched(n)
       \/ Tears(n) /\ Switched(n)

\* What a request to tear down names is the indirect tunnel.
TearsIndirect ==
    /\ \A m \in n4req : m.op = 6 => m.x = Teid(m.conn[1]) + 1
    /\ \A t \in UpfThread : upf[t].pc = "teardown" => upf[t].pkt.x = Teid(upf[t].pkt.conn[1]) + 1

\* The UPF's tables: no tunnel but the UE's own and the indirect one, which is
\* gone once the UPF has answered the teardown, and no entry of ho_ue_ctx
\* once it has answered the switch.
Tables(n) ==
    /\ \A i \in Tunnel : s1_id[i] = Imsi(n) => i \in {Teid(n), Teid(n) + 1}
    /\ (src[n].done /\ up[Src(n)] = <<>> /\ (amf[Src(n)] = "idle" \/ Replied(Src(n)))) =>
        s1_id[Teid(n) + 1] # Imsi(n)
    /\ (tgt[n].done /\ up[Tgt(n)] = <<>> /\
            (amf[Tgt(n)] \in {"idle", "switch_conn"} \/ (amf[Tgt(n)] = "switch" /\ Replied(Tgt(n))))) =>
        ho_ue_ctx[HoKey(Imsi(n))] = NoEntry

Kept ==
    /\ Current /\ TunnelOwner
    /\ \A c \in Conn : Carried(c)
    /\ \A n \in UE : (Before(n) \/ After(n)) /\ Tables(n)
    /\ TearsIndirect

HoInv == HoTypeOK /\ HoData /\ HoCalls /\ (~ missed => Kept)

-----------------------------------------------------------------------------
(***************************************************************************)
(* Identities.  Every identifier is an offset plus the number of the UE.   *)
(***************************************************************************)
LEMMA HoOffsets ==
    \E x, y \in Nat : x # 0 /\ \A n \in UE : Imsi(n) = x + n /\ Guti(n) = y + n
PROOF
  <1> DEFINE x == PLMN_ID * MSISDN_RANGE + MSISDN_BASE
             y == GUMMEI * IMSI_RANGE + x
  <1>1. PLMN_ID * MSISDN_RANGE \in Nat /\ GUMMEI * IMSI_RANGE \in Nat
    BY TelecomAssumption
  <1>2. \A n \in UE : n \in Nat
    BY HandoverAssumption, TelecomAssumption
  <1>3. x \in Nat /\ x # 0 /\ y \in Nat
    BY <1>1, TelecomAssumption
  <1>4. ASSUME NEW n \in UE
        PROVE  Imsi(n) = x + n /\ Guti(n) = y + n
    <2>1. Imsi(n) = PLMN_ID * MSISDN_RANGE + (MSISDN_BASE + n)
      BY DEF Imsi, get_imsi, get_msisdn
    <2>2. Guti(n) = GUMMEI * IMSI_RANGE + Imsi(n)
      BY DEF Guti, get_guti
    <2> QED BY <1>1, <1>2, <2>1, <2>2, TelecomAssumption
  <1> HIDE DEF x, y
  <1> QED BY <1>3, <1>4

\* Numbers less than r apart have different rests.
LEMMA HoSameRest ==
    ASSUME NEW r \in Nat \ {0}, NEW a \in Nat, NEW b \in Nat, a <= b, b - a < r, a % r = b % r
    PROVE  a = b
PROOF
  <1>1. a = r * (a \div r) + (a % r) /\ a \div r \in Int /\ a % r \in 0 .. (r - 1)
    OBVIOUS
  <1>2. b = r * (b \div r) + (b % r) /\ b \div r \in Int
    OBVIOUS
  <1> DEFINE q == (b \div r) - (a \div r)
  <1>3. b - a = r * q /\ q \in Int
    BY <1>1, <1>2
  <1>4. q <= 0
    <2> SUFFICES ASSUME q >= 1 PROVE FALSE
      BY <1>3
    <2>1. r * q >= r
      BY <1>3
    <2> QED BY <1>3, <2>1
  <1>5. q >= 0
    <2> SUFFICES ASSUME q <= -1 PROVE FALSE
      BY <1>3
    <2>1. r * q <= -r
      BY <1>3
    <2> QED BY <1>3, <2>1
  <1>6. q = 0
    BY <1>3, <1>4, <1>5
  <1> QED BY <1>3, <1>6

\* Numbers of UEs have different rests, shifted or not.
LEMMA ShiftedRest ==
    ASSUME NEW r \in Nat \ {0}, UE \subseteq 0 .. (r - 1), NEW y \in Nat,
           NEW m \in UE, NEW n \in UE, (y + m) % r = (y + n) % r
    PROVE  m = n
PROOF
  <1>1. m \in 0 .. (r - 1) /\ n \in 0 .. (r - 1)
    OBVIOUS
  <1>2. y + m \in Nat /\ y + n \in Nat /\ (y + m) - (y + n) < r /\ (y + n) - (y + m) < r
    BY <1>1
  <1>3. CASE m <= n
    <2>1. y + m <= y + n
      BY <1>1, <1>3
    <2>2. y + m = y + n
      BY <1>2, <2>1, HoSameRest
    <2> QED BY <1>1, <2>2
  <1>4. CASE n <= m
    <2>1. y + n <= y + m
      BY <1>1, <1>4
    <2>2. y + n = y + m
      BY <1>2, <2>1, HoSameRest
    <2> QED BY <1>1, <2>2
  <1> QED BY <1>1, <1>3, <1>4

\* The identities of a UE are its own.
LEMMA OwnIdentities ==
    ASSUME NEW m \in UE, NEW n \in UE
    PROVE  /\ Imsi(m) = Imsi(n) => m = n
           /\ Guti(m) = Guti(n) => m = n
           /\ Teid(m) = Teid(n) => m = n
           /\ MmeId(m) = MmeId(n) => m = n
           /\ HoKey(Imsi(m)) = HoKey(Imsi(n)) => m = n
PROOF
  <1>1. PICK x, y \in Nat : x # 0 /\ \A k \in UE : Imsi(k) = x + k /\ Guti(k) = y + k
    BY HoOffsets
  <1>2. m \in Nat /\ n \in Nat
    BY HandoverAssumption, TelecomAssumption
  <1>3. Imsi(m) = x + m /\ Imsi(n) = x + n /\ Guti(m) = y + m /\ Guti(n) = y + n
    BY <1>1
  <1>4. (Imsi(m) = Imsi(n) => m = n) /\ (Guti(m) = Guti(n) => m = n) /\ (MmeId(m) = MmeId(n) => m = n)
    BY <1>2, <1>3 DEF MmeId
  <1>5. ASSUME Teid(m) = Teid(n) PROVE m = n
    <2>1. (y + m) % TEID_RANGE = (y + n) % TEID_RANGE
      BY <1>3, <1>5 DEF Teid, get_s11cteidamf
    <2> QED BY <2>1, ShiftedRest, HandoverAssumption, TelecomAssumption
  <1>6. ASSUME HoKey(Imsi(m)) = HoKey(Imsi(n)) PROVE m = n
    <2>1. (x + m) % HO_KEY_RANGE = (x + n) % HO_KEY_RANGE
      BY <1>3, <1>6 DEF HoKey
    <2> QED BY <2>1, ShiftedRest, HandoverAssumption
  <1> QED BY <1>4, <1>5, <1>6

\* ... of the right kind, and lead from one to the other.
LEMMA HoIdentities ==
    ASSUME NEW n \in UE
    PROVE  /\ n \in Nat /\ EnbId(n) \in 0 .. TEID_RANGE /\ MmeId(n) \in 0 .. TEID_RANGE
           /\ Imsi(n) \in ImsiHo /\ Imsi(n) # Nobody /\ HoKey(Imsi(n)) \in Key
           /\ Teid(n) \in Nat /\ Teid(n) \in Tunnel /\ Teid(n) + 1 \in Tunnel
           /\ Teid(n) # Teid(n) + 1 /\ Teid(n) + 1 # NoEntry
           /\ s1_uteid_ul(get_guti_of(MmeId(n))) = Teid(n)
           /\ s11_cteid_upf(get_guti_of(MmeId(n))) = Teid(n)
           /\ get_imsi_of(Teid(n)) = Imsi(n)
PROOF
  <1>1. PICK x, y \in Nat : x # 0 /\ \A k \in UE : Imsi(k) = x + k /\ Guti(k) = y + k
    BY HoOffsets
  <1>2. n \in Nat /\ n \in 0 .. (TEID_RANGE - 1) /\ TEID_RANGE \in Nat \ {0}
    BY HandoverAssumption, TelecomAssumption
  <1>3. Imsi(n) \in Nat /\ Imsi(n) # 0 /\ Guti(n) \in Nat
    BY <1>1, <1>2
  <1>4. Teid(n) \in 0 .. (TEID_RANGE - 1)
    BY <1>2, <1>3 DEF Teid, get_s11cteidamf
  <1>5. get_guti_of(MmeId(n)) = Guti(n)
    <2>1. (CHOOSE k \in UE : MmeId(k) = MmeId(n)) = n
      BY OwnIdentities
    <2> QED BY <2>1 DEF get_guti_of
  <1>6. get_imsi_of(Teid(n)) = Imsi(n)
    <2>1. (CHOOSE k \in UE : Teid(k) = Teid(n)) = n
      BY OwnIdentities
    <2> QED BY <2>1 DEF get_imsi_of
  <1>7. EnbId(n) \in 0 .. TEID_RANGE /\ MmeId(n) \in 0 .. TEID_RANGE
    BY <1>2 DEF EnbId, MmeId
  <1>8. s1_uteid_ul(Guti(n)) = Teid(n) /\ s11_cteid_upf(Guti(n)) = Teid(n)
    BY DEF s1_uteid_ul, s11_cteid_upf, Teid
  <1>9. Imsi(n) \in ImsiHo /\ Imsi(n) # Nobody /\ HoKey(Imsi(n)) \in Key
    BY <1>3 DEF ImsiHo, Nobody, Key
  <1>10. /\ Teid(n) \in Nat /\ Teid(n) \in Tunnel /\ Teid(n) + 1 \in Tunnel
         /\ Teid(n) # Teid(n) + 1 /\ Teid(n) + 1 # NoEntry
    BY <1>2, <1>4 DEF Tunnel, NoEntry
  <1> QED BY <1>2, <1>5, <1>6, <1>7, <1>8, <1>9, <1>10

\* The two connections of a UE.
LEMMA HoConns ==
    /\ \A c \in Conn : c[1] \in UE /\ (c = Src(c[1]) \/ c = Tgt(c[1]))
    /\ \A n \in UE : Src(n) \in Conn /\ Tgt(n) \in Conn /\ Src(n)[1] = n /\ Tgt(n)[1] = n
    /\ \A m, n \in UE : Src(m) # Tgt(n) /\ (m # n => Src(m) # Src(n) /\ Tgt(m) # Tgt(n))
BY DEF Conn, Src, Tgt

\* What the tables of the AMF and the UPF lead to has its type.
LEMMA HoLookups ==
    /\ \A i \in Tunnel : get_imsi_of(i) \in ImsiHo
    /\ \A i \in ImsiHo : HoKey(i) \in Key
    /\ NoN4 \in N4Msg /\ UpfIdle \in UpfLoc /\ OldDl \in Tunnel
PROOF
  <1>1. \A i \in Tunnel : get_imsi_of(i) \in ImsiHo
    <2> SUFFICES ASSUME NEW i \in Tunnel PROVE get_imsi_of(i) \in ImsiHo
      OBVIOUS
    <2>1. CASE \E n \in UE : Teid(n) = i
      <3>1. PICK n \in UE : Teid(n) = i
        BY <2>1
      <3> QED BY <3>1, HoIdentities
    <2>2. CASE ~ \E n \in UE : Teid(n) = i
      BY <2>2 DEF get_imsi_of, ImsiHo, Nobody
    <2> QED BY <2>1, <2>2
  <1>2. \A i \in ImsiHo : HoKey(i) \in Key
    BY DEF ImsiHo, Key, Nobody
  <1>3. Conn # {} /\ 0 \in Tunnel
    <2>1. PICK n \in UE : TRUE
      BY HandoverAssumption
    <2>2. <<n, "source">> \in Conn
      BY DEF Conn
    <2> QED BY <2>2, TelecomAssumption DEF Tunnel
  <1>4. (CHOOSE c \in Conn : TRUE) \in Conn
    BY <1>3
  <1>5. NoN4 \in N4Msg
    BY <1>3, <1>4 DEF NoN4, N4Msg
  <1>6. UpfIdle \in UpfLoc
    BY <1>3, <1>5 DEF UpfIdle, UpfLoc, ImsiHo
  <1> QED BY <1>1, <1>2, <1>3, <1>5, <1>6 DEF OldDl

-----------------------------------------------------------------------------
(***************************************************************************)
(* The initial states.                                                     *)
(***************************************************************************)
LEMMA HoInitKept == HoInit => HoInv
PROOF
  <1> SUFFICES ASSUME HoInit PROVE HoInv
    OBVIOUS
  <1>0. \A n \in UE : Teid(n) \in Tunnel /\ EnbId(n) \in 0 .. TEID_RANGE /\ MmeId(n) \in 0 .. TEID_RANGE
    BY HoIdentities
  <1>1. src \in [UE -> RanHo] /\ tgt \in [UE -> RanHo]
    <2>1. src = [n \in UE |-> [handover_state |-> 0, enb |-> EnbId(n), mme |-> MmeId(n),
                               ul |-> Teid(n), indirect |-> NoEntry, done |-> FALSE]]
      BY DEF HoInit
    <2>2. 0 \in Tunnel /\ 0 \in 0 .. TEID_RANGE
      BY TelecomAssumption DEF Tunnel
    <2>3. tgt = [n \in UE |-> [handover_state |-> 0, enb |-> 0, mme |-> 0, ul |-> 0,
                               indirect |-> NoEntry, done |-> FALSE]]
      BY DEF HoInit
    <2> QED BY <1>0, <2>1, <2>2, <2>3 DEF RanHo
  <1>2. \A n \in UE : /\ src[n].handover_state = 0 /\ src[n].mme = MmeId(n) /\ ~ src[n].done
                      /\ tgt[n].handover_state = 0 /\ ~ tgt[n].done
    BY DEF HoInit
  <1>3. \A c \in Conn : up[c] = <<>> /\ amf[c] = "idle" /\ out[c] = <<>>
    BY DEF HoInit
  <1>4. HoTypeOK
    <2>1. s1_id \in [Tunnel -> ImsiHo]
      BY HoLookups DEF HoInit
    <2>2. /\ up \in [Conn -> Seq(HoMsg)] /\ toSrc \in [UE -> Seq(HoMsg)]
          /\ toTgt \in [UE -> Seq(HoMsg)]
          /\ amf \in [Conn -> Waiting \cup Connecting \cup {"idle"}] /\ out \in [Conn -> Seq(HoMsg)]
          /\ n4req \subseteq N4Msg /\ n4rsp \subseteq N4Msg
      BY DEF HoInit
    <2>3. /\ dl \in [ImsiHo -> Tunnel] /\ ho_ue_ctx \in [Key -> Tunnel \cup {NoEntry}]
          /\ upf \in [UpfThread -> UpfLoc] /\ faults \in 0 .. MaxFault
      BY HoLookups, HandoverAssumption DEF HoInit
    <2>4. missed \in BOOLEAN /\ listening \in BOOLEAN /\ port \in AmfPorts
      BY Zenon DEF HoInit
    <2> QED BY <1>1, <2>1, <2>2, <2>3, <2>4 DEF HoTypeOK
  <1>5. HoData
    <2>1. \A c \in Conn : PacketData(c) /\ OutData(c)
      BY <1>3 DEF PacketData, OutData, Connecting
    <2>2. \A n \in UE : ForwardData(n)
      BY DEF HoInit, ForwardData
    <2>3. \A n \in UE : RanData(n)
      BY <1>2 DEF RanData
    <2> QED BY <2>1, <2>2, <2>3 DEF HoData
  <1>6. HoCalls
    BY DEF HoInit, HoCalls, Handler, Working, UpfIdle
  <1>7. Kept
    <2>0. Current
      BY DEF HoInit, Current, Working, OneWay, UpfIdle
    <2>1. \A c \in Conn : Carried(c)
      BY <1>3 DEF Carried, Waiting
    <2>2. TearsIndirect
      BY DEF TearsIndirect, HoInit, UpfIdle
    <2>3. ASSUME NEW n \in UE PROVE Before(n) /\ Tables(n)
      <3>1. Before(n)
        BY <1>2, <1>3, HoConns DEF Before, HoInit
      <3>3. ASSUME NEW i \in Tunnel, s1_id[i] = Imsi(n) PROVE i = Teid(n)
        <4>1. get_imsi_of(i) = Imsi(n) /\ Imsi(n) # 0
          BY <3>3, HoIdentities DEF HoInit, Nobody
        <4>2. PICK k \in UE : Teid(k) = i
          BY <4>1 DEF get_imsi_of
        <4>3. Imsi(k) = Imsi(n)
          BY <4>1, <4>2, HoIdentities
        <4> QED BY <4>2, <4>3, OwnIdentities
      <3> QED BY <1>2, <3>1, <3>3 DEF Tables
    <2>4. TunnelOwner
      BY HoIdentities DEF HoInit, TunnelOwner
    <2> QED BY <2>0, <2>1, <2>2, <2>3, <2>4 DEF Kept
  <1> QED BY <1>4, <1>5, <1>6, <1>7 DEF HoInv

-----------------------------------------------------------------------------
(***************************************************************************)
(* What steps that do not touch a part of the state leave true.            *)
(***************************************************************************)
SameUe(n) ==
    /\ src'[n] = src[n] /\ tgt'[n] = tgt[n] /\ toSrc'[n] = toSrc[n] /\ toTgt'[n] = toTgt[n]
    /\ up'[Src(n)] = up[Src(n)] /\ up'[Tgt(n)] = up[Tgt(n)]
    /\ amf'[Src(n)] = amf[Src(n)] /\ amf'[Tgt(n)] = amf[Tgt(n)]
    /\ out'[Src(n)] = out[Src(n)] /\ out'[Tgt(n)] = out[Tgt(n)]

LEMMA LineFrame ==
    ASSUME NEW n \in UE, SameUe(n), Before(n) \/ After(n)
    PROVE  (Before(n) \/ After(n))'
PROOF
  <1>1. CASE Before(n)
    BY <1>1 DEF SameUe, Before, One
  <1>2. CASE After(n)
    <2>1. /\ Idle(n)' = Idle(n) /\ Got(n)' = Got(n) /\ GotBoth(n)' = GotBoth(n)
          /\ Tears(n)' = Tears(n)
      BY DEF SameUe, Idle, Got, GotBoth, Tears, One, Two
    <2>2. /\ ToSetup(n)' = ToSetup(n) /\ Setup(n)' = Setup(n) /\ ToSwitch(n)' = ToSwitch(n)
          /\ Switch(n)' = Switch(n) /\ Switched(n)' = Switched(n)
          /\ SetupConn(n)' = SetupConn(n) /\ SwitchConn(n)' = SwitchConn(n)
      BY DEF SameUe, ToSetup, Setup, SetupConn, ToSwitch, Switch, SwitchConn, Switched, Rest, One, Two
    <2> QED BY <1>2, <2>1, <2>2 DEF After, SameUe
  <1> QED BY <1>1, <1>2

\* The tables of a UE, when nothing more is answered to its workers.
LEMMA TablesFrame ==
    ASSUME NEW n \in UE, SameUe(n), s1_id' = s1_id,
           ho_ue_ctx'[HoKey(Imsi(n))] = ho_ue_ctx[HoKey(Imsi(n))],
           \A m \in n4rsp' : m.conn \in {Src(n), Tgt(n)} => m \in n4rsp,
           Tables(n)
    PROVE  Tables(n)'
BY DEF SameUe, Tables, Replied

\* A step of the RANs, or one of the AMF that asks nobody, leaves the calls.
LEMMA CallsFrame ==
    ASSUME HoTypeOK, HoCalls, n4req' = n4req, n4rsp' = n4rsp, upf' = upf, amf' = amf,
           \A n \in UE : tgt[n].done => tgt'[n].done
    PROVE  HoCalls'
PROOF
  <1>0. /\ \A m \in n4req \cup n4rsp : m.conn[1] \in UE
        /\ \A t \in UpfThread : upf[t].pkt.conn[1] \in UE
    BY HoConns DEF HoTypeOK, N4Msg, UpfLoc
  <1>1. \A m \in n4req \cup n4rsp : MsgOk(m)'
    BY <1>0 DEF HoCalls, MsgOk
  <1>2. \A t \in UpfThread : Handler(t)'
    BY <1>0 DEF HoCalls, Handler, MsgOk, Working
  <1>3. \A m \in n4rsp : Waits(m)'
    BY DEF HoCalls, Waits
  <1> QED BY <1>1, <1>2, <1>3 DEF HoCalls

\* The workers have what they had for the RANs.
LEMMA OutFrame ==
    ASSUME HoData, amf' = amf, out' = out
    PROVE  \A c \in Conn : OutData(c)'
BY DEF HoData, OutData

\* A UE that its target has taken over stays so.
LEMMA OwnerFrame ==
    ASSUME TunnelOwner, s1_id' = s1_id,
           \A k \in UE : tgt[k].handover_state = 3 => tgt'[k].handover_state = 3
    PROVE  TunnelOwner'
BY DEF TunnelOwner, Overlaid

\* ... and leaves Kept to what it does to its own UE.
LEMMA KeptFrame ==
    ASSUME Kept, NEW n \in UE, n4req' = n4req, n4rsp' = n4rsp, upf' = upf, amf' = amf,
           s1_id' = s1_id, ho_ue_ctx' = ho_ue_ctx,
           \A k \in UE : k # n => SameUe(k),
           tgt[n].handover_state = 3 => tgt'[n].handover_state = 3,
           (Before(n) \/ After(n))', Tables(n)'
    PROVE  Kept'
PROOF
  <1>0. Current' /\ TunnelOwner'
    <2>1. Current'
      BY DEF Kept, Current, OneWay, Working, Waits
    <2>2. \A k \in UE : tgt[k].handover_state = 3 => tgt'[k].handover_state = 3
      BY DEF SameUe
    <2> QED BY <2>1, <2>2, OwnerFrame DEF Kept
  <1>1. \A c \in Conn : Carried(c)'
    BY DEF Kept, Carried, Asked, Handled, Replied, Working
  <1>2. TearsIndirect'
    BY DEF Kept, TearsIndirect
  <1>3. ASSUME NEW k \in UE, k # n PROVE (Before(k) \/ After(k))' /\ Tables(k)'
    BY <1>3, LineFrame, TablesFrame DEF Kept
  <1> QED BY <1>0, <1>1, <1>2, <1>3 DEF Kept

-----------------------------------------------------------------------------
(***************************************************************************)
(* Queues.                                                                 *)
(***************************************************************************)
LEMMA Appended ==
    ASSUME NEW q \in Seq(HoMsg), NEW m \in HoMsg
    PROVE  /\ Append(q, m) \in Seq(HoMsg) /\ Append(q, m) # <<>>
           /\ Len(q) \in Nat /\ Len(Append(q, m)) = Len(q) + 1
           /\ \A k \in 1 .. Len(q) : Append(q, m)[k] = q[k]
           /\ Append(q, m)[Len(q) + 1] = m
           /\ q = <<>> <=> Len(q) = 0
OBVIOUS

LEMMA Taken ==
    ASSUME NEW q \in Seq(HoMsg), q # <<>>
    PROVE  /\ Head(q) = q[1] /\ Head(q) \in HoMsg
           /\ Tail(q) \in Seq(HoMsg) /\ Len(q) \in Nat \ {0} /\ Len(Tail(q)) = Len(q) - 1
           /\ \A k \in 1 .. (Len(q) - 1) : Tail(q)[k] = q[k + 1]
           /\ Tail(q) = <<>> <=> Len(q) = 1
PROOF
  <1>1. Len(q) \in Nat \ {0} /\ Head(q) = q[1] /\ Head(q) \in HoMsg
    OBVIOUS
  <1>2. Tail(q) \in Seq(HoMsg) /\ Len(Tail(q)) = Len(q) - 1
    OBVIOUS
  <1>3. \A k \in 1 .. (Len(q) - 1) : Tail(q)[k] = q[k + 1]
    OBVIOUS
  <1>4. \A r \in Seq(HoMsg) : r = <<>> <=> Len(r) = 0
    OBVIOUS
  <1>5. Tail(q) = <<>> <=> Len(Tail(q)) = 0
    BY <1>2, <1>4
  <1>6. Len(q) - 1 = 0 <=> Len(q) = 1
    BY <1>1
  <1> QED BY <1>1, <1>2, <1>3, <1>5, <1>6

\* The packets of a connection to the AMF, when nothing, a packet more or the
\* first packet less is in the queue.
LEMMA PacketFrame ==
    ASSUME NEW c \in Conn, PacketData(c), up[c] \in Seq(HoMsg),
           tgt[c[1]].done => tgt'[c[1]].done,
           \/ up'[c] = up[c]
           \/ up[c] # <<>> /\ up'[c] = Tail(up[c])
           \/ \E m \in HoMsg : /\ up'[c] = Append(up[c], m) /\ m.mme = MmeId(c[1])
                               /\ m.type = 9 => c = Tgt(c[1]) /\ tgt'[c[1]].done
    PROVE  PacketData(c)'
PROOF
  <1>1. CASE up'[c] = up[c]
    BY <1>1 DEF PacketData
  <1>2. CASE up[c] # <<>> /\ up'[c] = Tail(up[c])
    <2>1. /\ Len(up[c]) \in Nat \ {0} /\ Len(up'[c]) = Len(up[c]) - 1
          /\ \A k \in 1 .. (Len(up[c]) - 1) : up'[c][k] = up[c][k + 1]
      BY <1>2, Taken
    <2> QED BY <2>1 DEF PacketData
  <1>3. CASE \E m \in HoMsg : /\ up'[c] = Append(up[c], m) /\ m.mme = MmeId(c[1])
                              /\ m.type = 9 => c = Tgt(c[1]) /\ tgt'[c[1]].done
    <2>0. PICK m \in HoMsg : /\ up'[c] = Append(up[c], m) /\ m.mme = MmeId(c[1])
                             /\ m.type = 9 => c = Tgt(c[1]) /\ tgt'[c[1]].done
      BY <1>3
    <2>1. /\ Len(up'[c]) = Len(up[c]) + 1 /\ Len(up[c]) \in Nat /\ up'[c][Len(up[c]) + 1] = m
          /\ \A k \in 1 .. Len(up[c]) : up'[c][k] = up[c][k]
      BY <2>0, Appended
    <2> QED BY <2>0, <2>1 DEF PacketData
  <1> QED BY <1>1, <1>2, <1>3

-----------------------------------------------------------------------------
(***************************************************************************)
(* The steps of the RANs.                                                  *)
(***************************************************************************)
LEMMA InitiateKeeps ==
    ASSUME HoInv, NEW n \in UE, initiate_handover(n)
    PROVE  HoInv'
PROOF
  <1> DEFINE m == S1apHo(7, src[n].enb, src[n].mme, 0)
  <1>0. HoTypeOK /\ HoData /\ HoCalls /\ (~ missed => Kept)
    BY DEF HoInv
  <1>1. /\ src[n].handover_state = 0 /\ src' = [src EXCEPT ![n].handover_state = 1]
        /\ up' = [up EXCEPT ![Src(n)] = Append(@, m)]
        /\ UNCHANGED <<tgt, toSrc, toTgt, amf, out, n4req, n4rsp, s1_id, dl, ho_ue_ctx, upf, listening, port, faults, missed>>
    BY DEF initiate_handover, upfHo, envHo, Src
  <1>2. src[n] \in RanHo /\ src[n].mme = MmeId(n)
    BY <1>0 DEF HoTypeOK, HoData, RanData
  <1>3. m \in HoMsg /\ m.type = 7 /\ m.mme = MmeId(n)
    BY <1>2, TelecomAssumption DEF S1apHo, HoMsg, RanHo, Tunnel
  <1> HIDE DEF m
  <1>4. Src(n) \in Conn /\ up \in [Conn -> Seq(HoMsg)]
    BY <1>0, HoConns DEF HoTypeOK
  <1>5. HoTypeOK'
    <2>1. src' \in [UE -> RanHo]
      <3>1. [src[n] EXCEPT !.handover_state = 1] \in RanHo
        BY <1>2 DEF RanHo
      <3> QED BY <1>0, <1>1, <3>1 DEF HoTypeOK
    <2>2. up' \in [Conn -> Seq(HoMsg)]
      BY <1>1, <1>3, <1>4, Appended
    <2> QED BY <1>0, <1>1, <2>1, <2>2 DEF HoTypeOK
  <1>6. HoData'
    <2>1. \A k \in UE : RanData(k)' /\ ForwardData(k)'
      BY <1>0, <1>1 DEF HoData, HoTypeOK, RanHo, RanData, ForwardData
    <2>2. ASSUME NEW c \in Conn PROVE PacketData(c)'
      <3>1. /\ PacketData(c) /\ tgt'[c[1]] = tgt[c[1]] /\ Src(n)[1] = n
            /\ up'[c] = IF c = Src(n) THEN Append(up[c], m) ELSE up[c]
        BY <1>0, <1>1, <1>4, HoConns DEF HoData
      <3>2. c = Src(n) => /\ up'[c] = Append(up[c], m) /\ m.mme = MmeId(c[1]) /\ m.type # 9
        BY <1>3, <3>1
      <3> QED BY <1>3, <1>4, <3>1, <3>2, PacketFrame
    <2> QED BY <1>0, <1>1, <2>1, <2>2, OutFrame DEF HoData
  <1>7. HoCalls'
    BY <1>0, <1>1, CallsFrame
  <1>8. ASSUME ~ missed' PROVE Kept'
    <2>1. Kept
      BY <1>0, <1>1, <1>8
    <2>2. Before(n) /\ up[Src(n)] = <<>>
      BY <1>1, <2>1 DEF Kept, Before, After
    <2>3. One(up'[Src(n)], 7)
      BY <1>1, <1>3, <1>4, <2>2, Appended DEF One
    <2>4. Tgt(n) \in Conn /\ up'[Tgt(n)] = up[Tgt(n)]
      BY <1>1, <1>4, HoConns
    <2>5. src'[n].handover_state = 1 /\ src'[n].done = src[n].done
      BY <1>0, <1>1 DEF HoTypeOK, RanHo
    <2>6. Before(n)'
      BY <1>1, <2>2, <2>3, <2>4, <2>5 DEF Before
    <2>7. Tables(n)'
      BY <1>1, <2>1, <2>2, <2>4, <2>5 DEF Before, Kept, Tables, Replied
    <2>8. \A k \in UE : k # n => SameUe(k)
      BY <1>0, <1>1, <1>4, HoConns DEF SameUe, HoTypeOK
    <2> QED BY <1>1, <2>1, <2>6, <2>7, <2>8, KeptFrame
  <1> QED BY <1>5, <1>6, <1>7, <1>8 DEF HoInv

LEMMA HandleKeeps ==
    ASSUME HoInv, NEW n \in UE, handle_handover(n)
    PROVE  HoInv'
PROOF
  <1> DEFINE h == Head(toTgt[n])
             m == S1apHo(8, h.enb, h.mme, h.enb)
             r == [tgt[n] EXCEPT !.handover_state = 3, !.enb = h.enb, !.mme = h.mme, !.ul = h.teid]
  <1>0. HoTypeOK /\ HoData /\ HoCalls /\ (~ missed => Kept)
    BY DEF HoInv
  <1>1. /\ toTgt[n] # <<>> /\ toTgt' = [toTgt EXCEPT ![n] = Tail(@)]
        /\ tgt' = [tgt EXCEPT ![n] = r]
        /\ up' = [up EXCEPT ![Tgt(n)] = Append(@, m)]
        /\ UNCHANGED <<src, toSrc, amf, out, n4req, n4rsp, s1_id, dl, ho_ue_ctx, upf, listening, port, faults, missed>>
    BY DEF handle_handover, upfHo, envHo, Tgt
  <1>2. toTgt[n] \in Seq(HoMsg) /\ tgt[n] \in RanHo /\ ForwardData(n)
    BY <1>0 DEF HoTypeOK, HoData
  <1>3. /\ h \in HoMsg /\ h.mme = MmeId(n) /\ h.teid = Teid(n)
        /\ Tail(toTgt[n]) \in Seq(HoMsg) /\ Len(toTgt[n]) \in Nat \ {0}
        /\ Len(Tail(toTgt[n])) = Len(toTgt[n]) - 1
        /\ \A k \in 1 .. (Len(toTgt[n]) - 1) : Tail(toTgt[n])[k] = toTgt[n][k + 1]
        /\ Tail(toTgt[n]) = <<>> <=> Len(toTgt[n]) = 1
    <2>1. h = toTgt[n][1] /\ h \in HoMsg /\ 1 \in 1 .. Len(toTgt[n])
      BY <1>1, <1>2, Taken
    <2> QED BY <1>1, <1>2, <2>1, Taken DEF ForwardData
  <1>4. m \in HoMsg /\ m.type = 8 /\ m.mme = MmeId(n)
    BY <1>3 DEF S1apHo, HoMsg, Tunnel
  <1> HIDE DEF h
  <1>5. /\ r \in RanHo /\ r.handover_state = 3 /\ r.mme = MmeId(n) /\ r.ul = Teid(n)
        /\ r.done = tgt[n].done
    <2>1. r.handover_state = 3 /\ r.mme = MmeId(n) /\ r.ul = Teid(n) /\ r.done = tgt[n].done
      BY <1>2, <1>3 DEF RanHo
    <2>2. h.enb \in 0 .. TEID_RANGE /\ h.mme \in 0 .. TEID_RANGE /\ h.teid \in Tunnel
      BY <1>3 DEF HoMsg
    <2>3. r \in RanHo
      <3>1. 3 \in 0 .. 4
        OBVIOUS
      <3> QED BY <1>2, <2>2, <3>1, Zenon DEF RanHo
    <2> QED BY <2>1, <2>3
  <1> HIDE DEF m, r
  <1>6. Tgt(n) \in Conn /\ up \in [Conn -> Seq(HoMsg)]
    BY <1>0, HoConns DEF HoTypeOK
  <1>7. HoTypeOK'
    <2>1. tgt' \in [UE -> RanHo] /\ toTgt' \in [UE -> Seq(HoMsg)]
      BY <1>0, <1>1, <1>3, <1>5 DEF HoTypeOK
    <2>2. up' \in [Conn -> Seq(HoMsg)]
      BY <1>1, <1>4, <1>6, Appended
    <2> QED BY <1>0, <1>1, <2>1, <2>2 DEF HoTypeOK
  <1>8. \A k \in UE : tgt'[k].done = tgt[k].done
    BY <1>0, <1>1, <1>5 DEF HoTypeOK
  <1>9. HoData'
    <2>1. \A k \in UE : RanData(k)'
      BY <1>0, <1>1, <1>5 DEF HoData, HoTypeOK, RanData
    <2>2. \A k \in UE : ForwardData(k)'
      <3>1. ForwardData(n)'
        BY <1>0, <1>1, <1>2, <1>3 DEF HoTypeOK, ForwardData
      <3>2. \A k \in UE : k # n => ForwardData(k)'
        BY <1>0, <1>1 DEF HoTypeOK, HoData, ForwardData
      <3> QED BY <3>1, <3>2
    <2>3. ASSUME NEW c \in Conn PROVE PacketData(c)'
      <3>1. /\ PacketData(c) /\ tgt'[c[1]].done = tgt[c[1]].done /\ Tgt(n)[1] = n
            /\ up'[c] = IF c = Tgt(n) THEN Append(up[c], m) ELSE up[c]
        BY <1>0, <1>1, <1>6, <1>8, HoConns DEF HoData
      <3>2. c = Tgt(n) => /\ up'[c] = Append(up[c], m) /\ m.mme = MmeId(c[1]) /\ m.type # 9
        BY <1>4, <3>1
      <3> QED BY <1>4, <1>6, <3>1, <3>2, PacketFrame
    <2> QED BY <1>0, <1>1, <2>1, <2>2, <2>3, OutFrame DEF HoData
  <1>10. HoCalls'
    BY <1>0, <1>1, <1>8, CallsFrame
  <1>11. ASSUME ~ missed' PROVE Kept'
    <2>1. Kept
      BY <1>0, <1>1, <1>11
    <2>2. /\ Before(n) /\ up[Src(n)] = <<>> /\ One(toTgt[n], 7) /\ src[n].handover_state # 0
          /\ ~ tgt[n].done /\ amf[Src(n)] = "idle"
      BY <1>0, <1>1, <2>1 DEF Kept, Before, After, HoData, RanData
    <2>3. One(up'[Tgt(n)], 8) /\ toTgt'[n] = <<>>
      <3>1. up[Tgt(n)] = <<>> /\ up'[Tgt(n)] = Append(up[Tgt(n)], m)
        BY <1>1, <1>6, <2>2 DEF Before
      <3>2. toTgt'[n] = Tail(toTgt[n]) /\ Len(toTgt[n]) = 1
        BY <1>0, <1>1, <2>2 DEF HoTypeOK, One
      <3> QED BY <1>3, <1>4, <1>6, <3>1, <3>2, Appended DEF One
    <2>4. Src(n) \in Conn /\ up'[Src(n)] = up[Src(n)]
      BY <1>1, <1>6, HoConns
    <2>5. tgt'[n].handover_state = 3 /\ ~ tgt'[n].done
      BY <1>0, <1>1, <1>5, <2>2 DEF HoTypeOK
    <2>6. After(n)'
      BY <1>1, <2>2, <2>3, <2>4, <2>5 DEF Before, After, Idle, ToSetup
    <2>7. Tables(n)'
      BY <1>1, <2>1, <2>2, <2>5 DEF Before, Kept, Tables, Replied
    <2>8. \A k \in UE : k # n => SameUe(k)
      BY <1>0, <1>1, <1>6, HoConns DEF SameUe, HoTypeOK
    <2> QED BY <1>1, <2>1, <2>6, <2>7, <2>5, <2>8, KeptFrame
  <1> QED BY <1>7, <1>9, <1>10, <1>11 DEF HoInv

LEMMA IndirectKeeps ==
    ASSUME HoInv, NEW n \in UE, indirect_tunnel_complete(n)
    PROVE  HoInv'
PROOF
  <1> DEFINE h == Head(toSrc[n])
             r == [src[n] EXCEPT !.handover_state = 4, !.indirect = h.teid]
  <1>0. HoTypeOK /\ HoData /\ HoCalls /\ (~ missed => Kept)
    BY DEF HoInv
  <1>1. /\ toSrc[n] # <<>> /\ h.type = 8 /\ toSrc' = [toSrc EXCEPT ![n] = Tail(@)]
        /\ src' = [src EXCEPT ![n] = r]
        /\ UNCHANGED <<tgt, up, toTgt, amf, out, n4req, n4rsp, s1_id, dl, ho_ue_ctx, upf, listening, port, faults, missed>>
    BY DEF indirect_tunnel_complete, upfHo, envHo
  <1>2. toSrc[n] \in Seq(HoMsg) /\ src[n] \in RanHo /\ src[n].mme = MmeId(n)
    BY <1>0 DEF HoTypeOK, HoData, RanData
  <1>3. /\ h \in HoMsg /\ h = toSrc[n][1]
        /\ Tail(toSrc[n]) \in Seq(HoMsg) /\ Len(toSrc[n]) \in Nat \ {0}
        /\ Len(Tail(toSrc[n])) = Len(toSrc[n]) - 1
        /\ \A k \in 1 .. (Len(toSrc[n]) - 1) : Tail(toSrc[n])[k] = toSrc[n][k + 1]
        /\ Tail(toSrc[n]) = <<>> <=> Len(toSrc[n]) = 1
    BY <1>1, <1>2, Taken
  <1> HIDE DEF h
  <1>4. /\ r \in RanHo /\ r.handover_state = 4 /\ r.mme = MmeId(n) /\ r.done = src[n].done
        /\ r.indirect = h.teid
    <2>1. /\ r.handover_state = 4 /\ r.mme = MmeId(n) /\ r.indirect = h.teid
          /\ r.done = src[n].done
      BY <1>2, <1>3 DEF RanHo
    <2>2. h.teid \in Tunnel
      BY <1>3 DEF HoMsg
    <2>3. r \in RanHo
      <3>1. 4 \in 0 .. 4
        OBVIOUS
      <3> QED BY <1>2, <2>2, <3>1, Zenon DEF RanHo
    <2> QED BY <2>1, <2>3
  <1> HIDE DEF r
  <1>5. HoTypeOK'
    BY <1>0, <1>1, <1>3, <1>4 DEF HoTypeOK
  <1>6. HoData'
    BY <1>0, <1>1, <1>4, OutFrame DEF HoTypeOK, HoData, RanData, ForwardData, PacketData
  <1>7. HoCalls'
    BY <1>0, <1>1, CallsFrame
  <1>8. ASSUME ~ missed' PROVE Kept'
    <2>1. Kept
      BY <1>0, <1>1, <1>8
    <2>2. After(n) /\ Idle(n)
      BY <1>1, <2>1 DEF Kept, Before, After, Tears
    <2>3. src'[n] = r /\ toSrc'[n] = Tail(toSrc[n])
      BY <1>0, <1>1 DEF HoTypeOK
    <2>4. Idle(n)'
      BY <1>1, <1>4, <2>2, <2>3 DEF Idle
    <2>5. /\ ToSwitch(n)' <=> ToSwitch(n)
          /\ Switch(n)' <=> Switch(n)
          /\ SwitchConn(n)' <=> SwitchConn(n)
          /\ Switched(n)' <=> Switched(n)
      BY <1>1 DEF ToSwitch, Switch, SwitchConn, Switched, Rest, One
    <2>6. ASSUME Got(n), ToSwitch(n) \/ Switch(n) \/ SwitchConn(n) PROVE After(n)'
      <3>1. One(toSrc[n], 8) /\ h.teid = Teid(n) + 1
        BY <1>1, <1>3, <2>6 DEF Got
      <3>2. Got(n)'
        BY <1>3, <1>4, <2>3, <3>1 DEF Got, One
      <3> QED BY <1>1, <1>4, <2>2, <2>3, <2>4, <2>5, <2>6, <3>2 DEF After
    <2>7. ASSUME GotBoth(n), Switched(n) PROVE After(n)'
      <3>1. Two(toSrc[n], 8, 9) /\ h.teid = Teid(n) + 1
        BY <1>1, <1>3, <2>7 DEF GotBoth, One
      <3>2. GotBoth(n)'
        BY <1>3, <1>4, <2>3, <3>1 DEF GotBoth, One, Two
      <3> QED BY <1>1, <1>4, <2>2, <2>3, <2>4, <2>5, <2>7, <3>2 DEF After
    <2>8. After(n)'
      <3>1. ~ (Idle(n) /\ Tears(n)) /\ toSrc[n] # <<>>
        BY <1>1 DEF Idle, Tears
      <3> QED BY <2>2, <2>6, <2>7, <3>1 DEF After
    <2>9. Tables(n)'
      BY <1>1, <1>4, <2>1, <2>3 DEF Kept, Tables, Replied
    <2>10. \A k \in UE : k # n => SameUe(k)
      BY <1>0, <1>1 DEF SameUe, HoTypeOK
    <2> QED BY <1>1, <2>1, <2>8, <2>9, <2>10, KeptFrame
  <1> QED BY <1>5, <1>6, <1>7, <1>8 DEF HoInv

LEMMA CompleteKeeps ==
    ASSUME HoInv, NEW n \in UE, complete_handover(n)
    PROVE  HoInv'
PROOF
  <1> DEFINE m == S1apHo(9, tgt[n].enb, tgt[n].mme, 0)
             r == [tgt[n] EXCEPT !.done = TRUE]
  <1>0. HoTypeOK /\ HoData /\ HoCalls /\ (~ missed => Kept)
    BY DEF HoInv
  <1>1. /\ tgt[n].handover_state = 3 /\ ~ tgt[n].done
        /\ up' = [up EXCEPT ![Tgt(n)] = Append(@, m)]
        /\ UNCHANGED <<src, toSrc, toTgt, amf, out, n4req, n4rsp, s1_id, dl, ho_ue_ctx, upf, listening, port, faults, missed>>
    BY DEF complete_handover, upfHo, envHo, Tgt
  <1>2. tgt[n] \in RanHo /\ tgt[n].mme = MmeId(n) /\ tgt[n].ul = Teid(n)
    BY <1>0, <1>1 DEF HoTypeOK, HoData, RanData
  <1>3. tgt' = [tgt EXCEPT ![n] = r]
    BY <1>0 DEF complete_handover, HoTypeOK
  <1>4. m \in HoMsg /\ m.type = 9 /\ m.mme = MmeId(n)
    BY <1>2, TelecomAssumption DEF S1apHo, HoMsg, RanHo, Tunnel
  <1>5. /\ r \in RanHo /\ r.handover_state = 3 /\ r.mme = MmeId(n) /\ r.ul = Teid(n)
        /\ r.done
    BY <1>1, <1>2 DEF RanHo
  <1> HIDE DEF m, r
  <1>6. Tgt(n) \in Conn /\ up \in [Conn -> Seq(HoMsg)]
    BY <1>0, HoConns DEF HoTypeOK
  <1>7. HoTypeOK'
    <2>1. tgt' \in [UE -> RanHo]
      BY <1>0, <1>3, <1>5 DEF HoTypeOK
    <2>2. up' \in [Conn -> Seq(HoMsg)]
      BY <1>1, <1>4, <1>6, Appended
    <2> QED BY <1>0, <1>1, <2>1, <2>2 DEF HoTypeOK
  <1>8. \A k \in UE : tgt[k].done => tgt'[k].done
    BY <1>0, <1>3, <1>5 DEF HoTypeOK
  <1>9. HoData'
    <2>1. \A k \in UE : RanData(k)' /\ ForwardData(k)'
      BY <1>0, <1>1, <1>3, <1>5 DEF HoData, HoTypeOK, RanData, ForwardData
    <2>2. ASSUME NEW c \in Conn PROVE PacketData(c)'
      <3>1. /\ PacketData(c) /\ c[1] \in UE /\ Tgt(n)[1] = n
            /\ up'[c] = IF c = Tgt(n) THEN Append(up[c], m) ELSE up[c]
        BY <1>0, <1>1, <1>6, HoConns DEF HoData
      <3>2. c = Tgt(n) => /\ up'[c] = Append(up[c], m) /\ m.mme = MmeId(c[1])
                          /\ c = Tgt(c[1]) /\ tgt'[c[1]].done
        BY <1>0, <1>3, <1>4, <1>5, <3>1 DEF HoTypeOK
      <3> QED BY <1>4, <1>6, <1>8, <3>1, <3>2, PacketFrame
    <2> QED BY <1>0, <1>1, <2>1, <2>2, OutFrame DEF HoData
  <1>10. HoCalls'
    BY <1>0, <1>1, <1>8, CallsFrame
  <1>11. ASSUME ~ missed' PROVE Kept'
    <2>1. Kept
      BY <1>0, <1>1, <1>11
    <2>2. After(n)
      BY <1>1, <2>1 DEF Kept, Before
    <2>3. /\ up'[Tgt(n)] = Append(up[Tgt(n)], m) /\ tgt'[n] = r
          /\ Src(n) \in Conn /\ up'[Src(n)] = up[Src(n)]
      BY <1>0, <1>1, <1>3, <1>6, HoConns DEF HoTypeOK
    <2>4. /\ Idle(n)' <=> Idle(n)
          /\ Got(n)' <=> Got(n)
          /\ toSrc'[n] = toSrc[n]
      BY <1>1, <2>3 DEF Idle, Got, One
    <2>5. ~ Switch(n) /\ ~ SwitchConn(n) /\ ~ Switched(n)
      BY <1>1 DEF Switch, SwitchConn, Switched
    <2>6. ToSetup(n) => ToSetup(n)'
      <3>1. ASSUME One(up[Tgt(n)], 8) PROVE Two(up'[Tgt(n)], 8, 9)
        <4>1. Len(up[Tgt(n)]) = 1 /\ up[Tgt(n)] \in Seq(HoMsg)
          BY <1>6, <3>1 DEF One
        <4>2. Len(up'[Tgt(n)]) = 2 /\ up'[Tgt(n)][1] = up[Tgt(n)][1] /\ up'[Tgt(n)][2] = m
          BY <1>4, <2>3, <4>1, Appended
        <4> QED BY <1>4, <3>1, <4>2 DEF One, Two
      <3> QED BY <1>1, <1>5, <2>3, <3>1 DEF ToSetup
    <2>7. Rest(n) => Rest(n)'
      BY <1>1, <1>4, <1>5, <1>6, <2>3, Appended DEF Rest, One
    <2>8. After(n)'
      BY <1>1, <1>5, <2>2, <2>3, <2>4, <2>5, <2>6, <2>7
         DEF After, Setup, SetupConn, ToSwitch, One
    <2>9. up'[Tgt(n)] # <<>>
      BY <1>4, <1>6, <2>3, Appended
    <2>10. Tables(n)'
      BY <1>1, <2>1, <2>3, <2>9 DEF Kept, Tables, Replied
    <2>11. \A k \in UE : k # n => SameUe(k)
      BY <1>0, <1>1, <1>3, <1>6, HoConns DEF SameUe, HoTypeOK
    <2> QED BY <1>1, <2>1, <2>8, <2>10, <2>11, <1>5, <2>3, KeptFrame
  <1> QED BY <1>7, <1>9, <1>10, <1>11 DEF HoInv

LEMMA TearDownKeeps ==
    ASSUME HoInv, NEW n \in UE, request_tear_down(n)
    PROVE  HoInv'
PROOF
  <1>0. HoTypeOK /\ HoData /\ HoCalls /\ (~ missed => Kept)
    BY DEF HoInv
  <1> PICK g \in (IF src[n].indirect = NoEntry THEN Tunnel ELSE {src[n].indirect}) :
        up' = [up EXCEPT ![Src(n)] = Append(@, S1apHo(10, src[n].enb, src[n].mme, g))]
    BY DEF request_tear_down, Src
  <1>a. g \in Tunnel /\ (src[n].indirect # NoEntry => g = src[n].indirect)
    BY <1>0 DEF HoTypeOK, RanHo
  <1> DEFINE m == S1apHo(10, src[n].enb, src[n].mme, g)
             r == [src[n] EXCEPT !.ul = 0, !.done = TRUE]
  <1>1. /\ toSrc[n] # <<>> /\ Head(toSrc[n]).type = 9 /\ toSrc' = [toSrc EXCEPT ![n] = Tail(@)]
        /\ src' = [src EXCEPT ![n] = r]
        /\ up' = [up EXCEPT ![Src(n)] = Append(@, m)]
        /\ UNCHANGED <<tgt, toTgt, amf, out, n4req, n4rsp, s1_id, dl, ho_ue_ctx, upf, listening, port, faults, missed>>
    BY DEF request_tear_down, upfHo, envHo, Src
  <1>2. toSrc[n] \in Seq(HoMsg) /\ src[n] \in RanHo /\ src[n].mme = MmeId(n)
    BY <1>0 DEF HoTypeOK, HoData, RanData
  <1>3. /\ Head(toSrc[n]) = toSrc[n][1] /\ Tail(toSrc[n]) \in Seq(HoMsg)
        /\ Tail(toSrc[n]) = <<>> <=> Len(toSrc[n]) = 1
    BY <1>1, <1>2, Taken
  <1>4. m \in HoMsg /\ m.type = 10 /\ m.mme = MmeId(n) /\ m.teid = g
    BY <1>2, <1>a DEF S1apHo, HoMsg, RanHo
  <1>5. /\ r \in RanHo /\ r.mme = MmeId(n) /\ r.handover_state = src[n].handover_state
        /\ r.done
    <2>1. 0 \in Tunnel
      BY TelecomAssumption DEF Tunnel
    <2>2. r \in RanHo
      BY <1>2, <2>1, Zenon DEF RanHo
    <2> QED BY <1>2, <2>2 DEF RanHo
  <1> HIDE DEF m, r
  <1>6. Src(n) \in Conn /\ up \in [Conn -> Seq(HoMsg)]
    BY <1>0, HoConns DEF HoTypeOK
  <1>7. HoTypeOK'
    <2>1. src' \in [UE -> RanHo] /\ toSrc' \in [UE -> Seq(HoMsg)]
      BY <1>0, <1>1, <1>3, <1>5 DEF HoTypeOK
    <2>2. up' \in [Conn -> Seq(HoMsg)]
      BY <1>1, <1>4, <1>6, Appended
    <2> QED BY <1>0, <1>1, <2>1, <2>2 DEF HoTypeOK
  <1>8. HoData'
    <2>1. \A k \in UE : RanData(k)' /\ ForwardData(k)'
      BY <1>0, <1>1, <1>5 DEF HoData, HoTypeOK, RanData, ForwardData
    <2>2. ASSUME NEW c \in Conn PROVE PacketData(c)'
      <3>1. /\ PacketData(c) /\ tgt'[c[1]] = tgt[c[1]] /\ Src(n)[1] = n
            /\ up'[c] = IF c = Src(n) THEN Append(up[c], m) ELSE up[c]
        BY <1>0, <1>1, <1>6, HoConns DEF HoData
      <3>2. c = Src(n) => /\ up'[c] = Append(up[c], m) /\ m.mme = MmeId(c[1]) /\ m.type # 9
        BY <1>4, <3>1
      <3> QED BY <1>4, <1>6, <3>1, <3>2, PacketFrame
    <2> QED BY <1>0, <1>1, <2>1, <2>2, OutFrame DEF HoData
  <1>9. HoCalls'
    BY <1>0, <1>1, CallsFrame
  <1>10. ASSUME ~ missed' PROVE Kept'
    <2>1. Kept
      BY <1>0, <1>1, <1>10
    <2>2. toSrc[n][1].type = 9 /\ toSrc[n] # <<>>
      BY <1>1, <1>3
    <2>3. /\ After(n) /\ Idle(n) /\ GotBoth(n) /\ Switched(n)
          /\ One(toSrc[n], 9) /\ src[n].indirect = Teid(n) + 1
      BY <2>1, <2>2 DEF Kept, Before, After, Tears, Got, GotBoth, One, Two
    <2>a. g = Teid(n) + 1
      BY <1>a, <2>3, HoIdentities
    <2>4. src'[n] = r /\ toSrc'[n] = <<>>
      BY <1>0, <1>1, <1>3, <2>3 DEF HoTypeOK, One
    <2>5. /\ up'[Src(n)] = Append(up[Src(n)], m) /\ up[Src(n)] = <<>>
          /\ Tgt(n) \in Conn /\ up'[Tgt(n)] = up[Tgt(n)]
      BY <1>1, <1>6, <2>3, HoConns DEF Idle
    <2>6. One(up'[Src(n)], 10) /\ up'[Src(n)][1].teid = Teid(n) + 1 /\ up'[Src(n)] # <<>>
      BY <1>4, <1>6, <2>5, <2>a, Appended DEF One
    <2>7. Tears(n)'
      BY <1>1, <1>5, <2>3, <2>4, <2>6 DEF Tears, Idle
    <2>8. Switched(n)'
      BY <1>1, <2>3, <2>5 DEF Switched
    <2>9. After(n)'
      BY <1>1, <1>5, <2>3, <2>4, <2>7, <2>8 DEF After
    <2>10. Tables(n)'
      BY <1>1, <2>1, <2>5, <2>6 DEF Kept, Tables, Replied
    <2>11. \A k \in UE : k # n => SameUe(k)
      BY <1>0, <1>1, <1>6, HoConns DEF SameUe, HoTypeOK
    <2> QED BY <1>1, <2>1, <2>9, <2>10, <2>11, KeptFrame
  <1> QED BY <1>7, <1>8, <1>9, <1>10 DEF HoInv

-----------------------------------------------------------------------------
(***************************************************************************)
(* The steps of the AMF.                                                   *)
(***************************************************************************)
\* A packet the AMF serves is about the UE of its connection.
LEMMA Served ==
    ASSUME HoTypeOK, HoData, NEW c \in Conn, NEW type, Serve(c, type)
    PROVE  /\ amf[c] = "idle" /\ up[c] # <<>> /\ up[c][1].type = type
           /\ Head(up[c]) = up[c][1] /\ Head(up[c]) \in HoMsg
           /\ up[c][1].mme = MmeId(c[1])
           /\ type = 9 => c = Tgt(c[1]) /\ tgt[c[1]].done
           /\ up' = [up EXCEPT ![c] = Tail(@)] /\ up' \in [Conn -> Seq(HoMsg)]
           /\ up'[c] = <<>> <=> Len(up[c]) = 1
           /\ Len(up[c]) = 2 => Len(up'[c]) = 1 /\ up'[c][1] = up[c][2]
           /\ tgt' = tgt => \A d \in Conn : PacketData(d)'
PROOF
  <1>1. /\ amf[c] = "idle" /\ up[c] # <<>> /\ Head(up[c]).type = type
        /\ up' = [up EXCEPT ![c] = Tail(@)]
    BY DEF Serve
  <1>2. up \in [Conn -> Seq(HoMsg)] /\ up[c] \in Seq(HoMsg) /\ PacketData(c)
    BY DEF HoTypeOK, HoData
  <1>3. /\ Head(up[c]) = up[c][1] /\ Head(up[c]) \in HoMsg /\ Tail(up[c]) \in Seq(HoMsg)
        /\ Len(up[c]) \in Nat \ {0} /\ Len(Tail(up[c])) = Len(up[c]) - 1
        /\ \A k \in 1 .. (Len(up[c]) - 1) : Tail(up[c])[k] = up[c][k + 1]
        /\ Tail(up[c]) = <<>> <=> Len(up[c]) = 1
    BY <1>1, <1>2, Taken
  <1>4. up'[c] = Tail(up[c]) /\ up' \in [Conn -> Seq(HoMsg)]
    BY <1>1, <1>2, <1>3
  <1>5. up[c][1].mme = MmeId(c[1]) /\ (type = 9 => c = Tgt(c[1]) /\ tgt[c[1]].done)
    BY <1>1, <1>2, <1>3 DEF PacketData
  <1>6. ASSUME tgt' = tgt, NEW d \in Conn PROVE PacketData(d)'
    BY <1>1, <1>2, <1>6, PacketFrame DEF HoData
  <1> QED BY <1>1, <1>3, <1>4, <1>5, <1>6

\* The worker of a call waits for it.
LEMMA StartWaits == \A m \in N4Msg : Start(m.op) \in Waiting /\ m.conn \in Conn
PROOF
  <1> SUFFICES ASSUME NEW m \in N4Msg PROVE Start(m.op) \in Waiting /\ m.conn \in Conn
    OBVIOUS
  <1>1. m.op \in {4, 5, 6} /\ m.conn \in Conn
    BY DEF N4Msg
  <1> QED BY <1>1 DEF Start, Waiting

\* A worker that waits for nothing has no answer under way, and no call at all
\* when every call gets its answer.
LEMMA QuietIdle ==
    ASSUME HoTypeOK, HoCalls, NEW c \in Conn, amf[c] \notin Waiting
    PROVE  /\ \A m \in n4rsp : m.conn # c
           /\ Current => /\ \A m \in n4req : m.conn # c
                         /\ \A t \in UpfThread : Working(t) => upf[t].pkt.conn # c
PROOF
  <1>1. ASSUME NEW m \in N4Msg, Waits(m) PROVE m.conn # c
    BY <1>1, StartWaits DEF Waits
  <1>2. \A m \in n4req \cup n4rsp : m \in N4Msg
    BY DEF HoTypeOK
  <1>3. \A t \in UpfThread : upf[t].pkt \in N4Msg
    BY DEF HoTypeOK, UpfLoc
  <1> QED BY <1>1, <1>2, <1>3 DEF HoCalls, Current

\* What the step of a worker leaves of the calls.
LEMMA WorkerCalls ==
    ASSUME HoTypeOK, HoCalls, NEW c \in Conn, \A m \in n4req' : MsgOk(m)',
           n4rsp' \subseteq n4rsp, \A m \in n4rsp' : m.conn # c, upf' = upf, tgt' = tgt,
           \A d \in Conn : d # c => amf'[d] = amf[d]
    PROVE  HoCalls'
PROOF
  <1>1. \A m \in n4rsp' : MsgOk(m)' /\ (m.op = 4 => m.x = Teid(m.conn[1]) + 1)
    BY DEF HoCalls, MsgOk
  <1>2. ASSUME NEW m \in n4rsp' PROVE Waits(m)'
    <2>1. m \in n4rsp /\ m \in N4Msg /\ m.conn # c /\ Waits(m)
      BY <1>2 DEF HoTypeOK, HoCalls
    <2>2. amf'[m.conn] = amf[m.conn]
      BY <2>1, StartWaits
    <2> QED BY <2>1, <2>2 DEF Waits
  <1>3. \A t \in UpfThread : Handler(t)'
    BY DEF HoCalls, Handler, MsgOk, Working
  <1> QED BY <1>1, <1>2, <1>3 DEF HoCalls

\* A worker that neither asks nor has asked leaves Kept to what it does to its UE.
LEMMA WorkerFrame ==
    ASSUME HoTypeOK, Kept, NEW c \in Conn, NEW n \in UE,
           n4req' = n4req, n4rsp' = n4rsp, upf' = upf, s1_id' = s1_id, ho_ue_ctx' = ho_ue_ctx,
           tgt' = tgt, amf[c] \notin Waiting, amf'[c] \notin Waiting,
           \A m \in n4rsp : m.conn # c,
           \A d \in Conn : d # c => amf'[d] = amf[d],
           \A k \in UE : k # n => SameUe(k),
           (Before(n) \/ After(n))', Tables(n)'
    PROVE  Kept'
PROOF
  <1>1. ASSUME NEW m \in N4Msg, Waits(m) PROVE Waits(m)'
    <2>1. m.conn \in Conn /\ m.conn # c
      BY <1>1, StartWaits DEF Waits
    <2> QED BY <1>1, <2>1 DEF Waits
  <1>2. Current'
    <2>1. \A m \in n4req : Waits(m)'
      BY <1>1 DEF HoTypeOK, Kept, Current
    <2>2. ASSUME NEW t \in UpfThread, Working(t) PROVE Waits(upf[t].pkt)'
      <3>1. upf[t].pkt \in N4Msg /\ Waits(upf[t].pkt)
        BY <2>2 DEF HoTypeOK, UpfLoc, Kept, Current
      <3> QED BY <1>1, <3>1
    <2>3. \A t \in UpfThread : (Working(t) => Waits(upf[t].pkt))'
      BY <2>2 DEF Working
    <2>4. OneWay'
      BY DEF Kept, Current, OneWay, Working
    <2> QED BY <2>1, <2>3, <2>4 DEF Current
  <1>3. TunnelOwner'
    BY OwnerFrame DEF Kept
  <1>4. \A d \in Conn : Carried(d)'
    BY DEF Kept, Carried, Asked, Handled, Replied, Working
  <1>5. TearsIndirect'
    BY DEF Kept, TearsIndirect
  <1>6. ASSUME NEW k \in UE, k # n PROVE (Before(k) \/ After(k))' /\ Tables(k)'
    BY <1>6, LineFrame, TablesFrame DEF Kept
  <1> QED BY <1>2, <1>3, <1>4, <1>5, <1>6 DEF Kept

LEMMA TargetKeeps ==
    ASSUME HoInv, NEW c \in Conn, request_target_RAN(c)
    PROVE  HoInv'
PROOF
  <1> DEFINE h == Head(up[c])
  <1> PICK m : m = S1apHo(7, h.enb, h.mme, s1_uteid_ul(get_guti_of(h.mme)))
    OBVIOUS
  <1> PICK q : q = <<m>>
    OBVIOUS
  <1>0. HoTypeOK /\ HoData /\ HoCalls /\ (~ missed => Kept)
    BY DEF HoInv
  <1>1. /\ Serve(c, 7) /\ out' = [out EXCEPT ![c] = q] /\ amf' = [amf EXCEPT ![c] = "request"]
        /\ UNCHANGED <<src, tgt, toSrc, toTgt, n4req, n4rsp, s1_id, dl, ho_ue_ctx, upf, listening, port, faults, missed>>
    BY DEF request_target_RAN, ranHo, upfHo, envHo
  <1>2. PICK n \in UE : n = c[1]
    BY HoConns
  <1>3. /\ amf[c] = "idle" /\ up[c] # <<>> /\ up[c][1].type = 7 /\ h \in HoMsg
        /\ h.mme = MmeId(n) /\ up' = [up EXCEPT ![c] = Tail(@)] /\ up' \in [Conn -> Seq(HoMsg)]
        /\ up'[c] = <<>> <=> Len(up[c]) = 1
        /\ \A d \in Conn : PacketData(d)'
    BY <1>0, <1>1, <1>2, Served
  <1>4. m \in HoMsg /\ m.type = 7 /\ m.mme = MmeId(n) /\ m.teid = Teid(n)
    <2>1. s1_uteid_ul(get_guti_of(h.mme)) = Teid(n) /\ Teid(n) \in Tunnel
      BY <1>3, HoIdentities
    <2> QED BY <1>3, <2>1 DEF S1apHo, HoMsg
  <1> HIDE DEF h
  <1>5. q \in Seq(HoMsg)
    BY <1>4
  <1>6. /\ amf'[c] = "request" /\ out'[c] = q
        /\ \A d \in Conn : d # c => amf'[d] = amf[d] /\ out'[d] = out[d]
    BY <1>0, <1>1 DEF HoTypeOK
  <1>7. HoTypeOK'
    <2>1. amf' \in [Conn -> Waiting \cup Connecting \cup {"idle"}] /\ out' \in [Conn -> Seq(HoMsg)]
      BY <1>0, <1>1, <1>5 DEF HoTypeOK, Connecting
    <2> QED BY <1>0, <1>1, <1>3, <2>1 DEF HoTypeOK
  <1>8. HoData'
    <2>1. \A k \in UE : RanData(k)' /\ ForwardData(k)'
      BY <1>0, <1>1 DEF HoData, RanData, ForwardData
    <2>2. OutData(c)'
      BY <1>2, <1>4, <1>6 DEF OutData, Connecting
    <2>3. \A d \in Conn : d # c => OutData(d)'
      BY <1>0, <1>6 DEF HoData, OutData
    <2> QED BY <1>3, <2>1, <2>2, <2>3 DEF HoData
  <1>9. amf[c] \notin Waiting /\ amf'[c] \notin Waiting
    BY <1>3, <1>6 DEF Waiting
  <1>10. \A o \in n4rsp : o.conn # c
    BY <1>0, <1>9, QuietIdle
  <1>11. HoCalls'
    <2>1. \A o \in n4req' : MsgOk(o)'
      BY <1>0, <1>1 DEF HoCalls, MsgOk
    <2> QED BY <1>0, <1>1, <1>6, <1>10, <2>1, WorkerCalls
  <1>12. ASSUME ~ missed' PROVE Kept'
    <2>1. Kept
      BY <1>0, <1>1, <1>12
    <2>2. c \in {Src(n), Tgt(n)} /\ up \in [Conn -> Seq(HoMsg)]
      BY <1>0, <1>2, HoConns DEF HoTypeOK
    <2>3. c = Src(n) /\ Before(n) /\ src[n].handover_state # 0 /\ One(up[c], 7) /\ toTgt[n] = <<>>
      BY <1>3, <2>1, <2>2 DEF Kept, Before, After, Tears, Idle, ToSetup, Setup, SetupConn, ToSwitch, Rest,
                              Switch, SwitchConn, Switched, One, Two
    <2>4. /\ up'[Src(n)] = <<>> /\ Tgt(n) \in Conn /\ up'[Tgt(n)] = up[Tgt(n)]
          /\ amf'[Tgt(n)] = amf[Tgt(n)] /\ Tgt(n) # c
      BY <1>3, <1>6, <2>2, <2>3, HoConns DEF One
    <2>5. Before(n)'
      BY <1>1, <1>6, <2>3, <2>4 DEF Before
    <2>6. Tables(n)'
      BY <1>1, <1>6, <2>1, <2>3, <2>4 DEF Before, Kept, Tables, Replied
    <2>7. ASSUME NEW k \in UE, k # n PROVE SameUe(k)
      <3>1. Src(k) \in Conn /\ Tgt(k) \in Conn /\ Src(k) # c /\ Tgt(k) # c
        BY <2>3, <2>7, HoConns
      <3>2. up'[Src(k)] = up[Src(k)] /\ up'[Tgt(k)] = up[Tgt(k)]
        BY <1>3, <2>2, <3>1
      <3> QED BY <1>1, <1>6, <3>1, <3>2 DEF SameUe
    <2> QED BY <1>0, <1>1, <1>6, <1>9, <1>10, <2>1, <2>5, <2>6, <2>7, WorkerFrame
  <1> QED BY <1>7, <1>8, <1>11, <1>12 DEF HoInv

\* What a worker sends is put behind what is there.
LEMMA Joined ==
    ASSUME NEW q \in Seq(HoMsg), NEW m \in HoMsg
    PROVE  q \o <<m>> = Append(q, m) /\ q \o <<>> = q
OBVIOUS

LEMMA SendTargetKeeps ==
    ASSUME HoInv, NEW c \in Conn, snd_to_target(c)
    PROVE  HoInv'
PROOF
  <1>0. HoTypeOK /\ HoData /\ HoCalls /\ (~ missed => Kept)
    BY DEF HoInv
  <1>1. /\ amf[c] = "request" /\ toTgt' = [toTgt EXCEPT ![c[1]] = @ \o out[c]]
        /\ out' = [out EXCEPT ![c] = <<>>] /\ amf' = [amf EXCEPT ![c] = "idle"]
        /\ UNCHANGED <<src, tgt, up, toSrc, n4req, n4rsp, s1_id, dl, ho_ue_ctx, upf, listening, port, faults, missed>>
    BY DEF snd_to_target, ranHo, upfHo, envHo
  <1>2. PICK n \in UE : n = c[1]
    BY HoConns
  <1>3. PICK m \in HoMsg : out[c] = <<m>> /\ m.type = 7 /\ m.mme = MmeId(n) /\ m.teid = Teid(n)
    BY <1>0, <1>1, <1>2 DEF HoData, OutData
  <1>4. toTgt[n] \in Seq(HoMsg) /\ toTgt \in [UE -> Seq(HoMsg)]
    BY <1>0 DEF HoTypeOK
  <1>5. toTgt' = [toTgt EXCEPT ![n] = Append(@, m)]
    <2>1. toTgt[n] \o out[c] = Append(toTgt[n], m)
      BY <1>3, <1>4, Joined
    <2> QED BY <1>1, <1>2, <2>1
  <1>6. /\ Append(toTgt[n], m) \in Seq(HoMsg) /\ Len(toTgt[n]) \in Nat
        /\ Len(Append(toTgt[n], m)) = Len(toTgt[n]) + 1
        /\ \A k \in 1 .. Len(toTgt[n]) : Append(toTgt[n], m)[k] = toTgt[n][k]
        /\ Append(toTgt[n], m)[Len(toTgt[n]) + 1] = m
        /\ toTgt[n] = <<>> <=> Len(toTgt[n]) = 0
    BY <1>4, Appended
  <1>7. toTgt'[n] = Append(toTgt[n], m) /\ toTgt' \in [UE -> Seq(HoMsg)]
    BY <1>4, <1>5, <1>6
  <1>8. /\ amf'[c] = "idle" /\ out'[c] = <<>>
        /\ \A d \in Conn : d # c => amf'[d] = amf[d] /\ out'[d] = out[d]
    BY <1>0, <1>1 DEF HoTypeOK
  <1>9. HoTypeOK'
    <2>1. amf' \in [Conn -> Waiting \cup Connecting \cup {"idle"}] /\ out' \in [Conn -> Seq(HoMsg)]
      BY <1>0, <1>1 DEF HoTypeOK
    <2> QED BY <1>0, <1>1, <1>7, <2>1 DEF HoTypeOK
  <1>10. HoData'
    <2>1. \A k \in UE : RanData(k)'
      BY <1>0, <1>1 DEF HoData, RanData
    <2>2. ForwardData(n)
      BY <1>0 DEF HoData
    <2>3. ForwardData(n)'
      BY <1>3, <1>6, <1>7, <2>2 DEF ForwardData
    <2>4. \A k \in UE : k # n => ForwardData(k)'
      BY <1>0, <1>4, <1>5 DEF HoData, ForwardData
    <2>5. \A d \in Conn : PacketData(d)' /\ OutData(d)'
      BY <1>0, <1>1, <1>8 DEF HoData, PacketData, OutData, Connecting
    <2> QED BY <2>1, <2>3, <2>4, <2>5 DEF HoData
  <1>11. amf[c] \notin Waiting /\ amf'[c] \notin Waiting
    BY <1>1, <1>8 DEF Waiting
  <1>12. \A o \in n4rsp : o.conn # c
    BY <1>0, <1>11, QuietIdle
  <1>13. HoCalls'
    <2>1. \A o \in n4req' : MsgOk(o)'
      BY <1>0, <1>1 DEF HoCalls, MsgOk
    <2> QED BY <1>0, <1>1, <1>8, <1>12, <2>1, WorkerCalls
  <1>14. ASSUME ~ missed' PROVE Kept'
    <2>1. Kept
      BY <1>0, <1>1, <1>14
    <2>2. c \in {Src(n), Tgt(n)}
      BY <1>2, HoConns
    <2>3. /\ c = Src(n) /\ Before(n) /\ src[n].handover_state # 0 /\ up[Src(n)] = <<>>
          /\ toTgt[n] = <<>>
      BY <1>1, <2>1, <2>2 DEF Kept, Before, After, Tears, Idle, ToSetup, Setup, SetupConn, ToSwitch,
                              Switch, SwitchConn, Switched
    <2>4. Tgt(n) \in Conn /\ amf'[Tgt(n)] = amf[Tgt(n)] /\ Tgt(n) # c
      BY <1>8, <2>3, HoConns
    <2>5. One(toTgt'[n], 7)
      BY <1>3, <1>6, <1>7, <2>3 DEF One
    <2>6. Before(n)'
      BY <1>1, <1>8, <2>3, <2>4, <2>5 DEF Before
    <2>7. Tables(n)'
      BY <1>1, <2>1, <2>3, <2>4 DEF Before, Kept, Tables, Replied
    <2>8. ASSUME NEW k \in UE, k # n PROVE SameUe(k)
      <3>1. Src(k) \in Conn /\ Tgt(k) \in Conn /\ Src(k) # c /\ Tgt(k) # c
        BY <2>3, <2>8, HoConns
      <3>2. toTgt'[k] = toTgt[k]
        BY <1>4, <1>5, <2>8
      <3> QED BY <1>1, <1>8, <3>1, <3>2 DEF SameUe
    <2> QED BY <1>0, <1>1, <1>8, <1>11, <1>12, <2>1, <2>6, <2>7, <2>8, WorkerFrame
  <1> QED BY <1>9, <1>10, <1>13, <1>14 DEF HoInv

LEMMA SendSourceKeeps ==
    ASSUME HoInv, NEW c \in Conn, snd_to_source(c)
    PROVE  HoInv'
PROOF
  <1>0. HoTypeOK /\ HoData /\ HoCalls /\ (~ missed => Kept)
    BY DEF HoInv
  <1>1. /\ amf[c] \in {"setup_conn", "switch_conn"}
        /\ toSrc' = [toSrc EXCEPT ![c[1]] = @ \o out[c]]
        /\ out' = [out EXCEPT ![c] = <<>>] /\ amf' = [amf EXCEPT ![c] = "idle"]
        /\ UNCHANGED <<src, tgt, up, toTgt, n4req, n4rsp, s1_id, dl, ho_ue_ctx, upf, listening, port, faults, missed>>
    BY DEF snd_to_source, ranHo, upfHo, envHo
  <1>2. PICK n \in UE : n = c[1]
    BY HoConns
  <1>3. out[c] = <<>> \/ \E m \in HoMsg : out[c] = <<m>>
    BY <1>0, <1>1 DEF HoData, OutData, Connecting
  <1>4. toSrc[n] \in Seq(HoMsg) /\ toSrc \in [UE -> Seq(HoMsg)]
    BY <1>0 DEF HoTypeOK
  <1>5. toSrc' \in [UE -> Seq(HoMsg)]
    <2>1. PICK q : q = toSrc[n] \o out[c]
      OBVIOUS
    <2>2. q \in Seq(HoMsg)
      <3>1. CASE out[c] = <<>>
        BY <1>4, <2>1, <3>1
      <3>2. ASSUME NEW m \in HoMsg, out[c] = <<m>> PROVE q \in Seq(HoMsg)
        BY <1>4, <2>1, <3>2, Joined, Appended
      <3> QED BY <1>3, <3>1, <3>2
    <2> QED BY <1>1, <1>2, <1>4, <2>1, <2>2
  <1>6. /\ amf'[c] = "idle" /\ out'[c] = <<>>
        /\ \A d \in Conn : d # c => amf'[d] = amf[d] /\ out'[d] = out[d]
    BY <1>0, <1>1 DEF HoTypeOK
  <1>7. HoTypeOK'
    <2>1. amf' \in [Conn -> Waiting \cup Connecting \cup {"idle"}] /\ out' \in [Conn -> Seq(HoMsg)]
      BY <1>0, <1>1 DEF HoTypeOK
    <2> QED BY <1>0, <1>1, <1>5, <2>1 DEF HoTypeOK
  <1>8. HoData'
    <2>1. \A k \in UE : RanData(k)' /\ ForwardData(k)'
      BY <1>0, <1>1 DEF HoData, RanData, ForwardData
    <2>2. \A d \in Conn : PacketData(d)' /\ OutData(d)'
      BY <1>0, <1>1, <1>6 DEF HoData, PacketData, OutData, Connecting
    <2> QED BY <2>1, <2>2 DEF HoData
  <1>9. amf[c] \notin Waiting /\ amf'[c] \notin Waiting
    BY <1>1, <1>6 DEF Waiting
  <1>10. \A o \in n4rsp : o.conn # c
    BY <1>0, <1>9, QuietIdle
  <1>11. HoCalls'
    <2>1. \A o \in n4req' : MsgOk(o)'
      BY <1>0, <1>1 DEF HoCalls, MsgOk
    <2> QED BY <1>0, <1>1, <1>6, <1>10, <2>1, WorkerCalls
  <1>12. ASSUME ~ missed' PROVE Kept'
    <2>1. Kept /\ (Before(n) \/ After(n)) /\ Tables(n)
      BY <1>0, <1>1, <1>12 DEF Kept
    <2>2. /\ c \in {Src(n), Tgt(n)} /\ Src(n) \in Conn /\ Tgt(n) \in Conn /\ Src(n) # Tgt(n)
      BY <1>2, HoConns
    <2>3. /\ c = Tgt(n) /\ After(n) /\ Idle(n)
          /\ \/ amf[c] = "setup_conn" /\ toSrc[n] = <<>> /\ SetupConn(n)
             \/ amf[c] = "switch_conn" /\ Got(n) /\ SwitchConn(n)
      BY <1>1, <2>1, <2>2 DEF Before, After, Tears, Idle, ToSetup, Setup, SetupConn, ToSwitch,
                              Switch, SwitchConn, Switched
    <2>4. PICK m \in HoMsg : out[c] = <<m>>
      BY <1>3, <2>3 DEF SetupConn, SwitchConn, One
    <2>5. out[c][1] = m /\ m \in HoMsg
      BY <2>4
    <2>6. toSrc' = [toSrc EXCEPT ![n] = Append(@, m)]
      <3>1. toSrc[n] \o out[c] = Append(toSrc[n], m)
        BY <1>4, <2>4, Joined
      <3> QED BY <1>1, <1>2, <3>1
    <2>7. toSrc'[n] = Append(toSrc[n], m)
      BY <1>4, <2>6
    <2>8. Idle(n)' /\ amf'[Tgt(n)] = "idle"
      BY <1>1, <1>6, <2>2, <2>3 DEF Idle
    <2>9. ASSUME amf[c] = "setup_conn" PROVE After(n)' /\ Tables(n)'
      <3>1. /\ m.type = 8 /\ m.teid = Teid(n) + 1 /\ Rest(n) /\ toSrc[n] = <<>>
        BY <2>3, <2>5, <2>9 DEF SetupConn, One
      <3>2. Got(n)'
        BY <1>4, <2>7, <3>1, Appended DEF Got, One
      <3>3. ToSwitch(n)'
        BY <1>1, <2>8, <3>1 DEF ToSwitch, Rest, One
      <3>4. After(n)'
        BY <1>1, <2>3, <2>8, <3>2, <3>3 DEF After
      <3>5. Tables(n)'
        BY <1>1, <2>1, <2>3, <3>1 DEF Tables, Rest, One, Idle
      <3> QED BY <3>4, <3>5
    <2>10. ASSUME amf[c] = "switch_conn" PROVE After(n)' /\ Tables(n)'
      <3>1. m.type = 9 /\ Got(n) /\ SwitchConn(n)
        BY <2>3, <2>5, <2>10 DEF SwitchConn, One
      <3>2. GotBoth(n)'
        <4>1. CASE One(toSrc[n], 8) /\ toSrc[n][1].teid = Teid(n) + 1
          <5>1. Len(toSrc[n]) = 1
            BY <4>1 DEF One
          <5>2. Len(toSrc'[n]) = 2 /\ toSrc'[n][1] = toSrc[n][1] /\ toSrc'[n][2] = m
            <6>1. /\ Len(toSrc'[n]) = Len(toSrc[n]) + 1 /\ toSrc'[n][Len(toSrc[n]) + 1] = m
                  /\ \A k \in 1 .. Len(toSrc[n]) : toSrc'[n][k] = toSrc[n][k]
              BY <1>4, <2>5, <2>7, Appended
            <6> QED BY <5>1, <6>1
          <5> QED BY <3>1, <4>1, <5>2 DEF GotBoth, One, Two
        <4>2. CASE toSrc[n] = <<>> /\ src[n].indirect = Teid(n) + 1
          <5>1. Len(toSrc'[n]) = 1 /\ toSrc'[n][1] = m
            BY <1>4, <2>5, <2>7, <4>2, Appended
          <5> QED BY <1>1, <3>1, <4>2, <5>1 DEF GotBoth, One
        <4> QED BY <3>1, <4>1, <4>2 DEF Got
      <3>3. Switched(n)'
        BY <1>1, <2>8, <3>1 DEF SwitchConn, Switched
      <3>4. After(n)'
        BY <1>1, <2>3, <2>8, <3>2, <3>3 DEF After
      <3>5. Tables(n)'
        BY <1>1, <2>1, <2>3, <2>8, <3>1 DEF Tables, Idle, SwitchConn
      <3> QED BY <3>4, <3>5
    <2>11. ASSUME NEW k \in UE, k # n PROVE SameUe(k)
      <3>1. Src(k) \in Conn /\ Tgt(k) \in Conn /\ Src(k) # c /\ Tgt(k) # c
        BY <2>3, <2>11, HoConns
      <3>2. toSrc'[k] = toSrc[k]
        BY <1>4, <2>6, <2>11
      <3> QED BY <1>1, <1>6, <3>1, <3>2 DEF SameUe
    <2>12. After(n)' /\ Tables(n)'
      BY <2>3, <2>9, <2>10
    <2> QED BY <1>0, <1>1, <1>6, <1>9, <1>10, <2>1, <2>11, <2>12, WorkerFrame
  <1> QED BY <1>7, <1>8, <1>11, <1>12 DEF HoInv

LEMMA AskKeeps ==
    ASSUME HoInv, NEW c \in Conn, NEW type, NEW op, NEW pc,
           \/ type = 8 /\ op = 4 /\ pc = "setup"
           \/ type = 9 /\ op = 5 /\ pc = "switch"
           \/ type = 10 /\ op = 6 /\ pc = "teardown",
           Ask(c, type, op, pc)
    PROVE  HoInv'
PROOF
  <1> DEFINE h == Head(up[c])
  <1> PICK m : m = [op |-> op, conn |-> c, x |-> h.teid,
                    teid |-> s11_cteid_upf(get_guti_of(h.mme))]
    OBVIOUS
  <1>0. HoTypeOK /\ HoData /\ HoCalls /\ (~ missed => Kept)
    BY DEF HoInv
  <1>1. /\ Serve(c, type) /\ n4req' = n4req \cup (IF port = UpfPort THEN {m} ELSE {})
        /\ missed' = (missed \/ port # UpfPort) /\ amf' = [amf EXCEPT ![c] = pc]
        /\ UNCHANGED <<src, tgt, toSrc, toTgt, out, n4rsp, s1_id, dl, ho_ue_ctx, upf, listening, port, faults>>
    BY DEF Ask, ranHo, upfHo
  <1>a. n4req' \subseteq n4req \cup {m}
    BY <1>1
  <1>b. missed' \in BOOLEAN
    BY <1>1, Zenon
  <1>c. ~ missed' => ~ missed /\ n4req' = n4req \cup {m}
    BY <1>1
  <1>2. PICK n \in UE : n = c[1]
    BY HoConns
  <1>3. /\ amf[c] = "idle" /\ up[c] # <<>> /\ up[c][1].type = type /\ h \in HoMsg /\ h = up[c][1]
        /\ h.mme = MmeId(n) /\ up' = [up EXCEPT ![c] = Tail(@)] /\ up' \in [Conn -> Seq(HoMsg)]
        /\ up'[c] = <<>> <=> Len(up[c]) = 1
        /\ Len(up[c]) = 2 => Len(up'[c]) = 1 /\ up'[c][1] = up[c][2]
        /\ type = 9 => c = Tgt(n) /\ tgt[n].done
        /\ \A d \in Conn : PacketData(d)'
    BY <1>0, <1>1, <1>2, Served
  <1>4. /\ m \in N4Msg /\ m.op = op /\ m.conn = c /\ m.teid = Teid(n) /\ m.x = h.teid
    <2>1. s11_cteid_upf(get_guti_of(h.mme)) = Teid(n) /\ Teid(n) \in Tunnel
      BY <1>3, HoIdentities
    <2>2. h.teid \in Tunnel /\ op \in 4 .. 6
      BY <1>3 DEF HoMsg
    <2> QED BY <2>1, <2>2 DEF N4Msg
  <1> HIDE DEF h
  <1>5. /\ \A o \in n4rsp : o.conn # c
        /\ Current => /\ \A o \in n4req : o.conn # c
                      /\ \A t \in UpfThread : Working(t) => upf[t].pkt.conn # c
    BY <1>0, <1>3, QuietIdle DEF Waiting
  <1>6. amf'[c] = pc /\ pc \in Waiting /\ \A d \in Conn : d # c => amf'[d] = amf[d]
    BY <1>0, <1>1 DEF HoTypeOK, Waiting
  <1>7. HoTypeOK'
    <2>1. amf' \in [Conn -> Waiting \cup Connecting \cup {"idle"}] /\ n4req' \subseteq N4Msg
      BY <1>0, <1>1, <1>4, <1>6, <1>a DEF HoTypeOK
    <2> QED BY <1>0, <1>1, <1>3, <1>b, <2>1 DEF HoTypeOK
  <1>8. HoData'
    <2>1. \A k \in UE : RanData(k)' /\ ForwardData(k)'
      BY <1>0, <1>1 DEF HoData, RanData, ForwardData
    <2>2. OutData(c)'
      BY <1>0, <1>1, <1>3, <1>6 DEF HoData, OutData, Connecting, Waiting
    <2>3. \A d \in Conn : d # c => OutData(d)'
      BY <1>0, <1>1, <1>6 DEF HoData, OutData
    <2> QED BY <1>3, <2>1, <2>2, <2>3 DEF HoData
  <1>9. HoCalls'
    <2>1. MsgOk(m)'
      BY <1>1, <1>2, <1>3, <1>4 DEF MsgOk
    <2>2. \A o \in n4req' : MsgOk(o)'
      BY <1>0, <1>1, <1>a, <2>1 DEF HoCalls, MsgOk
    <2> QED BY <1>0, <1>1, <1>5, <1>6, <2>2, WorkerCalls
  <1>10. ASSUME ~ missed' PROVE Kept'
    <2>1. Kept /\ Current /\ (Before(n) \/ After(n)) /\ Tables(n) /\ n4req' = n4req \cup {m}
      BY <1>0, <1>c, <1>10 DEF Kept
    <2>2. /\ c \in {Src(n), Tgt(n)} /\ up \in [Conn -> Seq(HoMsg)]
          /\ Src(n) \in Conn /\ Tgt(n) \in Conn /\ Src(n) # Tgt(n)
      BY <1>0, <1>2, HoConns DEF HoTypeOK
    <2>3. /\ \A d \in Conn : d # c => up'[d] = up[d]
          /\ ~ Replied(c) /\ ~ Replied(c)' /\ n4rsp' = n4rsp
      BY <1>1, <1>3, <1>5, <2>2 DEF Replied
    <2>4. After(n)
      BY <1>3, <2>1, <2>2 DEF Before, One
    <2>5. /\ Got(n)' <=> Got(n)
          /\ toSrc'[n] = toSrc[n] /\ toTgt'[n] = toTgt[n] /\ src'[n] = src[n] /\ tgt'[n] = tgt[n]
      BY <1>1 DEF Got, One
    <2>6. ASSUME type = 8 PROVE After(n)' /\ Tables(n)' /\ op # 6
      <3>1. /\ c = Tgt(n) /\ Idle(n) /\ toSrc[n] = <<>> /\ ToSetup(n)
        BY <1>3, <2>2, <2>4, <2>6 DEF After, Tears, Idle, Setup, SetupConn, ToSwitch, Rest, Switch,
                                      SwitchConn, Switched, One, Two
      <3>2. Rest(n)'
        BY <1>1, <1>3, <3>1 DEF ToSetup, Rest, One, Two
      <3>3. Setup(n)' /\ Idle(n)'
        BY <1>1, <1>6, <2>2, <2>3, <2>6, <3>1, <3>2 DEF Setup, Idle
      <3>4. After(n)'
        BY <2>4, <2>5, <3>1, <3>3 DEF After
      <3>5. amf'[Tgt(n)] = "setup" /\ ~ src'[n].done
        BY <1>6, <2>5, <2>6, <3>1 DEF Idle
      <3> QED BY <1>1, <2>1, <2>6, <3>4, <3>5 DEF Tables
    <2>7. ASSUME type = 9 PROVE After(n)' /\ Tables(n)' /\ op # 6
      <3>1. /\ c = Tgt(n) /\ Idle(n) /\ Got(n) /\ ToSwitch(n) /\ tgt[n].done /\ One(up[c], 9)
        BY <1>3, <2>2, <2>4, <2>7 DEF After, Tears, Idle, ToSetup, Setup, SetupConn, ToSwitch, Rest,
                                      Switch, SwitchConn, Switched, One, Two
      <3>2. up'[c] = <<>>
        BY <1>3, <3>1 DEF One
      <3>3. Switch(n)' /\ Idle(n)'
        BY <1>1, <1>6, <2>2, <2>3, <2>7, <3>1, <3>2 DEF Switch, Idle
      <3>4. After(n)'
        BY <2>4, <2>5, <3>1, <3>3 DEF After
      <3>5. amf'[Tgt(n)] = "switch" /\ ~ src'[n].done
        BY <1>6, <2>5, <2>7, <3>1 DEF Idle
      <3> QED BY <1>1, <2>1, <2>3, <2>7, <3>1, <3>4, <3>5 DEF Tables
    <2>8. ASSUME type = 10 PROVE After(n)' /\ Tables(n)' /\ m.x = Teid(n) + 1
      <3>1. /\ c = Src(n) /\ Tears(n) /\ Switched(n) /\ One(up[c], 10)
            /\ up[c][1].teid = Teid(n) + 1
        BY <1>3, <2>2, <2>4, <2>8 DEF After, Tears, Idle, ToSetup, Setup, SetupConn, ToSwitch, Rest,
                                      Switch, SwitchConn, Switched, One, Two
      <3>2. up'[c] = <<>>
        BY <1>3, <3>1 DEF One
      <3>3. Switched(n)' /\ Tears(n)'
        BY <1>1, <1>6, <2>2, <2>3, <2>8, <3>1, <3>2 DEF Switched, Tears
      <3>4. After(n)'
        BY <2>4, <2>5, <3>3 DEF After
      <3>5. Tables(n)'
        <4>1. /\ ~ Replied(Src(n))' /\ amf'[Src(n)] # "idle"
              /\ up'[Tgt(n)] = up[Tgt(n)] /\ amf'[Tgt(n)] = amf[Tgt(n)]
          BY <1>6, <2>2, <2>3, <2>8, <3>1
        <4>2. Replied(Tgt(n))' => Replied(Tgt(n))
          BY <2>3 DEF Replied
        <4> QED BY <1>1, <2>1, <4>1, <4>2 DEF Tables
      <3> QED BY <1>3, <1>4, <3>1, <3>4, <3>5
    <2>9. \A d \in Conn : Carried(d)'
      <3>1. Carried(c)'
        BY <1>4, <2>1 DEF Carried, Asked
      <3>2. \A d \in Conn : d # c => Carried(d)'
        BY <1>1, <1>6, <2>1 DEF Kept, Carried, Asked, Handled, Replied, Working
      <3> QED BY <3>1, <3>2
    <2>10. TearsIndirect'
      BY <1>1, <1>2, <1>4, <2>1, <2>6, <2>7, <2>8 DEF Kept, TearsIndirect
    <2>11. ASSUME NEW k \in UE, k # n PROVE (Before(k) \/ After(k))' /\ Tables(k)'
      <3>1. Src(k) \in Conn /\ Tgt(k) \in Conn /\ Src(k) # c /\ Tgt(k) # c
        BY <2>2, <2>11, HoConns
      <3>2. SameUe(k)
        BY <1>1, <1>6, <2>3, <3>1 DEF SameUe
      <3> QED BY <1>1, <2>1, <3>2, LineFrame, TablesFrame DEF Kept
    <2>12. Current'
      <3>1. ASSUME NEW o \in N4Msg, Waits(o), o.conn # c PROVE Waits(o)'
        BY <1>6, <3>1, StartWaits DEF Waits
      <3>2. Waits(m)'
        BY <1>4, <1>6 DEF Waits, Start
      <3>3. \A o \in n4req' : Waits(o)'
        BY <1>0, <1>5, <2>1, <3>1, <3>2 DEF HoTypeOK, Current
      <3>4. ASSUME NEW t \in UpfThread, Working(t) PROVE Waits(upf[t].pkt)'
        <4>1. upf[t].pkt \in N4Msg /\ Waits(upf[t].pkt) /\ upf[t].pkt.conn # c
          BY <1>0, <1>5, <2>1, <3>4 DEF HoTypeOK, UpfLoc, Current
        <4> QED BY <1>1, <3>1, <4>1
      <3>5. \A t \in UpfThread : (Working(t) => Waits(upf[t].pkt))'
        BY <1>1, <3>4 DEF Working
      <3>6. OneWay'
        BY <1>1, <1>4, <1>5, <2>1 DEF Current, OneWay, Working
      <3> QED BY <3>3, <3>5, <3>6 DEF Current
    <2>13. TunnelOwner'
      BY <1>1, <2>1, OwnerFrame DEF Kept
    <2> QED BY <2>6, <2>7, <2>8, <2>9, <2>10, <2>11, <2>12, <2>13 DEF Kept
  <1> QED BY <1>7, <1>8, <1>9, <1>10 DEF HoInv

LEMMA AnsweredKeeps ==
    ASSUME HoInv, NEW c \in Conn, Answered(c)
    PROVE  HoInv'
PROOF
  <1>0. HoTypeOK /\ HoData /\ HoCalls /\ (~ missed => Kept)
    BY DEF HoInv
  <1>1. PICK m \in n4rsp :
          /\ m.conn = c /\ amf[c] \in Waiting /\ n4rsp' = {o \in n4rsp : o.conn # c}
          /\ out' = [out EXCEPT ![c] = Told(c, m)] /\ amf' = [amf EXCEPT ![c] = Then(@)]
          /\ UNCHANGED <<src, tgt, up, toSrc, toTgt, n4req, s1_id, dl, ho_ue_ctx, upf, listening, port, faults, missed>>
    BY DEF Answered, ranHo, upfHo, envHo
  <1>2. PICK n \in UE : n = c[1]
    BY HoConns
  <1>3. /\ m \in N4Msg /\ m.x \in Tunnel /\ m.op \in {4, 5, 6}
        /\ m.op = 4 => m.x = Teid(n) + 1
        /\ amf[c] = Start(m.op)
    BY <1>0, <1>1, <1>2 DEF HoTypeOK, HoCalls, N4Msg, Waits
  <1>4. PICK a : a = S1apHo(8, EnbId(n), MmeId(n), m.x)
    OBVIOUS
  <1>5. PICK b : b = S1apHo(9, EnbId(n), MmeId(n), 0)
    OBVIOUS
  <1>6. /\ a \in HoMsg /\ a.type = 8 /\ a.teid = m.x
        /\ b \in HoMsg /\ b.type = 9
    <2>1. EnbId(n) \in 0 .. TEID_RANGE /\ MmeId(n) \in 0 .. TEID_RANGE
      BY HoIdentities
    <2> QED BY <1>3, <1>4, <1>5, <2>1, TelecomAssumption DEF S1apHo, HoMsg, Tunnel
  <1> PICK q : q = Told(c, m)
    OBVIOUS
  <1> PICK w : w = Then(amf[c])
    OBVIOUS
  <1>7. \/ m.op = 4 /\ amf[c] = "setup" /\ w = "setup_conn" /\ q = <<a>>
        \/ m.op = 5 /\ amf[c] = "switch" /\ w = "switch_conn" /\ q = <<b>>
        \/ m.op = 6 /\ amf[c] = "teardown" /\ w = "idle" /\ q = <<>>
    <2>1. CASE m.op = 4
      BY <1>2, <1>3, <1>4, <2>1 DEF Told, Then, Start
    <2>2. CASE m.op = 5
      BY <1>2, <1>3, <1>5, <2>2 DEF Told, Then, Start
    <2>3. CASE m.op = 6
      BY <1>3, <2>3 DEF Told, Then, Start
    <2> QED BY <1>3, <2>1, <2>2, <2>3
  <1>8. /\ amf'[c] = w /\ out'[c] = q /\ amf' = [amf EXCEPT ![c] = w] /\ out' = [out EXCEPT ![c] = q]
        /\ \A d \in Conn : d # c => amf'[d] = amf[d] /\ out'[d] = out[d]
    BY <1>0, <1>1 DEF HoTypeOK
  <1>9. q \in Seq(HoMsg) /\ w \in Connecting \cup {"idle"}
    <2>1. <<a>> \in Seq(HoMsg) /\ <<b>> \in Seq(HoMsg) /\ <<>> \in Seq(HoMsg)
      BY <1>6
    <2>2. q \in {<<a>>, <<b>>, <<>>} /\ w \in Connecting \cup {"idle"}
      BY <1>7 DEF Connecting
    <2> QED BY <2>1, <2>2
  <1>10. HoTypeOK'
    <2>1. amf' \in [Conn -> Waiting \cup Connecting \cup {"idle"}] /\ out' \in [Conn -> Seq(HoMsg)]
      BY <1>0, <1>8, <1>9 DEF HoTypeOK
    <2>2. n4rsp' \subseteq N4Msg
      BY <1>0, <1>1 DEF HoTypeOK
    <2> QED BY <1>0, <1>1, <2>1, <2>2 DEF HoTypeOK
  <1>11. HoData'
    <2>1. \A k \in UE : RanData(k)' /\ ForwardData(k)'
      BY <1>0, <1>1 DEF HoData, RanData, ForwardData
    <2>2. OutData(c)'
      BY <1>6, <1>7, <1>8 DEF OutData, Connecting
    <2>3. \A d \in Conn : d # c => OutData(d)'
      BY <1>0, <1>8 DEF HoData, OutData
    <2>4. \A d \in Conn : PacketData(d)'
      BY <1>0, <1>1 DEF HoData, PacketData
    <2> QED BY <2>1, <2>2, <2>3, <2>4 DEF HoData
  <1>12. HoCalls'
    <2>1. \A o \in n4req' : MsgOk(o)'
      BY <1>0, <1>1 DEF HoCalls, MsgOk
    <2>2. n4rsp' \subseteq n4rsp /\ \A o \in n4rsp' : o.conn # c
      BY <1>1
    <2> QED BY <1>0, <1>1, <1>8, <2>1, <2>2, WorkerCalls
  <1>13. ASSUME ~ missed' PROVE Kept'
    <2>1. Kept /\ Current /\ (Before(n) \/ After(n)) /\ Tables(n)
      BY <1>0, <1>1, <1>13 DEF Kept
    <2>2. /\ c \in {Src(n), Tgt(n)} /\ Src(n) \in Conn /\ Tgt(n) \in Conn /\ Src(n) # Tgt(n)
      BY <1>2, HoConns
    <2>3. Replied(c) /\ \A d \in Conn : Replied(d)' => Replied(d)
      BY <1>1 DEF Replied
    <2>4. After(n)
      BY <1>7, <2>1, <2>2 DEF Before
    <2>5. ASSUME m.op = 4 PROVE After(n)' /\ Tables(n)'
      <3>1. c = Tgt(n) /\ Idle(n) /\ toSrc[n] = <<>> /\ Rest(n)
        BY <1>7, <2>2, <2>4, <2>5 DEF After, Tears, Idle, ToSetup, Setup, SetupConn, ToSwitch, Switch,
                                      SwitchConn, Switched
      <3>2. amf'[Tgt(n)] = "setup_conn" /\ One(out'[Tgt(n)], 8) /\ out'[Tgt(n)][1].teid = Teid(n) + 1
        BY <1>3, <1>6, <1>7, <1>8, <2>5, <3>1 DEF One
      <3>3. Idle(n)' /\ SetupConn(n)'
        BY <1>1, <1>8, <2>2, <3>1, <3>2 DEF Idle, SetupConn, Rest, One
      <3>4. After(n)'
        BY <1>1, <2>4, <3>1, <3>3 DEF After
      <3>5. Tables(n)'
        BY <1>1, <2>1, <3>1, <3>2 DEF Tables, Idle
      <3> QED BY <3>4, <3>5
    <2>6. ASSUME m.op = 5 PROVE After(n)' /\ Tables(n)'
      <3>1. c = Tgt(n) /\ Idle(n) /\ Got(n) /\ Switch(n)
        BY <1>7, <2>2, <2>4, <2>6 DEF After, Tears, Idle, ToSetup, Setup, SetupConn, ToSwitch, Switch,
                                      SwitchConn, Switched
      <3>2. amf'[Tgt(n)] = "switch_conn" /\ One(out'[Tgt(n)], 9)
        BY <1>6, <1>7, <1>8, <2>6, <3>1 DEF One
      <3>3. Idle(n)' /\ SwitchConn(n)' /\ Got(n)'
        BY <1>1, <1>8, <2>2, <3>1, <3>2 DEF Idle, Switch, SwitchConn, Got, One
      <3>4. After(n)'
        BY <1>1, <2>4, <3>3 DEF After
      <3>5. Tables(n)'
        <4>1. ho_ue_ctx[HoKey(Imsi(n))] = NoEntry
          BY <2>1, <2>3, <3>1 DEF Tables, Switch
        <4> QED BY <1>1, <2>1, <3>1, <4>1 DEF Tables, Idle
      <3> QED BY <3>4, <3>5
    <2>7. ASSUME m.op = 6 PROVE After(n)' /\ Tables(n)'
      <3>1. c = Src(n) /\ Tears(n) /\ Switched(n) /\ up[Src(n)] = <<>>
        BY <1>7, <2>2, <2>4, <2>7 DEF After, Tears, Idle, ToSetup, Setup, SetupConn, ToSwitch, Switch,
                                      SwitchConn, Switched
      <3>2. Tears(n)' /\ Switched(n)'
        BY <1>1, <1>7, <1>8, <2>2, <2>7, <3>1 DEF Tears, Switched
      <3>3. After(n)'
        BY <1>1, <2>4, <3>2 DEF After
      <3>4. Tables(n)'
        BY <1>1, <1>8, <2>1, <2>2, <2>3, <3>1 DEF Tables, Tears
      <3> QED BY <3>3, <3>4
    <2>8. \A d \in Conn : Carried(d)'
      <3>1. \A d \in Conn : d # c => (Replied(d) => Replied(d)')
        BY <1>1 DEF Replied
      <3>2. \A d \in Conn : d # c => Carried(d)'
        BY <1>1, <1>8, <2>1, <3>1 DEF Kept, Carried, Asked, Handled, Working
      <3>3. amf'[c] \notin Waiting
        BY <1>7, <1>8 DEF Waiting
      <3> QED BY <3>2, <3>3 DEF Carried
    <2>9. TearsIndirect'
      BY <1>1, <2>1 DEF Kept, TearsIndirect
    <2>10. ASSUME NEW k \in UE, k # n PROVE (Before(k) \/ After(k))' /\ Tables(k)'
      <3>1. Src(k) \in Conn /\ Tgt(k) \in Conn /\ Src(k) # c /\ Tgt(k) # c
        BY <2>2, <2>10, HoConns
      <3>2. SameUe(k)
        BY <1>1, <1>8, <3>1 DEF SameUe
      <3> QED BY <1>1, <2>1, <3>2, LineFrame, TablesFrame DEF Kept
    <2>11. Current'
      <3>1. ASSUME NEW o \in N4Msg, Waits(o), o.conn # c PROVE Waits(o)'
        BY <1>8, <3>1, StartWaits DEF Waits
      <3>2. \A o \in n4req' : Waits(o)'
        BY <1>0, <1>1, <2>1, <3>1 DEF HoTypeOK, Current, OneWay
      <3>3. ASSUME NEW t \in UpfThread, Working(t) PROVE Waits(upf[t].pkt)'
        <4>1. upf[t].pkt \in N4Msg /\ Waits(upf[t].pkt) /\ upf[t].pkt.conn # c
          BY <1>0, <1>1, <2>1, <3>3 DEF HoTypeOK, UpfLoc, Current, OneWay
        <4> QED BY <1>1, <3>1, <4>1
      <3>4. \A t \in UpfThread : (Working(t) => Waits(upf[t].pkt))'
        BY <1>1, <3>3 DEF Working
      <3>5. OneWay'
        BY <1>1, <2>1 DEF Current, OneWay, Working
      <3> QED BY <3>2, <3>4, <3>5 DEF Current
    <2>12. TunnelOwner'
      BY <1>1, <2>1, OwnerFrame DEF Kept
    <2> QED BY <1>3, <2>5, <2>6, <2>7, <2>8, <2>9, <2>10, <2>11, <2>12 DEF Kept
  <1> QED BY <1>10, <1>11, <1>12, <1>13 DEF HoInv

\* A time-out means that a call did not get its answer, now or before.
LEMMA TimeoutKeeps ==
    ASSUME HoInv, NEW c \in Conn, HoTimeout(c)
    PROVE  HoInv'
PROOF
  <1>0. HoTypeOK /\ HoData /\ HoCalls /\ (~ missed => Kept)
    BY DEF HoInv
  <1> PICK w : w = Then(amf[c])
    OBVIOUS
  <1>1. /\ amf[c] \in Waiting /\ amf' = [amf EXCEPT ![c] = w]
        /\ n4rsp' = {m \in n4rsp : m.conn # c}
        /\ UNCHANGED <<src, tgt, up, toSrc, toTgt, out, n4req, s1_id, dl, ho_ue_ctx, upf, listening, port>>
    BY DEF HoTimeout, ranHo, upfHo
  <1>2. w \in {"setup_conn", "switch_conn", "idle"}
    BY <1>1 DEF Then, Waiting
  <1>3. amf'[c] = w /\ \A d \in Conn : d # c => amf'[d] = amf[d]
    BY <1>0, <1>1 DEF HoTypeOK
  <1>4. \/ Pending(c) /\ faults < MaxFault /\ faults' = faults + 1 /\ missed' = TRUE
        \/ ~ Pending(c) /\ faults' = faults /\ missed' = missed
    BY DEF HoTimeout
  <1>5. faults' \in 0 .. MaxFault
    BY <1>0, <1>4, HandoverAssumption DEF HoTypeOK
  <1>6. missed' \in BOOLEAN
    BY <1>0, <1>4, Zenon DEF HoTypeOK
  <1>7. HoTypeOK'
    <2>1. amf' \in [Conn -> Waiting \cup Connecting \cup {"idle"}] /\ n4rsp' \subseteq N4Msg
      BY <1>0, <1>1, <1>2 DEF HoTypeOK, Connecting
    <2> QED BY <1>0, <1>1, <1>5, <1>6, <2>1 DEF HoTypeOK
  <1>8. HoData'
    <2>1. \A k \in UE : RanData(k)' /\ ForwardData(k)'
      BY <1>0, <1>1 DEF HoData, RanData, ForwardData
    <2>2. OutData(c)'
      BY <1>0, <1>1, <1>2, <1>3 DEF HoData, OutData, Connecting, Waiting
    <2>3. \A d \in Conn : d # c => OutData(d)'
      BY <1>0, <1>1, <1>3 DEF HoData, OutData
    <2>4. \A d \in Conn : PacketData(d)'
      BY <1>0, <1>1 DEF HoData, PacketData
    <2> QED BY <2>1, <2>2, <2>3, <2>4 DEF HoData
  <1>9. HoCalls'
    <2>1. \A o \in n4req' : MsgOk(o)'
      BY <1>0, <1>1 DEF HoCalls, MsgOk
    <2>2. n4rsp' \subseteq n4rsp /\ \A o \in n4rsp' : o.conn # c
      BY <1>1
    <2> QED BY <1>0, <1>1, <1>3, <2>1, <2>2, WorkerCalls
  <1>10. ASSUME ~ missed' PROVE FALSE
    <2>1. ~ Pending(c) /\ Kept
      BY <1>0, <1>4, <1>10
    <2>2. Asked(c) \/ Handled(c) \/ Replied(c)
      BY <1>1, <2>1 DEF Kept, Carried
    <2>3. ~ Asked(c)
      BY <2>1 DEF Asked, Pending, Kept, Current
    <2>4. ~ Replied(c)
      BY <1>0, <2>1 DEF Replied, Pending, HoCalls
    <2>5. ~ Handled(c)
      BY <2>1 DEF Handled, Pending, Kept, Current, Working
    <2> QED BY <2>2, <2>3, <2>4, <2>5
  <1> QED BY <1>7, <1>8, <1>9, <1>10 DEF HoInv

LEMMA LoseKeeps ==
    ASSUME HoInv, HoLose
    PROVE  HoInv'
PROOF
  <1>0. HoTypeOK /\ HoData /\ HoCalls
    BY DEF HoInv
  <1>1. /\ faults < MaxFault /\ faults' = faults + 1 /\ missed' = TRUE
        /\ n4req' \subseteq n4req /\ n4rsp' \subseteq n4rsp
        /\ UNCHANGED <<src, tgt, up, toSrc, toTgt, amf, out, listening, port, s1_id, dl, ho_ue_ctx, upf>>
    BY DEF HoLose, ranHo, upfHo
  <1>2. faults' \in 0 .. MaxFault
    BY <1>0, <1>1, HandoverAssumption DEF HoTypeOK
  <1>3. HoTypeOK'
    <2>1. missed' \in BOOLEAN
      BY <1>1
    <2> QED BY <1>0, <1>1, <1>2, <2>1 DEF HoTypeOK
  <1>4. HoData'
    BY <1>0, <1>1, OutFrame DEF HoData, RanData, ForwardData, PacketData
  <1>5. HoCalls'
    <2>1. \A m \in (n4req \cup n4rsp)' : MsgOk(m)'
      BY <1>0, <1>1 DEF HoCalls, MsgOk
    <2>2. \A t \in UpfThread : Handler(t)'
      BY <1>0, <1>1 DEF HoCalls, Handler, MsgOk, Working
    <2> QED BY <1>0, <1>1, <2>1, <2>2 DEF HoCalls, Waits
  <1> QED BY <1>1, <1>3, <1>4, <1>5 DEF HoInv

LEMMA ListenKeeps ==
    ASSUME HoInv, RanListens
    PROVE  HoInv'
PROOF
  <1>1. /\ listening' = TRUE
        /\ UNCHANGED <<src, tgt, up, toSrc, toTgt, amf, out, port, n4req, n4rsp, s1_id, dl, ho_ue_ctx, upf, faults, missed>>
    BY DEF RanListens, ranHo, upfHo
  <1>2. HoTypeOK'
    <2>1. listening' \in BOOLEAN
      BY <1>1
    <2> QED BY <1>1, <2>1 DEF HoInv, HoTypeOK
  <1>3. HoData'
    BY <1>1, OutFrame DEF HoInv, HoData, RanData, ForwardData, PacketData
  <1>4. HoCalls'
    BY <1>1, CallsFrame DEF HoInv
  <1>5. ASSUME ~ missed' PROVE Kept'
    <2>1. Kept
      BY <1>1, <1>5 DEF HoInv
    <2>2. PICK n \in UE : TRUE
      BY HandoverAssumption
    <2>3. \A k \in UE : SameUe(k)
      BY <1>1 DEF SameUe
    <2>4. (Before(n) \/ After(n))' /\ Tables(n)'
      BY <1>1, <2>1, <2>3, LineFrame, TablesFrame DEF Kept
    <2> QED BY <1>1, <2>1, <2>3, <2>4, KeptFrame
  <1> QED BY <1>2, <1>3, <1>4, <1>5 DEF HoInv

-----------------------------------------------------------------------------
(***************************************************************************)
(* The steps of the UPF.                                                   *)
(***************************************************************************)
\* Where a handover is while a handler works for it.
LEMMA Whereabouts ==
    ASSUME HoTypeOK, HoCalls, Kept, NEW t \in UpfThread, Working(t),
           NEW n \in UE, n = upf[t].pkt.conn[1]
    PROVE  /\ tgt[n].handover_state = 3
           /\ upf[t].pkt.op = 4 => /\ upf[t].pkt.conn = Tgt(n) /\ amf[Tgt(n)] = "setup"
                                   /\ ~ src[n].done
           /\ upf[t].pkt.op = 5 => /\ upf[t].pkt.conn = Tgt(n) /\ amf[Tgt(n)] = "switch"
                                   /\ ~ src[n].done
           /\ upf[t].pkt.op = 6 => /\ upf[t].pkt.conn = Src(n) /\ amf[Tgt(n)] = "idle"
                                   /\ src[n].done /\ tgt[n].done
PROOF
  <1>1. /\ upf[t].pkt \in N4Msg /\ upf[t].pkt.conn \in Conn
        /\ amf[upf[t].pkt.conn] = Start(upf[t].pkt.op) /\ upf[t].pkt.op \in {4, 5, 6}
    BY DEF HoTypeOK, UpfLoc, N4Msg, Kept, Current, Waits
  <1>2. upf[t].pkt.conn \in {Src(n), Tgt(n)}
    BY <1>1, HoConns
  <1>3. /\ upf[t].pkt.op = 4 => amf[upf[t].pkt.conn] = "setup"
        /\ upf[t].pkt.op = 5 => amf[upf[t].pkt.conn] = "switch"
        /\ upf[t].pkt.op = 6 => amf[upf[t].pkt.conn] = "teardown"
    BY <1>1 DEF Start
  <1>4. Before(n) \/ After(n)
    BY DEF Kept
  <1> QED BY <1>1, <1>2, <1>3, <1>4 DEF Before, After, Idle, Tears, ToSetup, Setup, SetupConn, ToSwitch,
                                        Switch, SwitchConn, Switched

\* A handler that goes on keeps its request and the IMSI it has looked up.
LEMMA HandlerGoesOn ==
    ASSUME HoTypeOK, HoCalls, NEW t \in UpfThread, NEW r \in UpfLoc, Working(t),
           upf' = [upf EXCEPT ![t] = r], r.pkt = upf[t].pkt, r.imsi = upf[t].imsi,
           \/ upf[t].pkt.op = 4 /\ r.pc = "itf" /\ r.smf = upf[t].pkt.teid
           \/ upf[t].pkt.op = 5 /\ r.pc \in {"erase", "erasing"},
           n4req' = n4req, n4rsp' = n4rsp, amf' = amf, tgt' = tgt
    PROVE  /\ HoCalls' /\ upf' \in [UpfThread -> UpfLoc]
           /\ Kept => Current' /\ (\A c \in Conn : Carried(c)') /\ TearsIndirect'
PROOF
  <1>1. /\ upf' \in [UpfThread -> UpfLoc] /\ upf'[t] = r
        /\ \A u \in UpfThread : u # t => upf'[u] = upf[u]
    BY DEF HoTypeOK
  <1>2. \A u \in UpfThread : upf'[u].pkt = upf[u].pkt /\ (Working(u)' <=> Working(u))
    BY <1>1 DEF Working
  <1>3. \A u \in UpfThread : Handler(u)'
    <2>1. Handler(t)'
      BY <1>1, <1>2 DEF HoCalls, Handler, MsgOk
    <2>2. \A u \in UpfThread : u # t => Handler(u)'
      BY <1>1, <1>2 DEF HoCalls, Handler, MsgOk
    <2> QED BY <2>1, <2>2
  <1>5. HoCalls'
    BY <1>3 DEF HoCalls, MsgOk, Waits
  <1>6. ASSUME Kept PROVE Current' /\ (\A c \in Conn : Carried(c)') /\ TearsIndirect'
    <2>0. Current'
      <3>1. OneWay'
        BY <1>2, <1>6 DEF Kept, Current, OneWay
      <3>2. \A u \in UpfThread : (Working(u) => Waits(upf[u].pkt))'
        BY <1>2, <1>6 DEF Kept, Current, Waits
      <3> QED BY <1>6, <3>1, <3>2 DEF Kept, Current, Waits
    <2>1. \A c \in Conn : Handled(c) => Handled(c)'
      BY <1>2 DEF Handled
    <2>2. \A c \in Conn : Carried(c)'
      BY <1>6, <2>1 DEF Kept, Carried, Asked, Replied
    <2>3. TearsIndirect'
      BY <1>1, <1>6 DEF Kept, TearsIndirect
    <2> QED BY <2>0, <2>2, <2>3
  <1> QED BY <1>1, <1>5, <1>6

\* A handler that replies ends, and its call is then answered.
LEMMA HandlerReplies ==
    ASSUME HoTypeOK, HoCalls, NEW t \in UpfThread, Working(t), NEW x \in Tunnel, Reply(t, x),
           upf[t].pkt.op = 4 => x = Teid(upf[t].pkt.conn[1]) + 1,
           n4req' = n4req, amf' = amf, tgt' = tgt
    PROVE  /\ HoCalls' /\ upf' \in [UpfThread -> UpfLoc] /\ n4rsp' \subseteq N4Msg
           /\ \A m \in n4rsp' : m \in n4rsp \/ m.conn = upf[t].pkt.conn
           /\ Kept => Current' /\ (\A c \in Conn : Carried(c)') /\ TearsIndirect'
PROOF
  <1>0. PICK o : o = [upf[t].pkt EXCEPT !.x = x]
    OBVIOUS
  <1>1. /\ upf[t].pkt \in N4Msg /\ o \in N4Msg /\ o.conn = upf[t].pkt.conn
        /\ o.op = upf[t].pkt.op /\ o.teid = upf[t].pkt.teid /\ o.x = x
    BY <1>0 DEF HoTypeOK, UpfLoc, N4Msg
  <1>2. /\ n4rsp' = n4rsp \cup (IF Waits(upf[t].pkt) THEN {o} ELSE {})
        /\ upf' = [upf EXCEPT ![t] = UpfIdle]
    BY <1>0 DEF Reply
  <1>a. /\ n4rsp' \subseteq n4rsp \cup {o} /\ n4rsp \subseteq n4rsp'
        /\ Kept => Waits(upf[t].pkt) /\ n4rsp' = n4rsp \cup {o}
    BY <1>2 DEF Kept, Current
  <1>3. /\ upf' \in [UpfThread -> UpfLoc] /\ ~ Working(t)' /\ n4rsp' \subseteq N4Msg
        /\ \A u \in UpfThread : u # t => upf'[u] = upf[u]
    BY <1>1, <1>2, <1>a, HoLookups DEF HoTypeOK, Working, UpfIdle
  <1>4. MsgOk(o) /\ MsgOk(o)'
    BY <1>1 DEF HoCalls, Handler, MsgOk
  <1>5. \A m \in (n4req \cup n4rsp)' : MsgOk(m)'
    BY <1>4, <1>a DEF HoCalls, MsgOk
  <1>6. \A m \in n4rsp' : Waits(m)' /\ (m.op = 4 => m.x = Teid(m.conn[1]) + 1)
    <2>1. \A m \in n4rsp : Waits(m)' /\ (m.op = 4 => m.x = Teid(m.conn[1]) + 1)
      BY DEF HoCalls, Waits
    <2>2. o \in n4rsp' => o \in n4rsp \/ Waits(o)'
      BY <1>1, <1>2 DEF Waits
    <2> QED BY <1>1, <1>a, <2>1, <2>2
  <1>7. \A u \in UpfThread : Handler(u)'
    BY <1>3 DEF HoCalls, Handler, MsgOk, Working
  <1>9. ASSUME Kept PROVE Current' /\ (\A c \in Conn : Carried(c)') /\ TearsIndirect'
    <2>a. n4rsp' = n4rsp \cup {o} /\ Current
      BY <1>9, <1>a DEF Kept
    <2>b. OneWay'
      <3>1. /\ \A m \in n4req \cup n4rsp : m.conn # o.conn
            /\ \A u \in UpfThread : (u # t /\ Working(u)) => upf[u].pkt.conn # o.conn
        BY <1>1, <2>a DEF Current, OneWay
      <3> QED BY <1>3, <2>a, <3>1 DEF Current, OneWay, Working
    <2>c. Current'
      <3>1. \A u \in UpfThread : (Working(u) => Waits(upf[u].pkt))'
        BY <1>3, <2>a DEF Current, Working, Waits
      <3> QED BY <2>a, <2>b, <3>1 DEF Current, Waits
    <2>1. ASSUME NEW c \in Conn, Handled(c) PROVE Handled(c)' \/ Replied(c)'
      <3>1. PICK u \in UpfThread : Working(u) /\ upf[u].pkt.conn = c
        BY <2>1 DEF Handled
      <3>2. CASE u = t
        BY <1>1, <2>a, <3>1, <3>2 DEF Replied
      <3>3. CASE u # t
        BY <1>3, <3>1, <3>3 DEF Handled, Working
      <3> QED BY <3>2, <3>3
    <2>2. \A c \in Conn : Carried(c)'
      BY <1>9, <2>1, <2>a DEF Kept, Carried, Asked, Replied
    <2>3. TearsIndirect'
      BY <1>3, <1>9 DEF Kept, TearsIndirect, Working
    <2> QED BY <2>2, <2>3, <2>c
  <1>10. \A m \in n4rsp' : m \in n4rsp \/ m.conn = upf[t].pkt.conn
    BY <1>1, <1>a
  <1>11. HoCalls'
    BY <1>5, <1>6, <1>7 DEF HoCalls
  <1> QED BY <1>3, <1>9, <1>10, <1>11

LEMMA ReceiveKeeps ==
    ASSUME HoInv, NEW t \in UpfThread, RcvHo(t)
    PROVE  HoInv'
PROOF
  <1>0. HoTypeOK /\ HoData /\ HoCalls /\ (~ missed => Kept)
    BY DEF HoInv
  <1>1. PICK m \in n4req :
          /\ upf[t].pc = "idle" /\ n4req' = n4req \ {m}
          /\ upf' = [upf EXCEPT ![t] = [pc |-> Start(m.op), pkt |-> m, smf |-> 0,
                                        imsi |-> get_imsi_of(m.teid)]]
          /\ UNCHANGED <<src, tgt, up, toSrc, toTgt, amf, out, n4rsp, s1_id, dl, ho_ue_ctx, listening, port, faults, missed>>
    BY DEF RcvHo, ranHo, envHo
  <1>2. PICK n \in UE : n = m.conn[1]
    BY <1>0, HoConns DEF HoTypeOK, N4Msg
  <1>3. /\ m \in N4Msg /\ MsgOk(m) /\ m.op \in {4, 5, 6} /\ get_imsi_of(m.teid) = Imsi(n)
        /\ Imsi(n) \in ImsiHo
    <2>1. m \in N4Msg /\ MsgOk(m)
      BY <1>0, <1>1 DEF HoTypeOK, HoCalls
    <2>2. m.teid = Teid(n) /\ m.op \in {4, 5, 6}
      BY <1>2, <2>1 DEF MsgOk, N4Msg
    <2> QED BY <2>1, <2>2, HoIdentities
  <1>4. PICK r : r = [pc |-> Start(m.op), pkt |-> m, smf |-> 0, imsi |-> Imsi(n)]
    OBVIOUS
  <1>5. /\ r \in UpfLoc /\ r.pkt = m /\ r.imsi = Imsi(n) /\ r.pc # "idle"
        /\ \/ r.pc = "setup" /\ m.op = 4
           \/ r.pc = "switch" /\ m.op = 5
           \/ r.pc = "teardown" /\ m.op = 6
    <2>1. /\ m.op = 4 => Start(m.op) = "setup"
          /\ m.op = 5 => Start(m.op) = "switch"
          /\ m.op = 6 => Start(m.op) = "teardown"
      BY DEF Start
    <2>2. 0 \in Tunnel
      BY TelecomAssumption DEF Tunnel
    <2>3. /\ r.pkt = m /\ r.imsi = Imsi(n)
          /\ \/ r.pc = "setup" /\ m.op = 4
             \/ r.pc = "switch" /\ m.op = 5
             \/ r.pc = "teardown" /\ m.op = 6
      BY <1>3, <1>4, <2>1
    <2>4. r \in UpfLoc
      BY <1>3, <1>4, <2>1, <2>2 DEF UpfLoc
    <2> QED BY <2>3, <2>4
  <1>6. /\ upf' \in [UpfThread -> UpfLoc] /\ upf'[t] = r
        /\ \A u \in UpfThread : u # t => upf'[u] = upf[u]
    BY <1>0, <1>1, <1>3, <1>4, <1>5 DEF HoTypeOK
  <1>7. HoTypeOK'
    BY <1>0, <1>1, <1>6 DEF HoTypeOK
  <1>8. HoData'
    BY <1>0, <1>1, OutFrame DEF HoData, RanData, ForwardData, PacketData
  <1>9. HoCalls'
    <2>1. \A o \in N4Msg : MsgOk(o)' <=> MsgOk(o)
      BY <1>1 DEF MsgOk
    <2>2. \A o \in (n4req \cup n4rsp)' : MsgOk(o)'
      BY <1>0, <1>1 DEF HoCalls, MsgOk
    <2>3. Handler(t)'
      BY <1>1, <1>2, <1>3, <1>5, <1>6 DEF Handler, MsgOk
    <2>4. \A u \in UpfThread : u # t => Handler(u)'
      BY <1>0, <1>1, <1>6 DEF HoCalls, Handler, MsgOk, Working
    <2> QED BY <1>0, <1>1, <2>2, <2>3, <2>4 DEF HoCalls, Waits
  <1>10. ASSUME ~ missed' PROVE Kept'
    <2>1. Kept /\ Current /\ TunnelOwner
      BY <1>0, <1>1, <1>10 DEF Kept
    <2>a. OneWay'
      <3>1. /\ \A o \in n4req' : o.conn # m.conn
            /\ \A o \in n4rsp : o.conn # m.conn
            /\ \A u \in UpfThread : Working(u) => upf[u].pkt.conn # m.conn
        BY <1>1, <2>1 DEF Current, OneWay
      <3> QED BY <1>1, <1>5, <1>6, <2>1, <3>1 DEF Current, OneWay, Working
    <2>b. Current'
      <3>1. \A o \in n4req' : Waits(o)'
        BY <1>1, <2>1 DEF Current, Waits
      <3>2. \A u \in UpfThread : (Working(u) => Waits(upf[u].pkt))'
        BY <1>1, <1>5, <1>6, <2>1 DEF Current, Working, Waits
      <3> QED BY <2>a, <3>1, <3>2 DEF Current
    <2>c. TunnelOwner'
      BY <1>1, <2>1, OwnerFrame
    <2>2. ASSUME NEW c \in Conn PROVE Carried(c)'
      <3>1. CASE c = m.conn
        BY <1>5, <1>6, <3>1 DEF Carried, Handled, Working
      <3>2. CASE c # m.conn
        <4>1. Asked(c) => Asked(c)'
          BY <1>1, <3>2 DEF Asked
        <4>2. Handled(c) => Handled(c)'
          BY <1>1, <1>6 DEF Handled, Working
        <4> QED BY <1>1, <2>1, <4>1, <4>2 DEF Kept, Carried, Replied
      <3> QED BY <3>1, <3>2
    <2>3. TearsIndirect'
      BY <1>1, <1>5, <1>6, <2>1 DEF Kept, TearsIndirect
    <2>4. ASSUME NEW k \in UE PROVE (Before(k) \/ After(k))' /\ Tables(k)'
      <3>1. SameUe(k)
        BY <1>1 DEF SameUe
      <3> QED BY <1>1, <2>1, <3>1, LineFrame, TablesFrame DEF Kept
    <2> QED BY <2>2, <2>3, <2>4, <2>b, <2>c DEF Kept
  <1> QED BY <1>7, <1>8, <1>9, <1>10 DEF HoInv

\* What the step of a handler at the UPF leaves alone.
HandlerFrame ==
    UNCHANGED <<src, tgt, up, toSrc, toTgt, amf, out, n4req, listening, port, faults, missed>>

LEMMA HandlerData ==
    ASSUME HoData, HandlerFrame
    PROVE  HoData' /\ \A k \in UE : SameUe(k)
BY OutFrame DEF HandlerFrame, HoData, RanData, ForwardData, PacketData, SameUe

\* The UE a handler works for.
LEMMA WorksFor ==
    ASSUME HoTypeOK, HoCalls, NEW t \in UpfThread, Working(t)
    PROVE  \E n \in UE : /\ n = upf[t].pkt.conn[1] /\ upf[t].imsi = Imsi(n) /\ upf[t].pkt.teid = Teid(n)
                         /\ upf[t] \in UpfLoc /\ upf[t].pkt \in N4Msg
                         /\ upf[t].pkt.conn \in {Src(n), Tgt(n)}
                         /\ \A k \in UE : k # n => upf[t].pkt.conn \notin {Src(k), Tgt(k)}
PROOF
  <1>1. upf[t] \in UpfLoc /\ upf[t].pkt \in N4Msg /\ upf[t].pkt.conn \in Conn /\ Handler(t)
    BY DEF HoTypeOK, HoCalls, UpfLoc, N4Msg
  <1>2. PICK n \in UE : n = upf[t].pkt.conn[1]
    BY <1>1, HoConns
  <1>3. upf[t].imsi = Imsi(n) /\ upf[t].pkt.teid = Teid(n)
    BY <1>1, <1>2 DEF Handler, MsgOk
  <1>4. upf[t].pkt.conn \in {Src(n), Tgt(n)}
    BY <1>1, <1>2, HoConns
  <1>5. \A k \in UE : k # n => upf[t].pkt.conn \notin {Src(k), Tgt(k)}
    BY <1>4, HoConns
  <1> QED BY <1>1, <1>2, <1>3, <1>4, <1>5

LEMMA SetupCtxKeeps ==
    ASSUME HoInv, NEW t \in UpfThread, SetupCtx(t)
    PROVE  HoInv'
PROOF
  <1>0. HoTypeOK /\ HoData /\ HoCalls /\ (~ missed => Kept)
    BY DEF HoInv
  <1>1. /\ upf[t].pc = "setup" /\ Working(t) /\ HandlerFrame
        /\ UNCHANGED <<n4rsp, s1_id, dl>>
        /\ upf' = [upf EXCEPT ![t] = [@ EXCEPT !.pc = "itf", !.smf = upf[t].pkt.teid]]
        /\ \/ ho_ue_ctx' = [ho_ue_ctx EXCEPT ![HoKey(upf[t].imsi)] = upf[t].pkt.x]
           \/ ho_ue_ctx' = ho_ue_ctx
    BY DEF SetupCtx, Working, HandlerFrame, ranHo, envHo
  <1>2. PICK n \in UE : /\ n = upf[t].pkt.conn[1] /\ upf[t].imsi = Imsi(n)
                        /\ upf[t] \in UpfLoc /\ upf[t].pkt \in N4Msg
    BY <1>0, <1>1, WorksFor
  <1>3. PICK r : r = [upf[t] EXCEPT !.pc = "itf", !.smf = upf[t].pkt.teid]
    OBVIOUS
  <1>4. r \in UpfLoc /\ r.pkt = upf[t].pkt /\ r.imsi = upf[t].imsi /\ r.pc = "itf" /\ r.smf = upf[t].pkt.teid
    BY <1>2, <1>3 DEF UpfLoc, N4Msg
  <1>5. upf[t].pkt.op = 4 /\ upf' = [upf EXCEPT ![t] = r]
    BY <1>0, <1>1, <1>3 DEF HoCalls, Handler
  <1>6. /\ HoCalls' /\ upf' \in [UpfThread -> UpfLoc]
        /\ Kept => Current' /\ (\A c \in Conn : Carried(c)') /\ TearsIndirect'
    BY <1>0, <1>1, <1>4, <1>5, HandlerGoesOn DEF HandlerFrame
  <1>7. HoTypeOK'
    <2>1. upf[t].pkt.x \in Tunnel /\ HoKey(Imsi(n)) \in Key
      BY <1>2, HoIdentities DEF N4Msg
    <2>2. ho_ue_ctx' \in [Key -> Tunnel \cup {NoEntry}]
      BY <1>0, <1>1, <1>2, <2>1 DEF HoTypeOK
    <2> QED BY <1>0, <1>1, <1>6, <2>2 DEF HoTypeOK, HandlerFrame
  <1>8. HoData' /\ \A k \in UE : SameUe(k)
    BY <1>0, <1>1, HandlerData
  <1>9. ASSUME ~ missed' PROVE Kept'
    <2>1. Kept
      BY <1>0, <1>1, <1>9 DEF HandlerFrame
    <2>2. amf[Tgt(n)] = "setup" /\ ~ src[n].done
      BY <1>0, <1>1, <1>2, <1>5, <2>1, Whereabouts
    <2>3. Tables(n)'
      BY <1>1, <2>1, <2>2 DEF Kept, Tables, HandlerFrame
    <2>4. ASSUME NEW k \in UE, k # n PROVE Tables(k)'
      <3>1. ho_ue_ctx'[HoKey(Imsi(k))] = ho_ue_ctx[HoKey(Imsi(k))]
        BY <1>0, <1>1, <1>2, <2>4, OwnIdentities, HoIdentities DEF HoTypeOK
      <3> QED BY <1>1, <1>8, <2>1, <3>1, TablesFrame DEF Kept
    <2>5. \A k \in UE : (Before(k) \/ After(k))'
      BY <1>8, <2>1, LineFrame DEF Kept
    <2>a. TunnelOwner'
      BY <1>1, <2>1, OwnerFrame DEF Kept, HandlerFrame
    <2> QED BY <1>6, <2>1, <2>3, <2>4, <2>5, <2>a DEF Kept
  <1> QED BY <1>6, <1>7, <1>8, <1>9 DEF HoInv

LEMMA SwitchCtxKeeps ==
    ASSUME HoInv, NEW t \in UpfThread, SwitchCtx(t)
    PROVE  HoInv'
PROOF
  <1>0. HoTypeOK /\ HoData /\ HoCalls /\ (~ missed => Kept)
    BY DEF HoInv
  <1>1. PICK d \in (IF ho_ue_ctx[HoKey(upf[t].imsi)] = NoEntry THEN Tunnel
                    ELSE {ho_ue_ctx[HoKey(upf[t].imsi)]}) :
          /\ upf[t].pc = "switch" /\ Working(t) /\ HandlerFrame
          /\ UNCHANGED <<n4rsp, s1_id>>
          /\ dl' = [dl EXCEPT ![upf[t].imsi] = d]
          /\ ho_ue_ctx' = [ho_ue_ctx EXCEPT ![HoKey(upf[t].imsi)] = d]
          /\ upf' = [upf EXCEPT ![t] = [@ EXCEPT !.pc = "erase", !.smf = upf[t].pkt.teid]]
    BY DEF SwitchCtx, Working, HandlerFrame, ranHo, envHo
  <1>2. PICK n \in UE : /\ n = upf[t].pkt.conn[1] /\ upf[t].imsi = Imsi(n)
                        /\ upf[t] \in UpfLoc /\ upf[t].pkt \in N4Msg
    BY <1>0, <1>1, WorksFor
  <1>3. PICK r : r = [upf[t] EXCEPT !.pc = "erase", !.smf = upf[t].pkt.teid]
    OBVIOUS
  <1>4. r \in UpfLoc /\ r.pkt = upf[t].pkt /\ r.imsi = upf[t].imsi /\ r.pc = "erase"
    BY <1>2, <1>3 DEF UpfLoc, N4Msg
  <1>5. upf[t].pkt.op = 5 /\ upf' = [upf EXCEPT ![t] = r]
    BY <1>0, <1>1, <1>3 DEF HoCalls, Handler
  <1>6. /\ HoCalls' /\ upf' \in [UpfThread -> UpfLoc]
        /\ Kept => Current' /\ (\A c \in Conn : Carried(c)') /\ TearsIndirect'
    BY <1>0, <1>1, <1>4, <1>5, HandlerGoesOn DEF HandlerFrame
  <1>7. HoTypeOK'
    <2>1. HoKey(Imsi(n)) \in Key /\ Imsi(n) \in ImsiHo
      BY HoIdentities
    <2>2. d \in Tunnel
      BY <1>0, <1>1, <1>2, <2>1 DEF HoTypeOK
    <2>3. ho_ue_ctx' \in [Key -> Tunnel \cup {NoEntry}] /\ dl' \in [ImsiHo -> Tunnel]
      BY <1>0, <1>1, <1>2, <2>1, <2>2 DEF HoTypeOK
    <2> QED BY <1>0, <1>1, <1>6, <2>3 DEF HoTypeOK, HandlerFrame
  <1>8. HoData' /\ \A k \in UE : SameUe(k)
    BY <1>0, <1>1, HandlerData
  <1>9. ASSUME ~ missed' PROVE Kept'
    <2>1. Kept
      BY <1>0, <1>1, <1>9 DEF HandlerFrame
    <2>2. amf[Tgt(n)] = "switch" /\ ~ src[n].done /\ upf[t].pkt.conn = Tgt(n)
      BY <1>0, <1>1, <1>2, <1>5, <2>1, Whereabouts
    <2>3. ~ Replied(Tgt(n))'
      BY <1>1, <2>1, <2>2 DEF Kept, Current, OneWay, Replied
    <2>4. Tables(n)'
      BY <1>1, <2>1, <2>2, <2>3 DEF Kept, Tables, HandlerFrame
    <2>5. ASSUME NEW k \in UE, k # n PROVE Tables(k)'
      <3>1. ho_ue_ctx'[HoKey(Imsi(k))] = ho_ue_ctx[HoKey(Imsi(k))]
        BY <1>0, <1>1, <1>2, <2>5, OwnIdentities, HoIdentities DEF HoTypeOK
      <3> QED BY <1>1, <1>8, <2>1, <3>1, TablesFrame DEF Kept
    <2>6. \A k \in UE : (Before(k) \/ After(k))'
      BY <1>8, <2>1, LineFrame DEF Kept
    <2>a. TunnelOwner'
      BY <1>1, <2>1, OwnerFrame DEF Kept, HandlerFrame
    <2> QED BY <1>6, <2>1, <2>4, <2>5, <2>6, <2>a DEF Kept
  <1> QED BY <1>6, <1>7, <1>8, <1>9 DEF HoInv

LEMMA EraseBeginKeeps ==
    ASSUME HoInv, NEW t \in UpfThread, EraseBegin(t)
    PROVE  HoInv'
PROOF
  <1>0. HoTypeOK /\ HoData /\ HoCalls /\ (~ missed => Kept)
    BY DEF HoInv
  <1>1. /\ upf[t].pc = "erase" /\ Working(t) /\ HandlerFrame
        /\ UNCHANGED <<n4rsp, s1_id, dl, ho_ue_ctx>>
    BY DEF EraseBegin, Working, HandlerFrame, ranHo, envHo
  <1>2. upf[t] \in UpfLoc
    BY <1>0 DEF HoTypeOK
  <1>3. PICK r : r = [upf[t] EXCEPT !.pc = "erasing"]
    OBVIOUS
  <1>4. r \in UpfLoc /\ r.pkt = upf[t].pkt /\ r.imsi = upf[t].imsi /\ r.pc = "erasing"
    BY <1>2, <1>3 DEF UpfLoc
  <1>5. upf[t].pkt.op = 5 /\ upf' = [upf EXCEPT ![t] = r]
    BY <1>0, <1>1, <1>3 DEF HoCalls, Handler, HoTypeOK, EraseBegin
  <1>6. /\ HoCalls' /\ upf' \in [UpfThread -> UpfLoc]
        /\ Kept => Current' /\ (\A c \in Conn : Carried(c)') /\ TearsIndirect'
    BY <1>0, <1>1, <1>4, <1>5, HandlerGoesOn DEF HandlerFrame
  <1>7. HoTypeOK'
    BY <1>0, <1>1, <1>6 DEF HoTypeOK, HandlerFrame
  <1>8. HoData' /\ \A k \in UE : SameUe(k)
    BY <1>0, <1>1, HandlerData
  <1>9. ASSUME ~ missed' PROVE Kept'
    <2>1. Kept
      BY <1>0, <1>1, <1>9 DEF HandlerFrame
    <2>a. TunnelOwner'
      BY <1>1, <2>1, OwnerFrame DEF Kept, HandlerFrame
    <2> QED BY <1>1, <1>6, <1>8, <2>1, LineFrame, TablesFrame, <2>a DEF Kept
  <1> QED BY <1>6, <1>7, <1>8, <1>9 DEF HoInv

LEMMA SetupItfKeeps ==
    ASSUME HoInv, NEW t \in UpfThread, SetupItf(t)
    PROVE  HoInv'
PROOF
  <1>0. HoTypeOK /\ HoData /\ HoCalls /\ (~ missed => Kept)
    BY DEF HoInv
  <1>1. /\ upf[t].pc = "itf" /\ Working(t) /\ HandlerFrame /\ UNCHANGED <<dl, ho_ue_ctx>>
        /\ s1_id' = [s1_id EXCEPT ![upf[t].smf + 1] = upf[t].imsi] /\ Reply(t, upf[t].smf + 1)
    BY DEF SetupItf, Working, HandlerFrame, ranHo, envHo
  <1>2. PICK n \in UE : /\ n = upf[t].pkt.conn[1] /\ upf[t].imsi = Imsi(n)
                        /\ upf[t].pkt.teid = Teid(n)
                        /\ \A k \in UE : k # n => upf[t].pkt.conn \notin {Src(k), Tgt(k)}
    BY <1>0, <1>1, WorksFor
  <1>3. /\ upf[t].pkt.op = 4 /\ upf[t].smf + 1 = Teid(n) + 1
        /\ s1_id' = [s1_id EXCEPT ![Teid(n) + 1] = Imsi(n)] /\ Reply(t, Teid(n) + 1)
    BY <1>0, <1>1, <1>2 DEF HoCalls, Handler
  <1>4. /\ Teid(n) + 1 \in Tunnel /\ Imsi(n) \in ImsiHo /\ Teid(n) \in Tunnel
        /\ Teid(n) # Teid(n) + 1
    BY HoIdentities
  <1>5. /\ HoCalls' /\ upf' \in [UpfThread -> UpfLoc] /\ n4rsp' \subseteq N4Msg
        /\ \A m \in n4rsp' : m \in n4rsp \/ m.conn = upf[t].pkt.conn
        /\ Kept => Current' /\ (\A c \in Conn : Carried(c)') /\ TearsIndirect'
    BY <1>0, <1>1, <1>2, <1>3, <1>4, HandlerReplies DEF HandlerFrame
  <1>6. s1_id' \in [Tunnel -> ImsiHo]
    BY <1>0, <1>3, <1>4 DEF HoTypeOK
  <1>7. HoTypeOK'
    BY <1>0, <1>1, <1>5, <1>6 DEF HoTypeOK, HandlerFrame
  <1>8. HoData' /\ \A k \in UE : SameUe(k)
    BY <1>0, <1>1, HandlerData
  <1>9. ASSUME ~ missed' PROVE Kept'
    <2>1. Kept
      BY <1>0, <1>1, <1>9 DEF HandlerFrame
    <2>2. amf[Tgt(n)] = "setup" /\ ~ src[n].done /\ tgt[n].handover_state = 3
      BY <1>0, <1>1, <1>2, <1>3, <2>1, Whereabouts
    <2>3. s1_id'[Teid(n) + 1] = Imsi(n) /\ \A i \in Tunnel : i # Teid(n) + 1 => s1_id'[i] = s1_id[i]
      BY <1>0, <1>3, <1>4 DEF HoTypeOK
    <2>4. Tables(n)'
      BY <1>1, <1>4, <2>1, <2>2, <2>3 DEF Kept, Tables, HandlerFrame
    <2>5. ASSUME NEW k \in UE, k # n PROVE Tables(k)'
      <3>1. Imsi(k) # Imsi(n) /\ Teid(k) + 1 \in Tunnel
        BY <2>5, OwnIdentities, HoIdentities
      <3>2. Tables(k) /\ SameUe(k) /\ ho_ue_ctx' = ho_ue_ctx
        BY <1>1, <1>8, <2>1 DEF Kept
      <3>3. (Replied(Src(k))' => Replied(Src(k))) /\ (Replied(Tgt(k))' => Replied(Tgt(k)))
        BY <1>2, <1>5, <2>5 DEF Replied
      <3> QED BY <2>3, <3>1, <3>2, <3>3 DEF Tables, SameUe
    <2>6. \A k \in UE : (Before(k) \/ After(k))'
      BY <1>8, <2>1, LineFrame DEF Kept
    <2>a. TunnelOwner'
      <3>1. tgt' = tgt /\ TunnelOwner /\ tgt[n].handover_state = 3
        BY <1>1, <2>1, <2>2 DEF Kept, HandlerFrame
      <3>2. \A k \in UE : Overlaid(k)' = Overlaid(k)
        BY <3>1 DEF Overlaid
      <3>3. \A k \in UE : Teid(k) = Teid(n) + 1 => Overlaid(k)
        BY <3>1 DEF Overlaid
      <3>4. \A k \in UE : Teid(k) \in Tunnel
        BY HoIdentities
      <3> QED BY <2>3, <3>1, <3>2, <3>3, <3>4 DEF TunnelOwner
    <2> QED BY <1>5, <2>1, <2>4, <2>5, <2>6, <2>a DEF Kept
  <1> QED BY <1>5, <1>7, <1>8, <1>9 DEF HoInv

LEMMA TeardownKeeps ==
    ASSUME HoInv, NEW t \in UpfThread, Teardown(t)
    PROVE  HoInv'
PROOF
  <1>0. HoTypeOK /\ HoData /\ HoCalls /\ (~ missed => Kept)
    BY DEF HoInv
  <1>1. /\ upf[t].pc = "teardown" /\ Working(t) /\ HandlerFrame /\ UNCHANGED <<dl, ho_ue_ctx>>
        /\ s1_id' = [s1_id EXCEPT ![upf[t].pkt.x] = Nobody] /\ Reply(t, 0)
    BY DEF Teardown, Working, HandlerFrame, ranHo, envHo
  <1>2. PICK n \in UE : /\ n = upf[t].pkt.conn[1] /\ upf[t].pkt \in N4Msg
                        /\ \A k \in UE : k # n => upf[t].pkt.conn \notin {Src(k), Tgt(k)}
    BY <1>0, <1>1, WorksFor
  <1>3. upf[t].pkt.op = 6 /\ 0 \in Tunnel /\ Nobody \in ImsiHo /\ upf[t].pkt.x \in Tunnel
    BY <1>0, <1>1, <1>2, TelecomAssumption DEF HoCalls, Handler, Tunnel, ImsiHo, N4Msg
  <1>4. /\ HoCalls' /\ upf' \in [UpfThread -> UpfLoc] /\ n4rsp' \subseteq N4Msg
        /\ \A m \in n4rsp' : m \in n4rsp \/ m.conn = upf[t].pkt.conn
        /\ Kept => Current' /\ (\A c \in Conn : Carried(c)') /\ TearsIndirect'
    BY <1>0, <1>1, <1>3, HandlerReplies DEF HandlerFrame
  <1>5. s1_id' \in [Tunnel -> ImsiHo]
    BY <1>0, <1>1, <1>3 DEF HoTypeOK
  <1>6. HoTypeOK'
    BY <1>0, <1>1, <1>4, <1>5 DEF HoTypeOK, HandlerFrame
  <1>7. HoData' /\ \A k \in UE : SameUe(k)
    BY <1>0, <1>1, HandlerData
  <1>8. ASSUME ~ missed' PROVE Kept'
    <2>1. Kept
      BY <1>0, <1>1, <1>8 DEF HandlerFrame
    <2>2. upf[t].pkt.conn = Src(n) /\ upf[t].pkt.x = Teid(n) + 1 /\ tgt[n].handover_state = 3
      BY <1>0, <1>1, <1>2, <1>3, <2>1, Whereabouts DEF Kept, TearsIndirect
    <2>3. /\ s1_id'[Teid(n) + 1] = Nobody /\ \A i \in Tunnel : i # Teid(n) + 1 => s1_id'[i] = s1_id[i]
          /\ \A i \in Tunnel : s1_id'[i] # Nobody => s1_id'[i] = s1_id[i]
      BY <1>0, <1>1, <1>3, <2>2 DEF HoTypeOK
    <2>4. Tables(n)'
      <3>1. Imsi(n) # Nobody /\ Teid(n) \in Tunnel /\ Teid(n) # Teid(n) + 1
        BY HoIdentities
      <3>2. Tables(n) /\ SameUe(n) /\ ho_ue_ctx' = ho_ue_ctx
        BY <1>1, <1>7, <2>1 DEF Kept
      <3>3. Replied(Tgt(n))' => Replied(Tgt(n))
        BY <1>4, <2>2, HoConns DEF Replied
      <3> QED BY <2>3, <3>1, <3>2, <3>3 DEF Tables, SameUe
    <2>5. ASSUME NEW k \in UE, k # n PROVE Tables(k)'
      <3>1. Imsi(k) # Nobody /\ Teid(k) + 1 \in Tunnel
        BY HoIdentities
      <3>2. Tables(k) /\ SameUe(k) /\ ho_ue_ctx' = ho_ue_ctx
        BY <1>1, <1>7, <2>1 DEF Kept
      <3>3. (Replied(Src(k))' => Replied(Src(k))) /\ (Replied(Tgt(k))' => Replied(Tgt(k)))
        BY <1>2, <1>4, <2>5 DEF Replied
      <3> QED BY <2>3, <3>1, <3>2, <3>3 DEF Tables, SameUe
    <2>6. \A k \in UE : (Before(k) \/ After(k))'
      BY <1>7, <2>1, LineFrame DEF Kept
    <2>a. TunnelOwner'
      <3>1. tgt' = tgt /\ TunnelOwner /\ tgt[n].handover_state = 3
        BY <1>1, <2>1, <2>2 DEF Kept, HandlerFrame
      <3>2. \A k \in UE : Overlaid(k)' = Overlaid(k)
        BY <3>1 DEF Overlaid
      <3>3. \A k \in UE : Teid(k) = Teid(n) + 1 => Overlaid(k)
        BY <3>1 DEF Overlaid
      <3>4. \A k \in UE : Teid(k) \in Tunnel
        BY HoIdentities
      <3> QED BY <2>3, <3>1, <3>2, <3>3, <3>4 DEF TunnelOwner
    <2> QED BY <1>4, <2>1, <2>4, <2>5, <2>6, <2>a DEF Kept
  <1> QED BY <1>4, <1>6, <1>7, <1>8 DEF HoInv

LEMMA EraseEndKeeps ==
    ASSUME HoInv, NEW t \in UpfThread, EraseEnd(t)
    PROVE  HoInv'
PROOF
  <1>0. HoTypeOK /\ HoData /\ HoCalls /\ (~ missed => Kept)
    BY DEF HoInv
  <1>1. /\ upf[t].pc = "erasing" /\ Working(t) /\ HandlerFrame /\ UNCHANGED <<dl, s1_id>>
        /\ ho_ue_ctx' = [ho_ue_ctx EXCEPT ![HoKey(upf[t].imsi)] = NoEntry] /\ Reply(t, 0)
    BY DEF EraseEnd, Working, HandlerFrame, ranHo, envHo
  <1>2. PICK n \in UE : /\ n = upf[t].pkt.conn[1] /\ upf[t].imsi = Imsi(n)
                        /\ \A k \in UE : k # n => upf[t].pkt.conn \notin {Src(k), Tgt(k)}
    BY <1>0, <1>1, WorksFor
  <1>3. upf[t].pkt.op = 5 /\ 0 \in Tunnel /\ HoKey(Imsi(n)) \in Key
    BY <1>0, <1>1, TelecomAssumption, HoIdentities DEF HoCalls, Handler, Tunnel
  <1>4. /\ HoCalls' /\ upf' \in [UpfThread -> UpfLoc] /\ n4rsp' \subseteq N4Msg
        /\ \A m \in n4rsp' : m \in n4rsp \/ m.conn = upf[t].pkt.conn
        /\ Kept => Current' /\ (\A c \in Conn : Carried(c)') /\ TearsIndirect'
    BY <1>0, <1>1, <1>3, HandlerReplies DEF HandlerFrame
  <1>5. /\ ho_ue_ctx' \in [Key -> Tunnel \cup {NoEntry}] /\ ho_ue_ctx'[HoKey(Imsi(n))] = NoEntry
        /\ \A i \in Key : i # HoKey(Imsi(n)) => ho_ue_ctx'[i] = ho_ue_ctx[i]
    BY <1>0, <1>1, <1>2, <1>3 DEF HoTypeOK
  <1>6. HoTypeOK'
    BY <1>0, <1>1, <1>4, <1>5 DEF HoTypeOK, HandlerFrame
  <1>7. HoData' /\ \A k \in UE : SameUe(k)
    BY <1>0, <1>1, HandlerData
  <1>8. ASSUME ~ missed' PROVE Kept'
    <2>1. Kept
      BY <1>0, <1>1, <1>8 DEF HandlerFrame
    <2>2. upf[t].pkt.conn = Tgt(n) /\ ~ src[n].done
      BY <1>0, <1>1, <1>2, <1>3, <2>1, Whereabouts
    <2>3. Tables(n)'
      BY <1>1, <1>5, <2>1, <2>2 DEF Kept, Tables, HandlerFrame
    <2>4. ASSUME NEW k \in UE, k # n PROVE Tables(k)'
      <3>1. ho_ue_ctx'[HoKey(Imsi(k))] = ho_ue_ctx[HoKey(Imsi(k))]
        BY <1>5, <2>4, OwnIdentities, HoIdentities
      <3>2. \A m \in n4rsp' : m.conn \in {Src(k), Tgt(k)} => m \in n4rsp
        BY <1>2, <1>4, <2>4
      <3> QED BY <1>1, <1>7, <2>1, <3>1, <3>2, TablesFrame DEF Kept
    <2>5. \A k \in UE : (Before(k) \/ After(k))'
      BY <1>7, <2>1, LineFrame DEF Kept
    <2>a. TunnelOwner'
      BY <1>1, <2>1, OwnerFrame DEF Kept, HandlerFrame
    <2> QED BY <1>4, <2>1, <2>3, <2>4, <2>5, <2>a DEF Kept
  <1> QED BY <1>4, <1>6, <1>7, <1>8 DEF HoInv

-----------------------------------------------------------------------------
(***************************************************************************)
(* The theorems.                                                           *)
(***************************************************************************)
LEMMA HoStepKeeps ==
    ASSUME HoInv, [HoNext]_hoVars
    PROVE  HoInv'
PROOF
  <1>1. ASSUME NEW n \in UE, initiate_handover(n) \/ RanHoStep(n) PROVE HoInv'
    BY <1>1, InitiateKeeps, HandleKeeps, IndirectKeeps, CompleteKeeps, TearDownKeeps DEF RanHoStep
  <1>2. ASSUME NEW c \in Conn, AmfHoStep(c) \/ HoTimeout(c) PROVE HoInv'
    <2>1. CASE setup_indirect_tunnel(c)
      BY <2>1, AskKeeps DEF setup_indirect_tunnel
    <2>2. CASE handle_handover_completion(c)
      BY <2>2, AskKeeps DEF handle_handover_completion
    <2>3. CASE teardown_indirect_tunnel(c)
      BY <2>3, AskKeeps DEF teardown_indirect_tunnel
    <2> QED BY <1>2, <2>1, <2>2, <2>3, TargetKeeps, AnsweredKeeps, TimeoutKeeps, SendTargetKeeps,
               SendSourceKeeps DEF AmfHoStep
  <1>3. ASSUME NEW t \in UpfThread, UpfHoStep(t) PROVE HoInv'
    BY <1>3, ReceiveKeeps, SetupCtxKeeps, SetupItfKeeps, SwitchCtxKeeps, EraseBeginKeeps,
       EraseEndKeeps, TeardownKeeps DEF UpfHoStep
  <1>4. CASE UNCHANGED hoVars
    <2>1. HandlerFrame /\ UNCHANGED <<n4rsp, s1_id, dl, ho_ue_ctx, upf>>
      BY <1>4 DEF hoVars, HandlerFrame
    <2>2. HoTypeOK' /\ HoCalls'
      BY <2>1, CallsFrame DEF HoInv, HoTypeOK, HandlerFrame
    <2>3. HoData' /\ \A k \in UE : SameUe(k)
      BY <2>1, HandlerData DEF HoInv
    <2>4. ASSUME ~ missed' PROVE Kept'
      <3>1. Kept
        BY <2>1, <2>4 DEF HoInv, HandlerFrame
      <3>2. PICK n \in UE : TRUE
        BY HandoverAssumption
      <3>3. (Before(n) \/ After(n))' /\ Tables(n)'
        BY <2>1, <2>3, <3>1, LineFrame, TablesFrame DEF Kept
      <3> QED BY <2>1, <2>3, <3>1, <3>3, KeptFrame DEF HandlerFrame
    <2> QED BY <2>2, <2>3, <2>4 DEF HoInv
  <1> QED BY <1>1, <1>2, <1>3, <1>4, LoseKeeps, ListenKeeps DEF HoNext

\* The protocol of the handovers: HoInv is an inductive invariant.
THEOREM HandoverInvariant ==
    HoSpec => []HoInv
PROOF
  <1>1. HoInv /\ [HoNext]_hoVars => HoInv'
    BY HoStepKeeps
  <1> QED BY <1>1, HoInitKept, PTL DEF HoSpec

\* When every call gets its answer the UPF's tables lead the packets of every UE
\* to that UE during all handovers, but for a UE whose predecessor's indirect
\* tunnel overlays its own (upf.cpp: s11_cteid_smf + 1), and forget the indirect
\* tunnels after them, although ho_ue_ctx.erase() is outside the mutex.
THEOREM TunnelsAlwaysKept ==
    HoSpec => []TunnelsKept
PROOF
  <1>1. HoInv => TunnelsKept
    <2> SUFFICES ASSUME HoInv, ~ missed
                 PROVE  TunnelOwner /\ UplinkKept /\ NoIndirectLeft
      BY DEF HoInv, TunnelsKept
    <2>1. Kept /\ HoData
      BY DEF HoInv
    <2>2. TunnelOwner
      BY <2>1 DEF Kept
    <2>3. UplinkKept
      BY <2>1, <2>2 DEF HoData, RanData, UplinkKept, TunnelOwner
    <2>4. NoIndirectLeft
      <3> SUFFICES ASSUME NEW n \in UE, Over(n)
                   PROVE  /\ \A i \in Tunnel : s1_id[i] = Imsi(n) => i = Teid(n)
                          /\ ho_ue_ctx[HoKey(Imsi(n))] = NoEntry
        BY DEF NoIndirectLeft
      <3>1. /\ src[n].done /\ up[Src(n)] = <<>> /\ amf[Src(n)] = "idle"
            /\ up[Tgt(n)] = <<>> /\ amf[Tgt(n)] = "idle"
        BY HoConns DEF Over
      <3>2. tgt[n].done
        BY <2>1, <3>1 DEF Kept, Before, After, Idle, Switched
      <3> QED BY <2>1, <3>1, <3>2 DEF Kept, Tables
    <2> QED BY <2>2, <2>3, <2>4
  <1> QED BY <1>1, HandoverInvariant, PTL

\* Make before break: the UPF switches the downlink only of a UE whose target
\* has said that it is ready, whatever is lost or late and wherever the AMF sends;
\* and when every call gets its answer it removes the tunnel of a UE only when
\* the source has been told as well, or when its predecessor's overlays it.
THEOREM MadeBeforeBroken ==
    HoSpec => MakeBeforeBreak
PROOF
  <1> DEFINE Step ==
        /\ \A n \in UE : dl'[Imsi(n)] # dl[Imsi(n)] => tgt[n].done
        /\ ~ missed =>
            \A i \in Tunnel, n \in UE :
                (s1_id[i] = Imsi(n) /\ s1_id'[i] # Imsi(n)) =>
                    \/ tgt[n].done /\ src[n].done
                    \/ i = Teid(n) /\ Overlaid(n)
  <1>1. HoInv /\ [HoNext]_hoVars => [Step]_hoVars
    <2> SUFFICES ASSUME HoInv, HoNext PROVE Step
      BY DEF hoVars
    <2>0. HoTypeOK /\ HoData /\ HoCalls /\ (~ missed => Kept)
      BY DEF HoInv
    <2>1. CASE UNCHANGED <<dl, s1_id>>
      BY <2>1
    <2>2. ASSUME NEW t \in UpfThread, SwitchCtx(t) PROVE Step
      <3>1. PICK d : dl' = [dl EXCEPT ![upf[t].imsi] = d] /\ s1_id' = s1_id
        BY <2>2 DEF SwitchCtx
      <3>2. Working(t) /\ upf[t].pc = "switch"
        BY <2>2 DEF SwitchCtx, Working
      <3>3. PICK n \in UE : n = upf[t].pkt.conn[1] /\ upf[t].imsi = Imsi(n)
        BY <2>0, <3>2, WorksFor
      <3>4. tgt[n].done
        BY <2>0, <3>2, <3>3 DEF HoCalls, Handler, MsgOk
      <3>5. \A k \in UE : dl'[Imsi(k)] # dl[Imsi(k)] => k = n
        BY <2>0, <3>1, <3>3, OwnIdentities, HoIdentities DEF HoTypeOK
      <3> QED BY <3>1, <3>4, <3>5
    <2>3. ASSUME NEW t \in UpfThread, SetupItf(t) PROVE Step
      <3>1. /\ dl' = dl /\ Working(t) /\ upf[t].pc = "itf"
            /\ s1_id' = [s1_id EXCEPT ![upf[t].smf + 1] = upf[t].imsi]
        BY <2>3 DEF SetupItf, Working
      <3>2. PICK n \in UE : /\ n = upf[t].pkt.conn[1] /\ upf[t].imsi = Imsi(n)
                            /\ upf[t].pkt.teid = Teid(n)
        BY <2>0, <3>1, WorksFor
      <3>3. s1_id' = [s1_id EXCEPT ![Teid(n) + 1] = Imsi(n)]
        BY <2>0, <3>1, <3>2 DEF HoCalls, Handler
      <3>4. ASSUME ~ missed, NEW i \in Tunnel, NEW k \in UE, s1_id[i] = Imsi(k), s1_id'[i] # Imsi(k)
            PROVE  i = Teid(k) /\ Overlaid(k)
        <4>1. i = Teid(n) + 1 /\ k # n
          BY <2>0, <3>3, <3>4 DEF HoTypeOK
        <4>2. i \in {Teid(k), Teid(k) + 1}
          BY <2>0, <3>4 DEF Kept, Tables
        <4>3. tgt[n].handover_state = 3
          BY <2>0, <3>1, <3>2, <3>4, Whereabouts
        <4>4. i = Teid(k)
          BY <4>1, <4>2, OwnIdentities, HoIdentities
        <4> QED BY <4>1, <4>3, <4>4 DEF Overlaid
      <3> QED BY <3>1, <3>4
    <2>4. ASSUME NEW t \in UpfThread, Teardown(t) PROVE Step
      <3>1. /\ dl' = dl /\ Working(t) /\ upf[t].pc = "teardown"
            /\ s1_id' = [s1_id EXCEPT ![upf[t].pkt.x] = Nobody]
        BY <2>4 DEF Teardown, Working
      <3>2. PICK n \in UE : n = upf[t].pkt.conn[1]
        BY <2>0, <3>1, WorksFor
      <3>3. ASSUME ~ missed, NEW i \in Tunnel, NEW k \in UE, s1_id[i] = Imsi(k), s1_id'[i] # Imsi(k)
            PROVE  \/ tgt[k].done /\ src[k].done
                   \/ i = Teid(k) /\ Overlaid(k)
        <4>1. /\ src[n].done /\ tgt[n].done /\ upf[t].pkt.x = Teid(n) + 1
              /\ tgt[n].handover_state = 3
          BY <2>0, <3>1, <3>2, <3>3, Whereabouts DEF HoCalls, Handler, Kept, TearsIndirect
        <4>2. i = Teid(n) + 1
          BY <2>0, <3>1, <3>3, <4>1 DEF HoTypeOK
        <4>3. i \in {Teid(k), Teid(k) + 1}
          BY <2>0, <3>3 DEF Kept, Tables
        <4>4. k = n \/ i = Teid(k)
          BY <4>2, <4>3, OwnIdentities, HoIdentities
        <4> QED BY <4>1, <4>2, <4>4 DEF Overlaid
      <3> QED BY <3>1, <3>3
    <2>5. ASSUME NEW n \in UE, initiate_handover(n) \/ RanHoStep(n) PROVE UNCHANGED <<dl, s1_id>>
      BY <2>5 DEF RanHoStep, initiate_handover, handle_handover, indirect_tunnel_complete,
                  complete_handover, request_tear_down, upfHo, envHo
    <2>6. ASSUME NEW c \in Conn, AmfHoStep(c) \/ HoTimeout(c) PROVE UNCHANGED <<dl, s1_id>>
      BY <2>6 DEF AmfHoStep, HoTimeout, request_target_RAN, setup_indirect_tunnel,
                  handle_handover_completion, teardown_indirect_tunnel, Ask, Answered, snd_to_target,
                  snd_to_source, upfHo
    <2>7. ASSUME NEW t \in UpfThread, RcvHo(t) \/ SetupCtx(t) \/ EraseBegin(t) \/ EraseEnd(t)
          PROVE  UNCHANGED <<dl, s1_id>>
      BY <2>7 DEF RcvHo, SetupCtx, EraseBegin, EraseEnd
    <2>8. HoLose \/ RanListens => UNCHANGED <<dl, s1_id>>
      BY DEF HoLose, RanListens, upfHo
    <2> HIDE DEF Step
    <2> QED BY <2>1, <2>2, <2>3, <2>4, <2>5, <2>6, <2>7, <2>8 DEF HoNext, UpfHoStep
  <1> QED BY <1>1, HandoverInvariant, PTL DEF HoSpec, MakeBeforeBreak
=============================================================================
