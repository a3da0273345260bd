--------------------------- MODULE SessionProofs ---------------------------
(***************************************************************************)
(* The sessions of the UEs: what RAN, AMF, SMF and UPF know of a UE agrees *)
(* from its attach to its detach, for every number of UEs and workers,     *)
(* when the network loses nothing, no call fails and nobody gives up, and  *)
(* either one thread serves N4 or no UE attaches twice (Reliable).         *)
(*                                                                         *)
(* The invariant SInv adds four layers to the identifiers of IdInv: what   *)
(* the packets and the workers carry (ConnData, WorkerData), the one       *)
(* datagram or handler that stands for every call the SMF serves (N4Ok),   *)
(* the UPF's entries by the step at which a handler is (Tables), and what  *)
(* the AMF remembers (Bearer, KnownAttached).                              *)
(***************************************************************************)
EXTENDS IdentityProofs, Integers

\* The conditions under which the sessions agree.
Reliable ==
    /\ MaxRuns = 1 /\ MaxRpcFail = 0 /\ MaxLoss = 0 /\ MaxLate = 0
    /\ (\E t \in UpfThread : UpfThread = {t}) \/ MaxAttach = 1

-----------------------------------------------------------------------------
\* Requests of the UE thread name the identifier it was given, and a detach
\* request the UE's guti.
UpData(c) ==
    \A k \in 1 .. Len(up[c]) : up[c][k].type # 1 =>
        /\ up[c][k].id = ran_ctx[c].mme_id
        /\ up[c][k].type = 5 => up[c][k].guti = Guti(UeOf(c))

\* An attach accept on its way carries the session of the UE.
AcceptData(c) ==
    (ran_pc[c] = "session" /\ ~ NoDown(c)) =>
        /\ down[c][1].guti = Guti(UeOf(c))
        /\ down[c][1].teid = Teid(UeOf(c))
        /\ down[c][1].ip = Imsi(UeOf(c))
        /\ ue_ctx[Guti(UeOf(c))].ul = Teid(UeOf(c))
        /\ smf_ctx[Guti(UeOf(c))].sgw = Teid(UeOf(c))

\* ... which the UE thread has stored while it transfers data.
TransferData(c) ==
    /\ ran_pc[c] = "data" =>
        /\ ran_ctx[c].guti = Guti(UeOf(c))
        /\ ran_ctx[c].ul = Teid(UeOf(c))
        /\ ran_ctx[c].ip = Imsi(UeOf(c))
        /\ uplink_info[Imsi(UeOf(c))] = Teid(UeOf(c))
        /\ ue_ctx[Guti(UeOf(c))].ul = Teid(UeOf(c))
    /\ ran_pc[c] \in {"data", "detach"} => smf_ctx[Guti(UeOf(c))].sgw = Teid(UeOf(c))

\* The AMF's context of a UE that is attaching has its IMSI.
ContextData(c) ==
    (ran_pc[c] \in {"security", "session", "data"} \/ (ran_pc[c] = "autn" /\ ~ NoDown(c))) =>
        ue_ctx[Guti(UeOf(c))].imsi = Imsi(UeOf(c))

ConnData(c) ==
    /\ UpData(c) /\ AcceptData(c) /\ TransferData(c) /\ ContextData(c)
    /\ ran_pc[c] \notin {"start", "loop"} => rounds[c] >= 1
    /\ ran_pc[c] # "dead"

\* The locals of a worker are those of the UE it serves, and its call is the
\* one its handler has made.
WorkerLocals(w) ==
    /\ amf_pc[w] # "idle" => amf_guti[w] = Guti(UeOf(amf_conn[w]))
    /\ amf_pc[w] = "attach_init" => amf_imsi[w] = Imsi(UeOf(amf_conn[w]))
    /\ amf_pc[w] \in {"location", "create", "bearer", "modify", "detach"} =>
        amf_id[w] = ran_ctx[amf_conn[w]].mme_id

WorkerCall(w) ==
    /\ amf_pc[w] \in {"idle", "attach_init", "bearer", "rem_itfid", "rem_uectx"} => rpc[w] = NoCall
    /\ amf_pc[w] = "attach_autn" =>
        /\ rpc[w].op = "autn" /\ rpc[w].imsi = Imsi(UeOf(amf_conn[w]))
        /\ ue_ctx[Guti(UeOf(amf_conn[w]))].imsi = Imsi(UeOf(amf_conn[w]))
    /\ amf_pc[w] = "location" => rpc[w].op = "loc" /\ rpc[w].imsi = Imsi(UeOf(amf_conn[w]))
    /\ amf_pc[w] = "create" =>
        /\ rpc[w].op = "create"
        /\ rpc[w].imsi = Imsi(UeOf(amf_conn[w]))
        /\ rpc[w].guti = Guti(UeOf(amf_conn[w]))
        /\ rpc[w].teid = Teid(UeOf(amf_conn[w]))
        /\ rpc[w].st = "rep" =>
            /\ rpc[w].res
            /\ rpc[w].ul = Teid(UeOf(amf_conn[w]))
            /\ rpc[w].ip = Imsi(UeOf(amf_conn[w]))
            /\ smf_ctx[Guti(UeOf(amf_conn[w]))].sgw = Teid(UeOf(amf_conn[w]))
    /\ amf_pc[w] \in {"modify", "detach"} =>
        /\ rpc[w].op = amf_pc[w]
        /\ rpc[w].guti = Guti(UeOf(amf_conn[w]))
        /\ rpc[w].st = "rep" => rpc[w].res

WorkerData(w) == WorkerLocals(w) /\ WorkerCall(w)

-----------------------------------------------------------------------------
Creating == {"create_s1", "create_sgi", "create_ctx"}
Removing == {"rem_s11", "rem_s1", "rem_sgi", "rem_ctx"}
Handling == Creating \cup {"modify", "detach"}

\* The UE whose call socket s serves.
SockUe(s) == UeOf(amf_conn[s[1]])

\* A request belongs to a call that is being served, and is about its UE.
ReqOk(m) ==
    /\ Open(m.sock)
    /\ rpc[m.sock[1]].op = m.op
    /\ m.teid = Teid(SockUe(m.sock))
    /\ m.op = "create" => m.imsi = Imsi(SockUe(m.sock))

ThreadOk(t) ==
    upf_pc[t] \in Handling =>
        /\ ReqOk(upf_pkt[t])
        /\ upf_pc[t] \in Creating => upf_pkt[t].op = "create"
        /\ upf_pc[t] \in {"modify", "detach"} =>
            upf_pkt[t].op = upf_pc[t] /\ upf_imsi[t] = Imsi(SockUe(upf_pkt[t].sock))

RspOk(r) ==
    /\ Open(r.sock)
    /\ r.res
    /\ rpc[r.sock[1]].op = "create" =>
        /\ r.teid = Teid(SockUe(r.sock))
        /\ r.ul = Teid(SockUe(r.sock))
        /\ r.ip = Imsi(SockUe(r.sock))

Asked(s)   == \E m \in n4req : m.sock = s
Handled(s) == \E t \in UpfThread : upf_pc[t] \in Handling /\ upf_pkt[t].sock = s
Replied(s) == \E r \in n4rsp : r.sock = s

\* A call has one request, one handler or one response, never two of them.
OneWay ==
    /\ \A m, o \in n4req : m.sock = o.sock => m = o
    /\ \A t, u \in UpfThread :
        (upf_pc[t] \in Handling /\ upf_pc[u] \in Handling /\ upf_pkt[t].sock = upf_pkt[u].sock) => t = u
    /\ \A r, q \in n4rsp : r.sock = q.sock => r = q
    /\ \A m \in n4req, t \in UpfThread : upf_pc[t] \in Handling => upf_pkt[t].sock # m.sock
    /\ \A m \in n4req, r \in n4rsp : m.sock # r.sock
    /\ \A r \in n4rsp, t \in UpfThread : upf_pc[t] \in Handling => upf_pkt[t].sock # r.sock

\* ... and it has one of them: no time-out comes before an answer.
Carried ==
    \A w \in Worker : Open(SockOf(w)) =>
        Asked(SockOf(w)) \/ Handled(SockOf(w)) \/ Replied(SockOf(w))

N4Ok ==
    /\ \A m \in n4req : ReqOk(m)
    /\ \A t \in UpfThread : ThreadOk(t)
    /\ \A r \in n4rsp : RspOk(r)
    /\ OneWay
    /\ Carried

-----------------------------------------------------------------------------
\* The UPF has answered the call of worker w; it has done so for an operation
\* on the session of connection c.
Answered(w) == rpc[w].st = "rep" \/ Replied(SockOf(w))
Done(c, op) == \E w \in Worker : Busy(w, c) /\ amf_pc[w] = op /\ Answered(w)

\* The UPF has a session for the UE of c and has not been told to drop it.
Held(c) ==
    \/ ran_pc[c] = "data"
    \/ ran_pc[c] = "session" /\ (~ NoDown(c) \/ Done(c, "create"))
    \/ ran_pc[c] = "detach" /\ NoDown(c) /\ ~ Done(c, "detach")

\* The context the UPF keeps for UE n.
Session(n) ==
    /\ upf_ctx[Imsi(n)].known
    /\ upf_ctx[Imsi(n)].ip = Imsi(n)
    /\ upf_ctx[Imsi(n)].ul = Teid(n)
    /\ upf_ctx[Imsi(n)].upf = Teid(n)

\* The tables in A have the UE's entry, the others have none.
Entries(n, A) ==
    /\ s11_id[Teid(n)] = IF "s11" \in A THEN Imsi(n) ELSE 0
    /\ s1_id[Teid(n)] = IF "s1" \in A THEN Imsi(n) ELSE 0
    /\ sgi_id[Imsi(n)] = IF "sgi" \in A THEN Imsi(n) ELSE 0
    /\ IF "ctx" \in A THEN Session(n) ELSE upf_ctx[Imsi(n)] = NoUpfCtx

AllTables == {"s11", "s1", "sgi", "ctx"}

\* The tables that have the entry when the thread that works on it is at pc.
Part(pc) ==
    CASE pc = "create_s1" -> {"s11"} [] pc = "create_sgi" -> {"s11", "s1"}
      [] pc = "create_ctx" -> {"s11", "s1", "sgi"} [] pc = "rem_s11" -> AllTables
      [] pc = "rem_s1" -> {"s1", "sgi", "ctx"} [] pc = "rem_sgi" -> {"sgi", "ctx"}
      [] pc = "rem_ctx" -> {"ctx"} [] OTHER -> {}

Maker(t, n)   == upf_pc[t] \in Creating /\ upf_pkt[t].imsi = Imsi(n)
Cleaner(t, n) == upf_pc[t] \in Removing /\ upf_imsi[t] = Imsi(n)
Works(t, n)   == Maker(t, n) \/ Cleaner(t, n)

\* The entries of the UE of c, by who works on them.
Tables(c) ==
    /\ Held(c) => Entries(UeOf(c), AllTables)
    /\ \A t \in UpfThread : Works(t, UeOf(c)) => Entries(UeOf(c), Part(upf_pc[t])) /\ ~ Held(c)
    /\ (~ Held(c) /\ \A t \in UpfThread : ~ Works(t, UeOf(c))) => Entries(UeOf(c), {})
    /\ \A t, u \in UpfThread : (Works(t, UeOf(c)) /\ Works(u, UeOf(c))) => t = u

\* A thread that cleans up knows what to remove, for a UE that has attached and
\* does not come back meanwhile unless the thread is alone.
Cleaning(c) ==
    \A t \in UpfThread : Cleaner(t, UeOf(c)) =>
        /\ upf_old[t].upf = Teid(UeOf(c))
        /\ upf_old[t].ul = Teid(UeOf(c))
        /\ upf_old[t].ip = Imsi(UeOf(c))
        /\ ran_pc[c] # "start"
        /\ MaxAttach = 1 => ran_pc[c] \in {"detach", "loop"} /\ rounds[c] = 1

\* Nothing is stored for anybody else.
Stray ==
    /\ \A t \in UpfThread : upf_pc[t] \in Removing => \E c \in Conn : upf_imsi[t] = Imsi(UeOf(c))
    /\ \A i \in TeidSet : (\A c \in Conn : i # Teid(UeOf(c))) => s11_id[i] = 0 /\ s1_id[i] = 0
    /\ sgi_id[0] = 0 /\ ~ upf_ctx[0].known

-----------------------------------------------------------------------------
\* The AMF is about to forget the UE of c.
Leaving(c) ==
    \E w \in Worker : Busy(w, c) /\ amf_pc[w] \in {"detach", "rem_itfid", "rem_uectx"}

\* A UE is connected only while the UPF can forward to it.
Bearer(c) ==
    /\ ue_ctx[Guti(UeOf(c))].ecm_state = 1 =>
        (Held(c) /\ upf_ctx[Imsi(UeOf(c))].enb) \/ Leaving(c)
    /\ Done(c, "modify") => upf_ctx[Imsi(UeOf(c))].enb

\* The AMF has, or is about to have or to drop, a context for the UE of c.
Attached(c) ==
    \/ ran_pc[c] \in {"security", "session", "data"}
    \/ ran_pc[c] = "detach" /\ NoDown(c)
    \/ ran_pc[c] = "autn" /\ ~ NoDown(c)
    \/ \E w \in Worker : Busy(w, c) /\ amf_pc[w] # "attach_init"

KnownAttached ==
    /\ \A c \in Conn : ue_ctx[Guti(UeOf(c))].known => Attached(c)
    /\ ~ ue_ctx[0].known

IdsUsed == \A i \in MmeId : s1amf_id[i] # 0 => \E c \in Conn : Uses(c, i)

\* The inductive invariant of the sessions.
SInv ==
    /\ IdInv
    /\ exited = {}
    /\ \A c \in Conn : ConnData(c)
    /\ \A w \in Worker : WorkerData(w)
    /\ N4Ok
    /\ \A c \in Conn : Tables(c) /\ Cleaning(c)
    /\ Stray
    /\ \A c \in Conn : Bearer(c)
    /\ KnownAttached /\ IdsUsed

-----------------------------------------------------------------------------
(***************************************************************************)
(* Identities.  Every identifier is an offset plus the number of the UE,   *)
(* and the digits a tunnel id keeps still tell the UEs apart.              *)
(***************************************************************************)
LEMMA Offsets ==
    \E x, y \in Nat : x # 0 /\ \A n \in RanNum : Imsi(n) = x + n /\ Guti(n) = y + n
PROOF
  <1> DEFINE x == PLMN_ID * MSISDN_RANGE + MSISDN_BASE
             y == GUMMEI * IMSI_RANGE + x
  <1>1. PLMN_ID * MSISDN_RANGE \in Nat /\ GUMMEI * IMSI_RANGE \in Nat
    BY TelecomAssumption
  <1>2. \A n \in RanNum : n \in Nat
    BY LinksAssumption, TelecomAssumption
  <1>3. x \in Nat /\ x # 0 /\ y \in Nat
    BY <1>1, TelecomAssumption
  <1>4. ASSUME NEW n \in RanNum
        PROVE  Imsi(n) = x + n /\ Guti(n) = y + n
    <2>1. Imsi(n) = PLMN_ID * MSISDN_RANGE + (MSISDN_BASE + n)
      BY DEF Imsi, get_imsi, get_msisdn
    <2>2. Guti(n) = GUMMEI * IMSI_RANGE + Imsi(n)
      BY DEF Guti, get_guti
    <2> QED BY <1>1, <1>2, <2>1, <2>2, TelecomAssumption
  <1> HIDE DEF x, y
  <1> QED BY <1>3, <1>4

LEMMA SameRest ==
    ASSUME NEW r \in Nat \ {0}, NEW a \in Nat, NEW b \in Nat, a <= b, b - a < r, a % r = b % r
    PROVE  a = b
PROOF
  <1>1. a = r * (a \div r) + (a % r) /\ a \div r \in Int /\ a % r \in 0 .. (r - 1)
    OBVIOUS
  <1>2. b = r * (b \div r) + (b % r) /\ b \div r \in Int
    OBVIOUS
  <1> DEFINE q == (b \div r) - (a \div r)
  <1>3. b - a = r * q /\ q \in Int
    BY <1>1, <1>2
  <1>4. q <= 0
    <2> SUFFICES ASSUME q >= 1 PROVE FALSE
      BY <1>3
    <2>1. r * q >= r
      BY <1>3
    <2> QED BY <1>3, <2>1
  <1>5. q >= 0
    <2> SUFFICES ASSUME q <= -1 PROVE FALSE
      BY <1>3
    <2>1. r * q <= -r
      BY <1>3
    <2> QED BY <1>3, <2>1
  <1>6. q = 0
    BY <1>3, <1>4, <1>5
  <1> QED BY <1>3, <1>6

LEMMA TeidsDiffer ==
    ASSUME NEW m \in RanNum, NEW n \in RanNum, Teid(m) = Teid(n), m <= n
    PROVE  m = n
PROOF
  <1>1. PICK x, y \in Nat : x # 0 /\ \A k \in RanNum : Imsi(k) = x + k /\ Guti(k) = y + k
    BY Offsets
  <1>2. m \in Nat /\ n \in Nat /\ n - m < TEID_RANGE /\ TEID_RANGE \in Nat \ {0}
    BY LinksAssumption, TelecomAssumption
  <1>3. (y + m) % TEID_RANGE = (y + n) % TEID_RANGE
    BY <1>1 DEF Teid, get_s11cteidamf
  <1>4. /\ y + m \in Nat /\ y + n \in Nat /\ y + m <= y + n
        /\ (y + n) - (y + m) < TEID_RANGE
    BY <1>1, <1>2
  <1>5. y + m = y + n
    BY <1>2, <1>3, <1>4, SameRest
  <1> QED BY <1>1, <1>2, <1>5

\* The identities of a UE are its own, and lead from one to the other.
LEMMA Identities ==
    /\ \A n \in RanNum : Imsi(n) \in Nat \ {0} /\ get_guti(GUMMEI, Imsi(n)) = Guti(n)
                         /\ get_s11cteidamf(Guti(n)) = Teid(n)
    /\ \A m, n \in RanNum : (Imsi(m) = Imsi(n) \/ Guti(m) = Guti(n) \/ Teid(m) = Teid(n)) => m = n
PROOF
  <1>1. PICK x, y \in Nat : x # 0 /\ \A k \in RanNum : Imsi(k) = x + k /\ Guti(k) = y + k
    BY Offsets
  <1>2. \A n \in RanNum : n \in Nat
    BY LinksAssumption, TelecomAssumption
  <1>3. \A n \in RanNum : Imsi(n) \in Nat \ {0}
    BY <1>1, <1>2
  <1>4. \A n \in RanNum : get_guti(GUMMEI, Imsi(n)) = Guti(n) /\ get_s11cteidamf(Guti(n)) = Teid(n)
    BY DEF Guti, Teid
  <1>5. \A m, n \in RanNum : (Imsi(m) = Imsi(n) \/ Guti(m) = Guti(n)) => m = n
    BY <1>1, <1>2
  <1>6. \A m, n \in RanNum : Teid(m) = Teid(n) => m = n
    BY <1>2, TeidsDiffer
  <1> QED BY <1>3, <1>4, <1>5, <1>6

\* With one run of the simulator a UE has one connection.
LEMMA Keys ==
    ASSUME MaxRuns = 1
    PROVE  /\ \A n \in RanNum : \E c \in Conn : UeOf(c) = n
           /\ \A c \in Conn : /\ Imsi(UeOf(c)) \in ImsiSet /\ Guti(UeOf(c)) \in GutiSet
                              /\ Teid(UeOf(c)) \in TeidSet
                              /\ Imsi(UeOf(c)) # 0 /\ Guti(UeOf(c)) # 0
           /\ \A c, d \in Conn : c # d =>
                /\ Imsi(UeOf(c)) # Imsi(UeOf(d)) /\ Guti(UeOf(c)) # Guti(UeOf(d))
                /\ Teid(UeOf(c)) # Teid(UeOf(d))
PROOF
  <1>1. Conn = RanNum \X {1}
    BY DEF Conn
  <1>2. \A n \in RanNum : <<n, 1>> \in Conn /\ UeOf(<<n, 1>>) = n
    BY <1>1 DEF UeOf
  <1>3. \A c, d \in Conn : UeOf(c) = UeOf(d) => c = d
    BY <1>1 DEF UeOf
  <1>4. \A c \in Conn : UeOf(c) \in RanNum
    BY IdentityTypes
  <1> QED BY <1>2, <1>3, <1>4, IdentityTypes, Identities, GutiNonZero

LEMMA OneWorker ==
    ASSUME IdInv, NEW v \in Worker, NEW w \in Worker, NEW c \in Conn, Busy(v, c), Busy(w, c)
    PROVE  v = w
PROOF BY ByConnection DEF IdInv, ConnOK

\* Nothing comes down while the UE thread waits for nothing.
LEMMA NothingDown ==
    ASSUME IdInv, NEW c \in Conn, ran_pc[c] \in {"start", "loop", "data"}
    PROVE  NoDown(c)
PROOF
  <1>1. Answer(c)
    BY ByConnection DEF IdInv, ConnOK
  <1>2. down[c] \in Seq(S1apMsg)
    BY DEF IdInv, TypeOK, LinksTypeOK
  <1>3. Len(down[c]) \in Nat /\ (~ NoDown(c) => 1 \in 1 .. Len(down[c]))
    BY <1>2, NonEmpty DEF NoDown
  <1>4. ~ NoDown(c) => down[c][1].type \in 1 .. 5
    BY <1>2, <1>3, NonEmpty
  <1> QED BY <1>1, <1>4, ExpectedTypes DEF Answer

-----------------------------------------------------------------------------
LEMMA InitSInv ==
    ASSUME Init, MaxRuns = 1
    PROVE  SInv
PROOF
  <1>1. IdInv /\ TypeOK
    BY InitIdInv DEF IdInv
  <1>2. /\ \A c \in Conn : /\ up[c] = <<>> /\ down[c] = <<>> /\ ran_pc[c] = "start"
        /\ exited = {} /\ n4req = {} /\ n4rsp = {}
        /\ \A w \in Worker : amf_pc[w] = "idle" /\ rpc[w] = NoCall
        /\ \A t \in UpfThread : upf_pc[t] = "idle"
    BY DEF Init, LinksInit, RanInit, AmfInit, UpfInit
  <1>3. \A c \in Conn : NoDown(c) /\ Len(up[c]) = 0 /\ \A w \in Worker : ~ Busy(w, c)
    BY <1>2 DEF NoDown, Busy
  <1>4. \A c \in Conn : ConnData(c)
    BY <1>2, <1>3 DEF ConnData, UpData, AcceptData, TransferData, ContextData
  <1>5. \A w \in Worker : WorkerData(w)
    BY <1>2 DEF WorkerData, WorkerLocals, WorkerCall
  <1>6. N4Ok
    <2>1. \A w \in Worker : ~ Open(SockOf(w))
      BY <1>2 DEF Open, SockOf, NoCall
    <2> QED BY <1>2, <2>1 DEF N4Ok, ThreadOk, OneWay, Carried, Handling, Creating
  <1>7. \A c \in Conn : ~ Held(c)
    BY <1>2 DEF Held
  <1>8. \A t \in UpfThread, n \in RanNum : ~ Works(t, n) /\ ~ Cleaner(t, n)
    BY <1>2 DEF Works, Maker, Cleaner, Creating, Removing
  <1>9. \A n \in RanNum : Entries(n, {})
    BY IdentityTypes DEF Entries, Init, UpfInit
  <1>10. \A c \in Conn : Tables(c) /\ Cleaning(c)
    BY <1>7, <1>8, <1>9, IdentityTypes DEF Tables, Cleaning
  <1>11. Stray
    BY <1>2, IdentityTypes DEF Stray, Removing, Init, UpfInit, NoUpfCtx
  <1>12. \A g \in GutiSet : ue_ctx[g] = NoUeCtx
    BY DEF Init, AmfInit
  <1>13. \A c \in Conn : Bearer(c)
    BY <1>3, <1>12, Keys DEF Bearer, Done, NoUeCtx
  <1>14. KnownAttached
    BY <1>12, Keys, IdentityTypes DEF KnownAttached, NoUeCtx
  <1>15. IdsUsed
    BY DEF IdsUsed, Init, AmfInit
  <1> QED BY <1>1, <1>2, <1>4, <1>5, <1>6, <1>10, <1>11, <1>13, <1>14, <1>15 DEF SInv

-----------------------------------------------------------------------------
(***************************************************************************)
(* What does not change what.                                              *)
(***************************************************************************)
LEMMA ConnDataSame ==
    ASSUME NEW c \in Conn, ConnData(c),
           up'[c] = up[c], down'[c] = down[c], ran_pc'[c] = ran_pc[c], ran_ctx'[c] = ran_ctx[c],
           rounds'[c] = rounds[c], uplink_info'[Imsi(UeOf(c))] = uplink_info[Imsi(UeOf(c))],
           ue_ctx'[Guti(UeOf(c))].imsi = ue_ctx[Guti(UeOf(c))].imsi,
           ue_ctx'[Guti(UeOf(c))].ul = ue_ctx[Guti(UeOf(c))].ul,
           smf_ctx'[Guti(UeOf(c))].sgw = smf_ctx[Guti(UeOf(c))].sgw
    PROVE  ConnData(c)'
PROOF
  <1>1. NoDown(c)' <=> NoDown(c)
    BY DEF NoDown
  <1> QED BY <1>1 DEF ConnData, UpData, AcceptData, TransferData, ContextData

LEMMA WorkerDataSame ==
    ASSUME NEW w \in Worker, WorkerData(w), rpc'[w] = rpc[w],
           amf_pc'[w] = amf_pc[w], amf_conn'[w] = amf_conn[w], amf_guti'[w] = amf_guti[w],
           amf_imsi'[w] = amf_imsi[w], amf_id'[w] = amf_id[w],
           amf_pc[w] # "idle" =>
             /\ ran_ctx'[amf_conn[w]].mme_id = ran_ctx[amf_conn[w]].mme_id
             /\ ue_ctx'[Guti(UeOf(amf_conn[w]))].imsi = ue_ctx[Guti(UeOf(amf_conn[w]))].imsi
             /\ smf_ctx'[Guti(UeOf(amf_conn[w]))].sgw = smf_ctx[Guti(UeOf(amf_conn[w]))].sgw
    PROVE  WorkerData(w)'
PROOF
  <1>1. WorkerLocals(w)'
    BY DEF WorkerData, WorkerLocals
  <1>2. WorkerCall(w)'
    BY DEF WorkerData, WorkerCall
  <1> QED BY <1>1, <1>2 DEF WorkerData

\* A step that touches no call the SMF serves.
LEMMA N4Same ==
    ASSUME TypeOK, N4Ok, UNCHANGED <<n4req, n4rsp, upf_pc, upf_pkt, upf_imsi, calls>>,
           \A w \in Worker : Open(SockOf(w))' => Open(SockOf(w)),
           \A w \in Worker : Open(SockOf(w)) => rpc'[w] = rpc[w] /\ amf_conn'[w] = amf_conn[w]
    PROVE  N4Ok'
PROOF
  <1>1. /\ \A m \in n4req : m.sock[1] \in Worker
        /\ \A r \in n4rsp : r.sock[1] \in Worker
        /\ \A t \in UpfThread : upf_pkt[t].sock[1] \in Worker
    BY DEF TypeOK, LinksTypeOK, UpfTypeOK, N4Req, N4Rsp, Sock
  <1>2. ASSUME NEW s, s[1] \in Worker, Open(s)
        PROVE  Open(s)' /\ rpc'[s[1]] = rpc[s[1]] /\ SockUe(s)' = SockUe(s)
    <2>1. s = SockOf(s[1]) /\ SockOf(s[1])' = SockOf(s[1])
      BY <1>2 DEF Open, SockOf
    <2>2. rpc'[s[1]] = rpc[s[1]] /\ amf_conn'[s[1]] = amf_conn[s[1]]
      BY <1>2, <2>1
    <2> QED BY <1>2, <2>1, <2>2 DEF Open, SockUe
  <1>3. ASSUME NEW m, m.sock[1] \in Worker, ReqOk(m)
        PROVE  ReqOk(m)'
    BY <1>2, <1>3 DEF ReqOk
  <1>4. \A m \in n4req : ReqOk(m)'
    BY <1>1, <1>3 DEF N4Ok
  <1>5. ASSUME NEW t \in UpfThread
        PROVE  ThreadOk(t)'
    <2>1. ThreadOk(t) /\ upf_pkt[t].sock[1] \in Worker
      BY <1>1 DEF N4Ok
    <2>2. ReqOk(upf_pkt[t]) => ReqOk(upf_pkt[t])' /\ SockUe(upf_pkt[t].sock)' = SockUe(upf_pkt[t].sock)
      BY <1>2, <1>3, <2>1 DEF ReqOk
    <2> QED BY <2>1, <2>2 DEF ThreadOk
  <1>6. ASSUME NEW r \in n4rsp
        PROVE  RspOk(r)'
    <2>1. RspOk(r) /\ r.sock[1] \in Worker
      BY <1>1 DEF N4Ok
    <2> QED BY <1>2, <2>1 DEF RspOk
  <1>7. OneWay'
    BY DEF N4Ok, OneWay
  <1>8. Carried'
    <2> SUFFICES ASSUME NEW w \in Worker, Open(SockOf(w))'
                 PROVE  (Asked(SockOf(w)) \/ Handled(SockOf(w)) \/ Replied(SockOf(w)))'
      BY DEF Carried
    <2>1. Asked(SockOf(w)) \/ Handled(SockOf(w)) \/ Replied(SockOf(w))
      BY DEF N4Ok, Carried
    <2> QED BY <2>1 DEF Asked, Handled, Replied, SockOf
  <1> QED BY <1>4, <1>5, <1>6, <1>7, <1>8 DEF N4Ok

LEMMA TablesSame ==
    ASSUME NEW c \in Conn, Tables(c), UNCHANGED upfVars, Held(c)' <=> Held(c)
    PROVE  Tables(c)'
PROOF
  <1>1. UNCHANGED <<s11_id, s1_id, sgi_id, upf_ctx, upf_pc, upf_pkt, upf_imsi, upf_old>>
    BY DEF upfVars, upfTables
  <1>2. \A t \in UpfThread : Works(t, UeOf(c))' <=> Works(t, UeOf(c))
    BY <1>1 DEF Works, Maker, Cleaner
  <1>3. Session(UeOf(c))' <=> Session(UeOf(c))
    BY <1>1 DEF Session
  <1>4. ASSUME NEW A
        PROVE  Entries(UeOf(c), A)' <=> Entries(UeOf(c), A)
    BY <1>1, <1>3 DEF Entries
  <1> QED BY <1>1, <1>2, <1>4 DEF Tables

LEMMA CleaningSame ==
    ASSUME NEW c \in Conn, Cleaning(c), UNCHANGED upfVars,
           ran_pc'[c] = ran_pc[c] /\ rounds'[c] = rounds[c]
    PROVE  Cleaning(c)'
PROOF
  <1>1. UNCHANGED <<upf_pc, upf_pkt, upf_imsi, upf_old>>
    BY DEF upfVars, upfTables
  <1> QED BY <1>1 DEF Cleaning, Cleaner

LEMMA StraySame ==
    ASSUME Stray, UNCHANGED upfVars
    PROVE  Stray'
PROOF BY DEF Stray, upfVars, upfTables

-----------------------------------------------------------------------------
(***************************************************************************)
(* Steps of the UE threads.                                                *)
(***************************************************************************)

\* A UE thread changes its own connection and nothing in the core.
RanOnly(c) ==
    /\ exited' = exited
    /\ UNCHANGED <<rpc, calls, n4req, n4rsp, ue_count, s1amf_id, ue_ctx, smf_ctx>>
    /\ UNCHANGED <<amf_pc, amf_conn, amf_guti, amf_imsi, amf_id, upfVars>>
    /\ \A d \in Conn : d # c =>
         /\ up'[d] = up[d] /\ down'[d] = down[d] /\ ran_pc'[d] = ran_pc[d]
         /\ ran_ctx'[d] = ran_ctx[d] /\ rounds'[d] = rounds[d]
         /\ uplink_info'[Imsi(UeOf(d))] = uplink_info[Imsi(UeOf(d))]

LEMMA RanKeeps ==
    ASSUME SInv, MaxRuns = 1, NEW c \in Conn, RanStep(c)
    PROVE  IdInv' /\ exited' = {} /\ RanOnly(c)
PROOF
  <1>1. IdInv /\ exited = {} /\ TypeOK /\ ConnData(c)
    BY DEF SInv, IdInv
  <1>2. IdInv'
    BY <1>1, RanSafe
  <1>3. UNCHANGED <<ue_count, s1amf_id, ue_ctx, smf_ctx, amf_pc, amf_conn, amf_guti, amf_imsi, amf_id, upfVars>>
    BY DEF RanStep, amfVars, amfTables, amfLocals, smfVars
  <1>4. UNCHANGED <<rpc, calls, n4req, n4rsp, exited>>
    BY DEF RanStep, RanThread, conn_mme, initial_attach, authenticate, set_security,
           set_eps_session, detach_req, detach_rsp
  <1>5. OthersSame(c)
    BY <1>1, RanFrame
  <1>6. \A d \in Conn : d # c =>
            /\ up'[d] = up[d] /\ down'[d] = down[d] /\ ran_pc'[d] = ran_pc[d]
            /\ ran_ctx'[d] = ran_ctx[d]
    BY <1>5 DEF OthersSame
  <1>7. rounds \in [Conn -> 0 .. MaxAttach] /\ uplink_info \in [ImsiSet -> TeidSet \cup {NoTunnel}]
    BY <1>1 DEF TypeOK, RanTypeOK
  <1>8. ASSUME NEW d \in Conn, d # c
        PROVE  rounds'[d] = rounds[d]
    BY <1>7, <1>8 DEF RanStep, RanThread, conn_mme, initial_attach, authenticate, set_security,
                      set_eps_session, detach_req, detach_rsp
  <1>9. ASSUME NEW d \in Conn, d # c
        PROVE  uplink_info'[Imsi(UeOf(d))] = uplink_info[Imsi(UeOf(d))]
    <2>1. CASE set_eps_session(c)
      <3>1. ran_pc[c] = "session" /\ Rcv(c)
        BY <2>1 DEF set_eps_session
      <3>2. Head(down[c]) = down[c][1] /\ ~ NoDown(c)
        BY <1>1, <3>1, TakesDown DEF NoDown
      <3>3. Head(down[c]).ip = Imsi(UeOf(c))
        BY <1>1, <3>1, <3>2 DEF ConnData, AcceptData
      <3>4. uplink_info' = [uplink_info EXCEPT ![Imsi(UeOf(c))] = Head(down[c]).teid]
        BY <2>1, <3>3 DEF set_eps_session
      <3> QED BY <1>7, <1>9, <3>4, Keys
    <2>2. CASE ~ set_eps_session(c)
      BY <2>2 DEF RanStep, RanThread, conn_mme, initial_attach, authenticate, set_security,
                  detach_req, detach_rsp
    <2> QED BY <2>1, <2>2
  <1> QED BY <1>1, <1>2, <1>3, <1>4, <1>6, <1>8, <1>9 DEF RanOnly

\* What is left to show of a step of a UE thread.
LEMMA RanRest ==
    ASSUME SInv, IdInv', NEW c \in Conn, RanOnly(c),
           ConnData(c)', Held(c)' <=> Held(c), Cleaning(c)',
           \A w \in Worker : Busy(w, c) => ran_ctx'[c].mme_id = ran_ctx[c].mme_id,
           Attached(c) => Attached(c)',
           \A i \in MmeId : Uses(c, i) => Uses(c, i)'
    PROVE  SInv'
PROOF
  <1>1. /\ IdInv' /\ exited' = {}
        /\ UNCHANGED <<rpc, calls, n4req, n4rsp, ue_count, s1amf_id, ue_ctx, smf_ctx>>
        /\ UNCHANGED <<amf_pc, amf_conn, amf_guti, amf_imsi, amf_id, upfVars>>
        /\ \A d \in Conn : d # c =>
                /\ up'[d] = up[d] /\ down'[d] = down[d] /\ ran_pc'[d] = ran_pc[d]
                /\ ran_ctx'[d] = ran_ctx[d] /\ rounds'[d] = rounds[d]
                /\ uplink_info'[Imsi(UeOf(d))] = uplink_info[Imsi(UeOf(d))]
    BY DEF RanOnly, SInv
  <1>2. IdInv /\ TypeOK
    BY DEF SInv, IdInv
  <1>3. /\ \A d \in Conn : ConnData(d) /\ Tables(d) /\ Cleaning(d) /\ Bearer(d)
        /\ \A w \in Worker : WorkerData(w)
        /\ N4Ok /\ Stray /\ KnownAttached /\ IdsUsed
    BY DEF SInv
  <1>4. \A d \in Conn : ConnData(d)'
    <2> SUFFICES ASSUME NEW d \in Conn, d # c PROVE ConnData(d)'
      OBVIOUS
    <2> QED BY <1>1, <1>3, ConnDataSame
  <1>5. \A w \in Worker, d \in Conn : Busy(w, d)' <=> Busy(w, d)
    BY <1>1 DEF Busy
  <1>6. ASSUME NEW w \in Worker
        PROVE  WorkerData(w)'
    <2>1. amf_pc[w] # "idle" => Busy(w, amf_conn[w]) /\ amf_conn[w] \in Conn
      BY <1>2 DEF Busy, TypeOK, AmfTypeOK
    <2>2. amf_pc[w] # "idle" => ran_ctx'[amf_conn[w]].mme_id = ran_ctx[amf_conn[w]].mme_id
      BY <1>1, <2>1
    <2> QED BY <1>1, <1>3, <2>2, WorkerDataSame
  <1>7. N4Ok'
    <2>1. UNCHANGED <<upf_pc, upf_pkt, upf_imsi>>
      BY <1>1 DEF upfVars
    <2>2. \A w \in Worker : Open(SockOf(w))' <=> Open(SockOf(w))
      BY <1>1 DEF Open, SockOf
    <2> QED BY <1>1, <1>2, <1>3, <2>1, <2>2, N4Same
  <1>8. \A w \in Worker : Answered(w)' <=> Answered(w)
    BY <1>1 DEF Answered, Replied, SockOf
  <1>9. ASSUME NEW d \in Conn, NEW op
        PROVE  Done(d, op)' <=> Done(d, op)
    BY <1>1, <1>5, <1>8 DEF Done
  <1>10. \A d \in Conn : d # c => (NoDown(d)' <=> NoDown(d))
    BY <1>1 DEF NoDown
  <1>11. \A d \in Conn : Held(d)' <=> Held(d)
    BY <1>1, <1>9, <1>10 DEF Held
  <1>12. \A d \in Conn : Tables(d)'
    BY <1>1, <1>3, <1>11, TablesSame
  <1>13. \A d \in Conn : Cleaning(d)'
    <2> SUFFICES ASSUME NEW d \in Conn, d # c PROVE Cleaning(d)'
      OBVIOUS
    <2> QED BY <1>1, <1>3, CleaningSame
  <1>14. Stray'
    BY <1>1, <1>3, StraySame
  <1>15. ASSUME NEW d \in Conn
         PROVE  Bearer(d)'
    <2>1. Leaving(d)' <=> Leaving(d)
      BY <1>1, <1>5 DEF Leaving
    <2>2. upf_ctx' = upf_ctx
      BY <1>1 DEF upfVars, upfTables
    <2> QED BY <1>1, <1>3, <1>9, <1>11, <2>1, <2>2 DEF Bearer
  <1>16. KnownAttached'
    <2>1. \A d \in Conn : Attached(d) => Attached(d)'
      BY <1>1, <1>5, <1>10 DEF Attached
    <2> QED BY <1>1, <1>3, <2>1 DEF KnownAttached
  <1>17. IdsUsed'
    <2>1. ASSUME NEW d \in Conn, NEW i \in MmeId, Uses(d, i)
          PROVE  Uses(d, i)'
      <3>1. CASE d = c
        BY <2>1, <3>1
      <3>2. CASE d # c
        BY <1>1, <1>5, <1>10, <2>1, <3>2 DEF Uses
      <3> QED BY <3>1, <3>2
    <2> QED BY <1>1, <1>3, <2>1 DEF IdsUsed
  <1> QED BY <1>1, <1>4, <1>6, <1>7, <1>12, <1>13, <1>14, <1>15, <1>16, <1>17 DEF SInv

\* A packet that names the identifier the thread was given.
LEMMA SendsData ==
    ASSUME SInv, NEW c \in Conn, NEW m \in S1apMsg, ClientSnd(c, m),
           m.type # 1 => m.id = ran_ctx'[c].mme_id,
           m.type = 5 => m.guti = Guti(UeOf(c)),
           NoUp(c) \/ ran_ctx'[c].mme_id = ran_ctx[c].mme_id
    PROVE  /\ UpData(c)'
           /\ \A i \in MmeId : (\E k \in 1 .. Len(up[c]) : up[c][k].type # 1 /\ up[c][k].id = i) =>
                \E k \in 1 .. Len(up'[c]) : up'[c][k].type # 1 /\ up'[c][k].id = i
           /\ m.type # 1 => \E k \in 1 .. Len(up'[c]) : up'[c][k].type # 1 /\ up'[c][k].id = m.id
PROOF
  <1>1. /\ Len(up'[c]) = Len(up[c]) + 1 /\ Len(up[c]) \in Nat
        /\ \A k \in 1 .. Len(up[c]) : up'[c][k] = up[c][k]
        /\ up'[c][Len(up[c]) + 1] = m
    BY SendsUp DEF SInv
  <1>2. UpData(c)
    BY DEF SInv, ConnData
  <1>3. \A k \in 1 .. Len(up'[c]) : k \in 1 .. Len(up[c]) \/ k = Len(up[c]) + 1
    BY <1>1
  <1>4. UpData(c)'
    BY <1>1, <1>2, <1>3, SMTT(30) DEF UpData, NoUp
  <1>5. \A k \in 1 .. Len(up[c]) : k \in 1 .. Len(up'[c])
    BY <1>1
  <1>6. Len(up[c]) + 1 \in 1 .. Len(up'[c])
    BY <1>1
  <1> QED BY <1>1, <1>4, <1>5, <1>6

LEMMA RanSession ==
    ASSUME SInv, MaxRuns = 1, NEW c \in Conn, RanStep(c)
    PROVE  SInv'
PROOF
  <1>0. IdInv' /\ RanOnly(c)
    BY RanKeeps
  <1>1. /\ IdInv /\ TypeOK /\ ConnData(c) /\ Cleaning(c)
    BY DEF SInv, IdInv
  <1>2. RanTurn(c) /\ \A w \in Worker : Busy(w, c) => WorkerTurn(w, c)
    BY <1>1, ByConnection DEF IdInv, ConnOK
  <1>3. /\ up[c] \in Seq(S1apMsg) /\ down[c] \in Seq(S1apMsg) /\ ran_pc \in [Conn -> RanPc]
        /\ ran_ctx \in [Conn -> RanCtx] /\ ran_ctx[c] \in RanCtx
        /\ ran_ctx[c].mme_id \in MmeId /\ ran_ctx[c].guti \in GutiSet
        /\ rounds \in [Conn -> 0 .. MaxAttach] /\ MaxAttach \in Nat /\ rounds[c] \in Nat
        /\ uplink_info \in [ImsiSet -> TeidSet \cup {NoTunnel}]
        /\ \A w \in Worker : amf_pc[w] \in AmfPc
    BY <1>1, RanAssumption DEF TypeOK, LinksTypeOK, RanTypeOK, RanCtx, AmfTypeOK
  <1>4. /\ UNCHANGED <<rpc, calls, n4req, n4rsp, ue_ctx, smf_ctx>>
        /\ UNCHANGED <<amf_pc, amf_conn, amf_id, upf_pc, upf_imsi, upf_old>>
    BY <1>0 DEF RanOnly, upfVars
  <1>5. /\ \A w \in Worker : Busy(w, c)' <=> Busy(w, c)
        /\ \A w \in Worker : Answered(w)' <=> Answered(w)
        /\ \A t \in UpfThread : Cleaner(t, UeOf(c))' <=> Cleaner(t, UeOf(c))
    BY <1>4 DEF Busy, Answered, Replied, SockOf, Cleaner
  <1>6. ASSUME NEW op
        PROVE  Done(c, op)' <=> Done(c, op)
    BY <1>4, <1>5 DEF Done
  <1>7. ASSUME ran_pc[c] \notin {"detach", "loop"} \/ rounds[c] < MaxAttach, ran_pc'[c] # "start"
        PROVE  Cleaning(c)'
    BY <1>1, <1>3, <1>4, <1>5, <1>7 DEF Cleaning
  <1>8. /\ Done(c, "create") => ran_pc[c] = "session"
        /\ Done(c, "detach") => ran_pc[c] = "detach"
    BY <1>1, <1>2 DEF Done, WorkerTurn, ConnData
  <1>9. CASE conn_mme(c)
    <2>1. /\ ran_pc[c] = "start" /\ ran_pc'[c] = "loop" /\ up'[c] = up[c] /\ down'[c] = down[c]
          /\ ran_ctx' = ran_ctx
      BY <1>3, <1>9 DEF conn_mme
    <2>2. ConnData(c)'
      BY <1>1, <2>1 DEF ConnData, UpData, AcceptData, TransferData, ContextData
    <2>3. Held(c)' <=> Held(c)
      BY <2>1 DEF Held
    <2>4. Cleaning(c)'
      BY <1>7, <2>1
    <2>5. Attached(c) => Attached(c)'
      BY <1>4, <1>5, <2>1 DEF Attached
    <2>6. \A i \in MmeId : Uses(c, i) => Uses(c, i)'
      BY <1>4, <1>5, <2>1 DEF Uses
    <2> QED BY <2>1, <2>2, <2>3, <2>4, <2>5, <2>6, <1>0, RanRest
  <1>10. CASE initial_attach(c)
    <2>0. PICK m : m = [S1ap(1, 0) EXCEPT !.imsi = Imsi(UeOf(c))]
      OBVIOUS
    <2>1. m \in S1apMsg /\ m.type = 1 /\ ClientSnd(c, m)
      <3>1. Imsi(UeOf(c)) \in ImsiSet /\ 0 \in MmeId
        BY IdentityTypes
      <3>2. S1ap(1, 0) \in S1apMsg /\ S1ap(1, 0).type = 1
        BY <3>1, Headers
      <3>3. m \in S1apMsg /\ m.type = 1
        BY <2>0, <3>1, <3>2, Bodies, IdentityTypes
      <3>4. ClientSnd(c, m)
        BY <1>10, <2>0 DEF initial_attach
      <3> QED BY <3>3, <3>4
    <2>2. /\ ran_pc[c] = "loop" /\ ran_pc'[c] = "autn" /\ down'[c] = down[c] /\ ran_ctx' = ran_ctx
          /\ rounds[c] < MaxAttach /\ rounds'[c] = rounds[c] + 1
      BY <1>3, <1>10 DEF initial_attach
    <2>3. NoDown(c) /\ NoDown(c)'
      BY <1>1, <2>2, NothingDown DEF NoDown
    <2>4. /\ UpData(c)'
          /\ \A i \in MmeId : (\E k \in 1 .. Len(up[c]) : up[c][k].type # 1 /\ up[c][k].id = i) =>
                \E k \in 1 .. Len(up'[c]) : up'[c][k].type # 1 /\ up'[c][k].id = i
      BY <2>1, <2>2, SendsData
    <2>5. ConnData(c)'
      BY <1>3, <2>2, <2>3, <2>4 DEF ConnData, AcceptData, TransferData, ContextData
    <2>6. Held(c)' <=> Held(c)
      BY <2>2 DEF Held
    <2>7. Cleaning(c)'
      BY <1>7, <2>2
    <2>8. Attached(c) => Attached(c)'
      BY <1>4, <1>5, <2>2 DEF Attached
    <2>9. \A i \in MmeId : Uses(c, i) => Uses(c, i)'
      BY <1>4, <1>5, <2>2, <2>4 DEF Uses
    <2> QED BY <2>2, <2>5, <2>6, <2>7, <2>8, <2>9, <1>0, RanRest
  <1>11. CASE authenticate(c)
    <2>0. PICK id : id = Head(down[c]).id
      OBVIOUS
    <2>1. /\ id = down[c][1].id /\ id \in MmeId /\ NoDown(c)' /\ ~ NoDown(c)
      BY <1>1, <1>11, <2>0, TakesDown DEF authenticate, NoDown, S1apMsg
    <2>2. S1ap(2, id) \in S1apMsg /\ S1ap(2, id).type = 2 /\ S1ap(2, id).id = id
      BY <2>1, Headers
    <2>3. ClientSnd(c, S1ap(2, id)) /\ ran_pc[c] = "autn" /\ ran_pc'[c] = "security"
          /\ ran_ctx'[c].mme_id = id /\ rounds' = rounds
      BY <1>3, <1>11, <2>0 DEF authenticate, RanCtx
    <2>4. NoUp(c) /\ \A w \in Worker : ~ Busy(w, c)
      BY <1>2, <1>3, <2>1, <2>3 DEF RanTurn, WorkerTurn, Busy, AmfPc
    <2>5. UpData(c)'
      BY <2>2, <2>3, <2>4, SendsData
    <2>6. ConnData(c)'
      BY <1>1, <1>4, <2>1, <2>3, <2>5 DEF ConnData, AcceptData, TransferData, ContextData
    <2>7. Held(c)' <=> Held(c)
      BY <2>3 DEF Held
    <2>8. Cleaning(c)'
      BY <1>7, <2>3
    <2>9. Attached(c)'
      BY <2>3 DEF Attached
    <2>10. \A i \in MmeId : Uses(c, i) => Uses(c, i)'
      BY <2>1, <2>3, <2>4 DEF Uses, NoUp
    <2> QED BY <2>4, <2>6, <2>7, <2>8, <2>9, <2>10, <1>0, RanRest
  <1>12. CASE set_security(c)
    <2>0. PICK m : m = S1ap(3, ran_ctx[c].mme_id)
      OBVIOUS
    <2>1. m \in S1apMsg /\ m.type = 3 /\ m.id = ran_ctx[c].mme_id
      BY <1>3, <2>0, Headers
    <2>2. /\ ClientSnd(c, m) /\ ran_pc[c] = "security" /\ ran_pc'[c] = "session" /\ Rcv(c)
          /\ ran_ctx' = ran_ctx /\ rounds' = rounds
      BY <1>3, <1>12, <2>0 DEF set_security
    <2>3. NoDown(c)'
      BY <1>1, <2>2, TakesDown
    <2>4. /\ UpData(c)'
          /\ \A i \in MmeId : (\E k \in 1 .. Len(up[c]) : up[c][k].type # 1 /\ up[c][k].id = i) =>
                \E k \in 1 .. Len(up'[c]) : up'[c][k].type # 1 /\ up'[c][k].id = i
      BY <2>1, <2>2, SendsData
    <2>5. ConnData(c)'
      BY <1>1, <1>4, <2>2, <2>3, <2>4 DEF ConnData, AcceptData, TransferData, ContextData
    <2>6. Held(c)' <=> Held(c)
      BY <1>6, <1>8, <2>2, <2>3 DEF Held
    <2>7. Cleaning(c)'
      BY <1>7, <2>2
    <2>8. Attached(c)'
      BY <2>2 DEF Attached
    <2>9. \A i \in MmeId : Uses(c, i) => Uses(c, i)'
      BY <1>4, <1>5, <2>2, <2>4 DEF Uses
    <2> QED BY <2>2, <2>5, <2>6, <2>7, <2>8, <2>9, <1>0, RanRest
  <1>13. CASE set_eps_session(c)
    <2>0. PICK a : a = Head(down[c])
      OBVIOUS
    <2>1. PICK m : m = [S1ap(4, ran_ctx[c].mme_id) EXCEPT !.teid = a.teid]
      OBVIOUS
    <2>2. /\ ClientSnd(c, m) /\ ran_pc[c] = "session" /\ ran_pc'[c] = "data" /\ Rcv(c)
          /\ rounds' = rounds
          /\ ran_ctx' = [ran_ctx EXCEPT ![c] = [@ EXCEPT !.guti = a.guti, !.ul = a.teid,
                                                         !.ip = a.ip, !.emm_state = 1]]
          /\ uplink_info' = [uplink_info EXCEPT ![a.ip] = a.teid]
      BY <1>3, <1>13, <2>0, <2>1 DEF set_eps_session
    <2>3. a = down[c][1] /\ a \in S1apMsg /\ NoDown(c)' /\ ~ NoDown(c)
      BY <1>1, <2>0, <2>2, TakesDown DEF NoDown
    <2>4. /\ a.guti = Guti(UeOf(c)) /\ a.teid = Teid(UeOf(c)) /\ a.ip = Imsi(UeOf(c))
          /\ ue_ctx[Guti(UeOf(c))].ul = Teid(UeOf(c)) /\ smf_ctx[Guti(UeOf(c))].sgw = Teid(UeOf(c))
      BY <1>1, <2>2, <2>3 DEF ConnData, AcceptData
    <2>5. m \in S1apMsg /\ m.type = 4 /\ m.id = ran_ctx[c].mme_id
      <3>1. S1ap(4, ran_ctx[c].mme_id) \in S1apMsg /\ S1ap(4, ran_ctx[c].mme_id).type = 4
            /\ S1ap(4, ran_ctx[c].mme_id).id = ran_ctx[c].mme_id
        BY <1>3, Headers
      <3>2. a.teid \in TeidSet
        BY <2>3 DEF S1apMsg
      <3> QED BY <2>1, <3>1, <3>2, Bodies, IdentityTypes
    <2>6. /\ ran_ctx'[c].mme_id = ran_ctx[c].mme_id /\ ran_ctx'[c].guti = a.guti
          /\ ran_ctx'[c].ul = a.teid /\ ran_ctx'[c].ip = a.ip
      BY <1>3, <2>2 DEF RanCtx
    <2>7. uplink_info'[Imsi(UeOf(c))] = Teid(UeOf(c))
      BY <1>3, <2>2, <2>4, Keys
    <2>8. /\ UpData(c)'
          /\ \A i \in MmeId : (\E k \in 1 .. Len(up[c]) : up[c][k].type # 1 /\ up[c][k].id = i) =>
                \E k \in 1 .. Len(up'[c]) : up'[c][k].type # 1 /\ up'[c][k].id = i
      BY <2>2, <2>5, <2>6, SendsData
    <2>9. ConnData(c)'
      BY <1>1, <1>4, <2>2, <2>3, <2>4, <2>6, <2>7, <2>8
         DEF ConnData, AcceptData, TransferData, ContextData
    <2>10. Held(c)' <=> Held(c)
      BY <2>2, <2>3 DEF Held
    <2>11. Cleaning(c)'
      BY <1>7, <2>2
    <2>12. Attached(c)'
      BY <2>2 DEF Attached
    <2>13. \A i \in MmeId : Uses(c, i) => Uses(c, i)'
      BY <1>4, <1>5, <2>2, <2>6, <2>8 DEF Uses
    <2> QED BY <2>6, <2>9, <2>10, <2>11, <2>12, <2>13, <1>0, RanRest
  <1>14. CASE detach_req(c)
    <2>0. PICK m : m = [S1ap(5, ran_ctx[c].mme_id) EXCEPT !.guti = ran_ctx[c].guti]
      OBVIOUS
    <2>1. /\ ClientSnd(c, m) /\ ran_pc[c] = "data" /\ ran_pc'[c] = "detach" /\ down'[c] = down[c]
          /\ ran_ctx' = ran_ctx /\ rounds' = rounds
      BY <1>3, <1>14, <2>0 DEF detach_req
    <2>2. m \in S1apMsg /\ m.type = 5 /\ m.id = ran_ctx[c].mme_id /\ m.guti = Guti(UeOf(c))
      <3>1. S1ap(5, ran_ctx[c].mme_id) \in S1apMsg /\ S1ap(5, ran_ctx[c].mme_id).type = 5
            /\ S1ap(5, ran_ctx[c].mme_id).id = ran_ctx[c].mme_id
        BY <1>3, Headers
      <3>2. m \in S1apMsg /\ m.type = 5 /\ m.id = ran_ctx[c].mme_id
        BY <1>3, <2>0, <3>1, Bodies, IdentityTypes
      <3>3. m.guti = ran_ctx[c].guti
        BY <2>0, <3>1 DEF S1apMsg
      <3> QED BY <1>1, <2>1, <3>2, <3>3 DEF ConnData, TransferData
    <2>3. NoDown(c) /\ NoDown(c)'
      BY <1>1, <2>1, NothingDown DEF NoDown
    <2>4. /\ UpData(c)'
          /\ \A i \in MmeId : (\E k \in 1 .. Len(up[c]) : up[c][k].type # 1 /\ up[c][k].id = i) =>
                \E k \in 1 .. Len(up'[c]) : up'[c][k].type # 1 /\ up'[c][k].id = i
          /\ \E k \in 1 .. Len(up'[c]) : up'[c][k].type # 1 /\ up'[c][k].id = m.id
      BY <2>1, <2>2, SendsData
    <2>5. ConnData(c)'
      BY <1>1, <1>4, <2>1, <2>3, <2>4 DEF ConnData, AcceptData, TransferData, ContextData
    <2>6. Held(c)' <=> Held(c)
      BY <1>6, <1>8, <2>1, <2>3 DEF Held
    <2>7. Cleaning(c)'
      BY <1>7, <2>1
    <2>8. Attached(c)'
      BY <2>1, <2>3 DEF Attached
    <2>9. \A i \in MmeId : Uses(c, i) => Uses(c, i)'
      BY <1>4, <1>5, <2>1, <2>2, <2>4 DEF Uses
    <2> QED BY <2>1, <2>5, <2>6, <2>7, <2>8, <2>9, <1>0, RanRest
  <1>15. CASE detach_rsp(c)
    <2>1. /\ ran_pc[c] = "detach" /\ ran_pc'[c] = "loop" /\ Rcv(c)
          /\ ran_ctx' = ran_ctx /\ rounds' = rounds /\ up' = up
      BY <1>3, <1>15 DEF detach_rsp
    <2>2. NoDown(c)' /\ ~ NoDown(c)
      BY <1>1, <2>1, TakesDown DEF NoDown
    <2>3. ConnData(c)'
      BY <1>1, <2>1 DEF ConnData, UpData, AcceptData, TransferData, ContextData
    <2>4. Held(c)' <=> Held(c)
      BY <2>1, <2>2 DEF Held
    <2>5. Cleaning(c)'
      BY <1>1, <1>4, <1>5, <2>1 DEF Cleaning
    <2>6. Attached(c) => Attached(c)'
      BY <1>4, <1>5, <2>1, <2>2 DEF Attached
    <2>7. \A i \in MmeId : Uses(c, i) => Uses(c, i)'
      BY <1>4, <1>5, <2>1 DEF Uses
    <2> QED BY <2>1, <2>3, <2>4, <2>5, <2>6, <2>7, <1>0, RanRest
  <1> QED BY <1>9, <1>10, <1>11, <1>12, <1>13, <1>14, <1>15 DEF RanStep, RanThread

\* Steps that change nothing of this: a connection is accepted, or nothing happens.
LEMMA IdleSession ==
    ASSUME SInv, IdInv', RanOnly(NoConn), UNCHANGED ranVars, UNCHANGED <<up, down>>
    PROVE  SInv'
PROOF
  <1> DEFINE c == NoConn
  <1>1. c \in Conn
    BY IdentityTypes
  <1>2. /\ UNCHANGED <<rpc, calls, n4req, n4rsp, ue_ctx, smf_ctx, upfVars>>
        /\ UNCHANGED <<amf_pc, amf_conn, amf_id>>
        /\ UNCHANGED <<ran_pc, ran_ctx, rounds, uplink_info>>
    BY DEF RanOnly, ranVars
  <1> HIDE DEF c
  <1>3. ConnData(c)'
    BY <1>1, <1>2, ConnDataSame DEF SInv
  <1>4. Held(c)' <=> Held(c)
    BY <1>2 DEF Held, NoDown, Done, Busy, Answered, Replied, SockOf
  <1>5. Cleaning(c)'
    BY <1>1, <1>2, CleaningSame DEF SInv
  <1>6. Attached(c) => Attached(c)'
    BY <1>2 DEF Attached, NoDown, Busy
  <1>7. \A i \in MmeId : Uses(c, i) => Uses(c, i)'
    BY <1>2 DEF Uses, NoDown, Busy
  <1>8. RanOnly(c)
    BY DEF c
  <1> QED BY <1>1, <1>2, <1>3, <1>4, <1>5, <1>6, <1>7, <1>8, RanRest

LEMMA AcceptSession ==
    ASSUME SInv, NEW c \in Conn, AcceptStep(c)
    PROVE  SInv'
PROOF
  <1>1. IdInv'
    BY AcceptSafe DEF SInv
  <1>2. /\ UNCHANGED ranVars /\ UNCHANGED <<up, down>>
        /\ UNCHANGED <<rpc, calls, n4req, n4rsp, ue_count, s1amf_id, ue_ctx, smf_ctx, exited>>
        /\ UNCHANGED <<amf_pc, amf_conn, amf_guti, amf_imsi, amf_id, upfVars>>
    BY DEF AcceptStep, accept_clients, linkVars, amfVars, amfTables, amfLocals, smfVars
  <1>3. RanOnly(NoConn)
    BY <1>2 DEF RanOnly, ranVars
  <1> QED BY <1>1, <1>2, <1>3, IdleSession

-----------------------------------------------------------------------------
(***************************************************************************)
(* Steps of the AMF's workers.                                             *)
(***************************************************************************)

\* Worker w works on connection c and leaves everything else alone.
AmfOnly(w, c) ==
    /\ exited' = exited
    /\ UNCHANGED <<ran_pc, ran_ctx, rounds, uplink_info, smf_ctx, upfVars, calls, n4req, n4rsp>>
    /\ \A v \in Worker : v # w =>
        /\ amf_pc'[v] = amf_pc[v] /\ amf_conn'[v] = amf_conn[v] /\ amf_guti'[v] = amf_guti[v]
        /\ amf_imsi'[v] = amf_imsi[v] /\ amf_id'[v] = amf_id[v] /\ rpc'[v] = rpc[v]
    /\ \A d \in Conn : d # c =>
        up'[d] = up[d] /\ down'[d] = down[d] /\ ue_ctx'[Guti(UeOf(d))] = ue_ctx[Guti(UeOf(d))]
    /\ ue_ctx'[0] = ue_ctx[0]
    /\ rpc[w].st # "busy" /\ rpc'[w].st # "busy"
    /\ amf_pc[w] = "idle" \/ amf_conn[w] = c
    /\ amf_pc'[w] = "idle" \/ amf_conn'[w] = c
    /\ owner[c] = w

\* What is left to show of such a step.
LEMMA AmfRest ==
    ASSUME SInv, IdInv', NEW w \in Worker, NEW c \in Conn, AmfOnly(w, c),
           ConnData(c)', WorkerData(w)', Held(c)' <=> Held(c), Bearer(c)',
           ue_ctx'[Guti(UeOf(c))].known => Attached(c)',
           \A i \in MmeId : s1amf_id'[i] # 0 =>
              Uses(c, i)' \/ (s1amf_id[i] # 0 /\ ~ Uses(c, i))
    PROVE  SInv'
PROOF
  <1>1. /\ exited' = {}
        /\ UNCHANGED <<ran_pc, ran_ctx, rounds, uplink_info, smf_ctx, upfVars, calls, n4req, n4rsp>>
        /\ \A v \in Worker : v # w =>
            /\ amf_pc'[v] = amf_pc[v] /\ amf_conn'[v] = amf_conn[v] /\ amf_guti'[v] = amf_guti[v]
            /\ amf_imsi'[v] = amf_imsi[v] /\ amf_id'[v] = amf_id[v] /\ rpc'[v] = rpc[v]
        /\ \A d \in Conn : d # c =>
            up'[d] = up[d] /\ down'[d] = down[d] /\ ue_ctx'[Guti(UeOf(d))] = ue_ctx[Guti(UeOf(d))]
        /\ ue_ctx'[0] = ue_ctx[0]
        /\ rpc[w].st # "busy" /\ rpc'[w].st # "busy"
    BY DEF AmfOnly, SInv
  <1>2. IdInv /\ TypeOK
    BY DEF SInv, IdInv
  <1>3. /\ \A d \in Conn : ConnData(d) /\ Tables(d) /\ Cleaning(d) /\ Bearer(d)
        /\ \A v \in Worker : WorkerData(v)
        /\ N4Ok /\ Stray /\ KnownAttached /\ IdsUsed
    BY DEF SInv
  <1>4. \A v \in Worker : v # w => ~ Busy(v, c)
    BY <1>2, ByConnection DEF IdInv, ConnOK, AmfOnly
  <1>5. \A v \in Worker, d \in Conn : d # c =>
            /\ Busy(v, d)' <=> Busy(v, d)
            /\ Busy(v, d) => v # w
    BY <1>1 DEF Busy, AmfOnly
  <1>6. \A d \in Conn : ConnData(d)'
    <2> SUFFICES ASSUME NEW d \in Conn, d # c PROVE ConnData(d)'
      OBVIOUS
    <2> QED BY <1>1, <1>3, ConnDataSame
  <1>7. \A v \in Worker : WorkerData(v)'
    <2> SUFFICES ASSUME NEW v \in Worker, v # w PROVE WorkerData(v)'
      OBVIOUS
    <2>1. amf_pc[v] # "idle" => amf_conn[v] # c /\ amf_conn[v] \in Conn
      BY <1>2, <1>4 DEF Busy, TypeOK, AmfTypeOK
    <2> QED BY <1>1, <1>3, <2>1, WorkerDataSame
  <1>8. N4Ok'
    <2>1. UNCHANGED <<upf_pc, upf_pkt, upf_imsi>>
      BY <1>1 DEF upfVars
    <2>2. \A v \in Worker : SockOf(v)[1] = v /\ SockOf(v)' = SockOf(v)
      BY <1>1 DEF SockOf
    <2>3. \A v \in Worker : (Open(SockOf(v)) \/ Open(SockOf(v))') => v # w
      BY <1>1, <2>2 DEF Open
    <2>4. \A v \in Worker : Open(SockOf(v))' => Open(SockOf(v))
      BY <1>1, <2>2, <2>3 DEF Open
    <2> QED BY <1>1, <1>2, <1>3, <2>1, <2>3, <2>4, N4Same
  <1>9. \A v \in Worker : v # w => (Answered(v)' <=> Answered(v))
    BY <1>1 DEF Answered, Replied, SockOf
  <1>10. ASSUME NEW d \in Conn, d # c, NEW op
         PROVE  Done(d, op)' <=> Done(d, op)
    BY <1>1, <1>5, <1>9, <1>10 DEF Done
  <1>11. \A d \in Conn : d # c => (NoDown(d)' <=> NoDown(d))
    BY <1>1 DEF NoDown
  <1>12. \A d \in Conn : Held(d)' <=> Held(d)
    <2> SUFFICES ASSUME NEW d \in Conn, d # c PROVE Held(d)' <=> Held(d)
      OBVIOUS
    <2> QED BY <1>1, <1>10, <1>11 DEF Held
  <1>13. \A d \in Conn : Tables(d)'
    BY <1>1, <1>3, <1>12, TablesSame
  <1>14. \A d \in Conn : Cleaning(d)'
    BY <1>1, <1>3, CleaningSame
  <1>15. Stray'
    BY <1>1, <1>3, StraySame
  <1>16. \A d \in Conn : Bearer(d)'
    <2> SUFFICES ASSUME NEW d \in Conn, d # c PROVE Bearer(d)'
      OBVIOUS
    <2>1. Leaving(d)' <=> Leaving(d)
      BY <1>1, <1>5 DEF Leaving
    <2>2. upf_ctx' = upf_ctx
      BY <1>1 DEF upfVars, upfTables
    <2> QED BY <1>1, <1>3, <1>10, <1>12, <2>1, <2>2 DEF Bearer
  <1>17. KnownAttached'
    <2>1. \A d \in Conn : d # c => (Attached(d) => Attached(d)')
      BY <1>1, <1>5, <1>11 DEF Attached
    <2> QED BY <1>1, <1>3, <2>1 DEF KnownAttached
  <1>18. IdsUsed'
    <2>1. ASSUME NEW d \in Conn, NEW i \in MmeId, Uses(d, i), d # c
          PROVE  Uses(d, i)'
      BY <1>1, <1>5, <1>11, <2>1 DEF Uses
    <2> QED BY <1>3, <2>1 DEF IdsUsed
  <1> QED BY <1>1, <1>6, <1>7, <1>8, <1>13, <1>14, <1>15, <1>16, <1>17, <1>18 DEF SInv

\* A worker that takes a packet had nothing else to do.
LEMMA ServesData ==
    ASSUME SInv, NEW w \in Worker, NEW c \in Conn, NEW t \in 1 .. 5, Serve(w, c, t),
           ran_ctx' = ran_ctx
    PROVE  /\ owner[c] = w /\ amf_pc[w] = "idle" /\ rpc[w] = NoCall
           /\ \A v \in Worker : ~ Busy(v, c)
           /\ NoDown(c) /\ UpData(c)'
           /\ Head(up[c]) = up[c][1] /\ up[c][1] \in S1apMsg /\ up[c][1].type = t
           /\ t # 1 => /\ up[c][1].id = ran_ctx[c].mme_id
                       /\ s1amf_id[up[c][1].id] = Guti(UeOf(c)) /\ up[c][1].id \in MmeId
           /\ t = 1 => up[c][1].imsi = Imsi(UeOf(c))
           /\ t = 5 => up[c][1].guti = Guti(UeOf(c))
           /\ t = 1 => NoUp(c)' /\ ran_pc[c] = "autn"
           /\ t = 2 => NoUp(c)' /\ ran_pc[c] = "security"
           /\ t = 3 => NoUp(c)' /\ ran_pc[c] = "session"
           /\ t = 4 => \/ NoUp(c)' /\ ran_pc[c] = "data"
                       \/ OneUp(c, 5)' /\ ran_pc[c] = "detach"
           /\ t = 5 => NoUp(c)' /\ ran_pc[c] = "detach"
           /\ \A d \in Conn : d # c => up'[d] = up[d]
           /\ \A i \in MmeId : Uses(c, i) => t # 1 /\ i = ran_ctx[c].mme_id
PROOF
  <1>1. IdInv /\ ConnData(c) /\ WorkerData(w)
    BY DEF SInv
  <1>2. /\ \A v \in Worker : ~ Busy(v, c)
        /\ NoDown(c)
        /\ Head(up[c]) = up[c][1] /\ up[c][1] \in S1apMsg /\ up[c][1].type = t
        /\ 1 \in 1 .. Len(up[c])
        /\ \A d \in Conn : d # c => up'[d] = up[d]
        /\ \A k \in 1 .. Len(up'[c]) : up'[c][k] = up[c][k + 1] /\ k + 1 \in 1 .. Len(up[c])
        /\ t = 1 => NoUp(c)' /\ ran_pc[c] \in {"autn", "dead"}
        /\ t = 2 => NoUp(c)' /\ ran_pc[c] \in {"security", "dead"}
        /\ t = 3 => NoUp(c)' /\ ran_pc[c] \in {"session", "dead"}
        /\ t = 4 => \/ NoUp(c)' /\ ran_pc[c] \in {"data", "dead"}
                    \/ OneUp(c, 5)' /\ ran_pc[c] \in {"detach", "dead"}
        /\ t = 5 => NoUp(c)' /\ ran_pc[c] \in {"detach", "dead"}
    BY <1>1, Serves
  <1>3. owner[c] = w /\ amf_pc[w] = "idle"
    BY DEF Serve, ServerRcv
  <1>4. rpc[w] = NoCall
    BY <1>1, <1>3 DEF WorkerData, WorkerCall
  <1>5. UpData(c)'
    BY <1>1, <1>2 DEF ConnData, UpData
  <1>6. t # 1 => /\ up[c][1].id = ran_ctx[c].mme_id
                 /\ s1amf_id[up[c][1].id] = Guti(UeOf(c)) /\ up[c][1].id \in MmeId
    <2>1. t # 1 => up[c][1].id = ran_ctx[c].mme_id
      BY <1>1, <1>2 DEF ConnData, UpData
    <2>2. t # 1 => Uses(c, up[c][1].id) /\ up[c][1].id \in MmeId
      BY <1>2 DEF Uses, S1apMsg
    <2> QED BY <1>1, <2>1, <2>2, Resolves
  <1>7. t = 1 => up[c][1].imsi = Imsi(UeOf(c))
    BY <1>1, <1>2 DEF IdInv, AttachImsi
  <1>8. t = 5 => up[c][1].guti = Guti(UeOf(c))
    BY <1>1, <1>2 DEF ConnData, UpData
  <1>9. ASSUME NEW i \in MmeId, Uses(c, i)
        PROVE  t # 1 /\ i = ran_ctx[c].mme_id
    <2>1. i = ran_ctx[c].mme_id
      BY <1>1, <1>2, <1>9 DEF Uses, ConnData, UpData
    <2>2. t # 1
      <3> SUFFICES ASSUME t = 1 PROVE FALSE
        OBVIOUS
      <3>1. RanTurn(c) /\ ran_pc[c] = "autn"
        BY <1>1, <1>2, ByConnection DEF IdInv, ConnOK, ConnData
      <3>2. OneUp(c, 1) \/ NoUp(c)
        BY <3>1, ExpectedTypes DEF RanTurn
      <3> QED BY <1>2, <1>9, <3>1, <3>2 DEF Uses, OneUp, NoUp
    <2> QED BY <2>1, <2>2
  <1>10. ran_pc[c] # "dead"
    BY <1>1 DEF ConnData
  <1> QED BY <1>2, <1>3, <1>4, <1>5, <1>6, <1>7, <1>8, <1>9, <1>10

\* A worker in the middle of a handler.
LEMMA WorkerAt ==
    ASSUME SInv, NEW w \in Worker, amf_pc[w] # "idle", NEW c, c = amf_conn[w]
    PROVE  /\ c \in Conn /\ Busy(w, c) /\ owner[c] = w
           /\ \A v \in Worker : v # w => ~ Busy(v, c)
           /\ amf_guti[w] = Guti(UeOf(c)) /\ amf_id[w] \in MmeId
           /\ WorkerLocals(w) /\ WorkerCall(w)
           /\ amf_pc[w] # "rem_uectx" => s1amf_id[amf_id[w]] = Guti(UeOf(c))
           /\ amf_pc[w] \in {"attach_init", "attach_autn"} =>
                NoUp(c) /\ NoDown(c) /\ ran_pc[c] = "autn"
           /\ amf_pc[w] \in {"location", "create"} => NoUp(c) /\ NoDown(c) /\ ran_pc[c] = "session"
           /\ amf_pc[w] \in {"bearer", "modify"} =>
                /\ NoDown(c)
                /\ (ran_pc[c] = "data" /\ NoUp(c)) \/ (ran_pc[c] = "detach" /\ OneUp(c, 5))
           /\ amf_pc[w] = "detach" => NoUp(c) /\ NoDown(c) /\ ran_pc[c] = "detach"
           /\ amf_pc[w] \in {"rem_itfid", "rem_uectx"} =>
                \/ ran_pc[c] = "detach" /\ NoUp(c) /\ ~ NoDown(c)
                \/ ran_pc[c] = "loop" /\ NoUp(c) /\ NoDown(c)
                \/ ran_pc[c] = "autn" /\ OneUp(c, 1) /\ NoDown(c)
           /\ amf_pc[w] \in {"location", "create", "bearer", "modify", "detach"} =>
                \A i \in MmeId : Uses(c, i) => i = amf_id[w] /\ i = ran_ctx[c].mme_id
           /\ amf_pc[w] \in {"attach_init", "attach_autn", "rem_itfid"} =>
                \A i \in MmeId : Uses(c, i) => i = amf_id[w]
           /\ amf_pc[w] = "rem_uectx" => \A i \in MmeId : ~ Uses(c, i)
PROOF
  <1>1. IdInv /\ TypeOK /\ WorkerData(w)
    BY DEF SInv, IdInv
  <1>2. c \in Conn /\ Busy(w, c) /\ amf_id[w] \in MmeId
    BY <1>1 DEF TypeOK, AmfTypeOK, Busy
  <1>3. ConnData(c)
    BY <1>2 DEF SInv
  <1>4. owner[c] = w /\ WorkerTurn(w, c)
    BY <1>1, <1>2, ByConnection DEF IdInv, ConnOK
  <1>5. \A v \in Worker : v # w => ~ Busy(v, c)
    BY <1>1, <1>2, OneWorker
  <1>6. amf_guti[w] = Guti(UeOf(c)) /\ WorkerLocals(w) /\ WorkerCall(w)
    BY <1>1 DEF WorkerData, WorkerLocals
  <1>7. amf_pc[w] # "rem_uectx" => Uses(c, amf_id[w])
    BY <1>2 DEF Uses
  <1>8. amf_pc[w] # "rem_uectx" => s1amf_id[amf_id[w]] = Guti(UeOf(c))
    BY <1>1, <1>2, <1>7, Resolves
  <1>9. ran_pc[c] # "dead"
    BY <1>3 DEF ConnData
  <1>10. /\ amf_pc[w] \in {"attach_init", "attach_autn"} =>
                NoUp(c) /\ NoDown(c) /\ ran_pc[c] = "autn"
         /\ amf_pc[w] \in {"location", "create"} => NoUp(c) /\ NoDown(c) /\ ran_pc[c] = "session"
         /\ amf_pc[w] \in {"bearer", "modify"} =>
                /\ NoDown(c)
                /\ (ran_pc[c] = "data" /\ NoUp(c)) \/ (ran_pc[c] = "detach" /\ OneUp(c, 5))
         /\ amf_pc[w] = "detach" => NoUp(c) /\ NoDown(c) /\ ran_pc[c] = "detach"
         /\ amf_pc[w] \in {"rem_itfid", "rem_uectx"} =>
                \/ ran_pc[c] = "detach" /\ NoUp(c) /\ ~ NoDown(c)
                \/ ran_pc[c] = "loop" /\ NoUp(c) /\ NoDown(c)
                \/ ran_pc[c] = "autn" /\ OneUp(c, 1) /\ NoDown(c)
    BY <1>4, <1>9 DEF WorkerTurn
  <1>11. ASSUME NEW i \in MmeId, Uses(c, i)
         PROVE  i = amf_id[w] \/ (i = ran_ctx[c].mme_id /\ ~ amf_pc[w] \in
                   {"attach_init", "attach_autn", "rem_itfid", "rem_uectx"})
    <2>1. CASE \E k \in 1 .. Len(up[c]) : up[c][k].type # 1 /\ up[c][k].id = i
      BY <1>3, <1>10, <2>1 DEF ConnData, UpData, NoUp, OneUp
    <2>2. CASE ran_pc[c] \in {"security", "session", "data"} /\ ran_ctx[c].mme_id = i
      BY <1>10, <2>2
    <2>3. CASE ran_pc[c] = "autn" /\ ~ NoDown(c) /\ down[c][1].id = i
      BY <1>10, <2>3, <1>1, <1>2 DEF TypeOK, AmfTypeOK, AmfPc
    <2>4. CASE \E v \in Worker : Busy(v, c) /\ amf_pc[v] # "rem_uectx" /\ amf_id[v] = i
      BY <1>5, <2>4
    <2> QED BY <1>11, <2>1, <2>2, <2>3, <2>4 DEF Uses
  <1>12. amf_pc[w] \in {"location", "create", "bearer", "modify", "detach"} =>
            amf_id[w] = ran_ctx[c].mme_id
    BY <1>6 DEF WorkerLocals
  <1>13. amf_pc[w] = "rem_uectx" => \A i \in MmeId : ~ Uses(c, i)
    BY <1>5, <1>10 DEF Uses, NoUp, OneUp
  <1> QED BY <1>2, <1>4, <1>5, <1>6, <1>8, <1>10, <1>11, <1>12, <1>13

\* Only worker w works on c, before and after.
LEMMA Alone ==
    ASSUME SInv, NEW w \in Worker, NEW c \in Conn, AmfOnly(w, c)
    PROVE  /\ \A v \in Worker : v # w => ~ Busy(v, c) /\ ~ Busy(v, c)'
           /\ ~ Replied(SockOf(w)) /\ ~ Replied(SockOf(w))'
           /\ upf_ctx' = upf_ctx /\ UNCHANGED <<ran_pc, ran_ctx, rounds, uplink_info, smf_ctx>>
PROOF
  <1>1. \A v \in Worker : v # w => ~ Busy(v, c)
    BY ByConnection DEF SInv, IdInv, ConnOK, AmfOnly
  <1>2. \A v \in Worker : v # w => ~ Busy(v, c)'
    BY <1>1 DEF AmfOnly, Busy
  <1>3. \A r \in n4rsp : Open(r.sock)
    BY DEF SInv, N4Ok, RspOk
  <1>4. SockOf(w)[1] = w
    BY DEF SockOf
  <1>5. ~ Replied(SockOf(w))
    BY <1>3, <1>4 DEF Replied, Open, AmfOnly
  <1>6. ~ Replied(SockOf(w))'
    BY <1>5 DEF Replied, SockOf, AmfOnly
  <1> QED BY <1>1, <1>2, <1>5, <1>6 DEF AmfOnly, upfVars, upfTables

\* The context of one UE is written.
LEMMA CtxWritten ==
    ASSUME MaxRuns = 1, TypeOK, NEW c \in Conn, NEW x,
           ue_ctx' = [ue_ctx EXCEPT ![Guti(UeOf(c))] = x]
    PROVE  /\ ue_ctx'[Guti(UeOf(c))] = x
           /\ \A d \in Conn : d # c => ue_ctx'[Guti(UeOf(d))] = ue_ctx[Guti(UeOf(d))]
           /\ ue_ctx'[0] = ue_ctx[0]
PROOF
  <1>1. ue_ctx \in [GutiSet -> UeContext]
    BY DEF TypeOK, AmfTypeOK
  <1> QED BY <1>1, Keys, IdentityTypes

LEMMA Touched ==
    ASSUME TypeOK, NEW g \in GutiSet
    PROVE  /\ Touch(ue_ctx[g]) \in UeContext /\ ue_ctx[g] \in UeContext
           /\ Touch(ue_ctx[g]).imsi = ue_ctx[g].imsi /\ Touch(ue_ctx[g]).ul = ue_ctx[g].ul
           /\ Touch(ue_ctx[g]).ecm_state = ue_ctx[g].ecm_state
PROOF
  <1>1. ue_ctx[g] \in UeContext
    BY DEF TypeOK, AmfTypeOK
  <1> QED BY <1>1 DEF Touch, UeContext

\* The locals of a worker after Locals, Goto, Await and Return.
LEMMA LocalsSet ==
    ASSUME TypeOK, NEW w \in Worker, NEW c, NEW id, NEW guti, NEW imsi, Locals(w, c, id, guti, imsi)
    PROVE  /\ amf_conn'[w] = c /\ amf_id'[w] = id /\ amf_guti'[w] = guti /\ amf_imsi'[w] = imsi
           /\ \A v \in Worker : v # w =>
                /\ amf_conn'[v] = amf_conn[v] /\ amf_guti'[v] = amf_guti[v]
                /\ amf_imsi'[v] = amf_imsi[v] /\ amf_id'[v] = amf_id[v]
PROOF
  <1>1. /\ amf_conn \in [Worker -> Conn] /\ amf_id \in [Worker -> MmeId]
        /\ amf_guti \in [Worker -> GutiSet] /\ amf_imsi \in [Worker -> ImsiSet]
    BY DEF TypeOK, AmfTypeOK
  <1> QED BY <1>1 DEF Locals

LEMMA PcSet ==
    ASSUME TypeOK, NEW w \in Worker, NEW pc, Goto(w, pc)
    PROVE  amf_pc'[w] = pc /\ \A v \in Worker : v # w => amf_pc'[v] = amf_pc[v]
PROOF BY DEF TypeOK, AmfTypeOK, Goto

LEMMA AwaitSet ==
    ASSUME TypeOK, NEW w \in Worker, NEW pc, NEW call, Await(w, pc, call)
    PROVE  /\ amf_pc'[w] = pc /\ rpc'[w] = call
           /\ \A v \in Worker : v # w => amf_pc'[v] = amf_pc[v] /\ rpc'[v] = rpc[v]
PROOF
  <1>1. rpc \in [Worker -> RpcSlot]
    BY DEF TypeOK, LinksTypeOK
  <1> QED BY <1>1, PcSet DEF Await

LEMMA ReturnSet ==
    ASSUME TypeOK, NEW w \in Worker, Return(w)
    PROVE  /\ amf_pc'[w] = "idle" /\ rpc'[w] = NoCall /\ WorkerData(w)'
           /\ \A v \in Worker : v # w =>
                /\ amf_pc'[v] = amf_pc[v] /\ amf_conn'[v] = amf_conn[v] /\ amf_guti'[v] = amf_guti[v]
                /\ amf_imsi'[v] = amf_imsi[v] /\ amf_id'[v] = amf_id[v] /\ rpc'[v] = rpc[v]
PROOF
  <1>1. rpc \in [Worker -> RpcSlot]
    BY DEF TypeOK, LinksTypeOK
  <1>2. /\ amf_pc'[w] = "idle" /\ rpc'[w] = NoCall
        /\ \A v \in Worker : v # w =>
                /\ amf_pc'[v] = amf_pc[v] /\ amf_conn'[v] = amf_conn[v] /\ amf_guti'[v] = amf_guti[v]
                /\ amf_imsi'[v] = amf_imsi[v] /\ amf_id'[v] = amf_id[v] /\ rpc'[v] = rpc[v]
    BY <1>1, PcSet, LocalsSet DEF Return
  <1> QED BY <1>2 DEF WorkerData, WorkerLocals, WorkerCall

\* What a call carries.
LEMMA Calls ==
    ASSUME NEW op, NEW guti, NEW imsi, NEW teid
    PROVE  /\ Call(op, guti, imsi, teid).st = "req" /\ Call(op, guti, imsi, teid).op = op
           /\ Call(op, guti, imsi, teid).guti = guti /\ Call(op, guti, imsi, teid).imsi = imsi
           /\ Call(op, guti, imsi, teid).teid = teid
           /\ NoCall.st = "idle" /\ NoCall.op = "none"
PROOF BY DEF Call, NoCall

LEMMA InitialAttachSession ==
    ASSUME SInv, IdInv', MaxRuns = 1, NEW w \in Worker, NEW c \in Conn, AmfStep(w),
           handle_initial_attach(w, c)
    PROVE  SInv'
PROOF
  <1>0. TypeOK /\ UNCHANGED <<ranVars, ran_pc, ran_ctx, rounds, uplink_info, smf_ctx, upfVars>>
    BY DEF SInv, IdInv, AmfStep, ranVars, smfVars
  <1>1. Serve(w, c, 1)
    BY DEF handle_initial_attach
  <1>2. /\ owner[c] = w /\ amf_pc[w] = "idle" /\ rpc[w] = NoCall
        /\ \A v \in Worker : ~ Busy(v, c)
        /\ NoDown(c) /\ UpData(c)' /\ Head(up[c]) = up[c][1]
        /\ up[c][1].imsi = Imsi(UeOf(c)) /\ ran_pc[c] = "autn"
        /\ \A d \in Conn : d # c => up'[d] = up[d]
        /\ \A i \in MmeId : ~ Uses(c, i)
    BY <1>0, <1>1, ServesData
  <1>3. PICK id : id = ue_count + 1
    OBVIOUS
  <1>4. UNCHANGED <<ue_ctx, down, rpc, calls, n4req, n4rsp, exited>>
    BY DEF handle_initial_attach
  <1>5. /\ Locals(w, c, id, Guti(UeOf(c)), Imsi(UeOf(c))) /\ Goto(w, "attach_init")
        /\ s1amf_id' = [s1amf_id EXCEPT ![id] = Guti(UeOf(c))]
    <2>1. get_guti(GUMMEI, Imsi(UeOf(c))) = Guti(UeOf(c))
      BY Identities, IdentityTypes
    <2> QED BY <1>2, <1>3, <2>1 DEF handle_initial_attach
  <1>6. /\ amf_pc'[w] = "attach_init" /\ amf_conn'[w] = c /\ amf_id'[w] = id
        /\ amf_guti'[w] = Guti(UeOf(c)) /\ amf_imsi'[w] = Imsi(UeOf(c))
        /\ \A v \in Worker : v # w =>
             /\ amf_pc'[v] = amf_pc[v] /\ amf_conn'[v] = amf_conn[v] /\ amf_guti'[v] = amf_guti[v]
             /\ amf_imsi'[v] = amf_imsi[v] /\ amf_id'[v] = amf_id[v]
    BY <1>0, <1>5, LocalsSet, PcSet
  <1>7. AmfOnly(w, c)
    BY <1>0, <1>2, <1>4, <1>6, Calls DEF AmfOnly
  <1>8. /\ \A v \in Worker : v # w => ~ Busy(v, c)'
        /\ upf_ctx' = upf_ctx
    BY <1>7, Alone
  <1>9. NoDown(c)' /\ Busy(w, c)' /\ ran_pc'[c] = "autn"
    BY <1>0, <1>2, <1>4, <1>6 DEF NoDown, Busy
  <1>10. ConnData(c) /\ Bearer(c) /\ KnownAttached
    BY DEF SInv
  <1>11. ConnData(c)'
    BY <1>0, <1>2, <1>4, <1>9, <1>10 DEF ConnData, AcceptData, TransferData, ContextData
  <1>12. WorkerData(w)'
    BY <1>2, <1>4, <1>6 DEF WorkerData, WorkerLocals, WorkerCall
  <1>13. ~ Held(c)' /\ ~ Held(c)
    BY <1>2, <1>9 DEF Held
  <1>14. Bearer(c)'
    BY <1>2, <1>4, <1>6, <1>8, <1>10, <1>13 DEF Bearer, Leaving, Done
  <1>15. ~ ue_ctx'[Guti(UeOf(c))].known
    BY <1>2, <1>4, <1>10 DEF KnownAttached, Attached
  <1>16. Uses(c, id)'
    BY <1>6, <1>9 DEF Uses
  <1>17. \A i \in MmeId : i # id => s1amf_id'[i] = s1amf_id[i]
    BY <1>0, <1>5 DEF TypeOK, AmfTypeOK
  <1> QED BY <1>2, <1>7, <1>11, <1>12, <1>13, <1>14, <1>15, <1>16, <1>17, AmfRest

LEMMA AttachInitSession ==
    ASSUME SInv, IdInv', MaxRuns = 1, NEW w \in Worker, AmfStep(w), AttachInit(w)
    PROVE  SInv'
PROOF
  <1>0. TypeOK /\ UNCHANGED <<ranVars, ran_pc, ran_ctx, rounds, uplink_info, smf_ctx, upfVars>>
    BY DEF SInv, IdInv, AmfStep, ranVars, smfVars
  <1>1. PICK c : c = amf_conn[w]
    OBVIOUS
  <1>2. amf_pc[w] = "attach_init"
    BY DEF AttachInit
  <1>3. /\ c \in Conn /\ Busy(w, c) /\ owner[c] = w
        /\ \A v \in Worker : v # w => ~ Busy(v, c)
        /\ amf_guti[w] = Guti(UeOf(c))
        /\ WorkerLocals(w) /\ WorkerCall(w)
        /\ NoUp(c) /\ NoDown(c) /\ ran_pc[c] = "autn"
        /\ \A i \in MmeId : Uses(c, i) => i = amf_id[w]
    BY <1>1, <1>2, WorkerAt
  <1>4. rpc[w] = NoCall /\ amf_imsi[w] = Imsi(UeOf(c))
    BY <1>1, <1>2, <1>3 DEF WorkerLocals, WorkerCall
  <1>5. /\ UNCHANGED <<up, down, calls, n4req, n4rsp, exited, s1amf_id>>
        /\ UNCHANGED <<amf_conn, amf_guti, amf_imsi, amf_id>>
        /\ Await(w, "attach_autn", Call("autn", 0, Imsi(UeOf(c)), 0))
    BY <1>4 DEF AttachInit, amfLocals
  <1>6. /\ amf_pc'[w] = "attach_autn" /\ rpc'[w] = Call("autn", 0, Imsi(UeOf(c)), 0)
        /\ \A v \in Worker : v # w => amf_pc'[v] = amf_pc[v] /\ rpc'[v] = rpc[v]
    BY <1>0, <1>5, AwaitSet
  <1>7. PICK x : /\ x = [Touch(ue_ctx[Guti(UeOf(c))]) EXCEPT !.imsi = Imsi(UeOf(c)), !.mme_id = amf_id[w]]
                 /\ ue_ctx' = [ue_ctx EXCEPT ![Guti(UeOf(c))] = x]
    BY <1>0, <1>3, <1>4, Keys DEF AttachInit, TypeOK, AmfTypeOK
  <1>8. x.imsi = Imsi(UeOf(c)) /\ x.ecm_state = ue_ctx[Guti(UeOf(c))].ecm_state
    BY <1>0, <1>3, <1>7, Touched, Keys DEF UeContext
  <1>9. /\ ue_ctx'[Guti(UeOf(c))] = x
        /\ \A d \in Conn : d # c => ue_ctx'[Guti(UeOf(d))] = ue_ctx[Guti(UeOf(d))]
        /\ ue_ctx'[0] = ue_ctx[0]
    BY <1>0, <1>3, <1>7, CtxWritten
  <1>10. AmfOnly(w, c)
    BY <1>0, <1>1, <1>3, <1>4, <1>5, <1>6, <1>9, Calls DEF AmfOnly
  <1>11. /\ \A v \in Worker : v # w => ~ Busy(v, c)'
         /\ upf_ctx' = upf_ctx
    BY <1>3, <1>10, Alone
  <1>12. NoDown(c)' /\ Busy(w, c)' /\ ran_pc'[c] = "autn"
    BY <1>0, <1>1, <1>3, <1>5, <1>6 DEF NoDown, Busy
  <1>13. ConnData(c) /\ Bearer(c)
    BY <1>3 DEF SInv
  <1>14. ConnData(c)'
    BY <1>0, <1>5, <1>12, <1>13 DEF ConnData, UpData, AcceptData, TransferData, ContextData
  <1>15. WorkerData(w)'
    BY <1>1, <1>3, <1>5, <1>6, <1>8, <1>9, Calls DEF WorkerData, WorkerLocals, WorkerCall
  <1>16. ~ Held(c)' /\ ~ Held(c)
    BY <1>3, <1>12 DEF Held
  <1>17. ~ Leaving(c)
    BY <1>2, <1>3 DEF Leaving
  <1>18. Bearer(c)'
    BY <1>6, <1>8, <1>9, <1>11, <1>13, <1>16, <1>17 DEF Bearer, Done
  <1>19. Attached(c)'
    BY <1>6, <1>12 DEF Attached
  <1>20. \A i \in MmeId : Uses(c, i) => Uses(c, i)'
    BY <1>3, <1>5, <1>6, <1>12 DEF Uses
  <1> QED BY <1>3, <1>5, <1>10, <1>14, <1>15, <1>16, <1>18, <1>19, <1>20, AmfRest

LEMMA ChallengeSession ==
    ASSUME SInv, IdInv', MaxRuns = 1, NEW w \in Worker, AmfStep(w), AttachChallenge(w)
    PROVE  SInv'
PROOF
  <1>0. TypeOK /\ IdInv /\ UNCHANGED <<ranVars, ran_pc, ran_ctx, rounds, uplink_info, smf_ctx, upfVars>>
    BY DEF SInv, IdInv, AmfStep, ranVars, smfVars
  <1>1. PICK c : c = amf_conn[w]
    OBVIOUS
  <1>2. amf_pc[w] = "attach_autn" /\ rpc[w].st = "rep"
    BY DEF AttachChallenge, Returned
  <1>3. /\ c \in Conn /\ Busy(w, c) /\ owner[c] = w
        /\ \A v \in Worker : v # w => ~ Busy(v, c)
        /\ amf_guti[w] = Guti(UeOf(c)) /\ amf_id[w] \in MmeId
        /\ WorkerLocals(w) /\ WorkerCall(w)
        /\ NoUp(c) /\ NoDown(c) /\ ran_pc[c] = "autn"
        /\ \A i \in MmeId : Uses(c, i) => i = amf_id[w]
    BY <1>1, <1>2, WorkerAt
  <1>4. ue_ctx[Guti(UeOf(c))].imsi = Imsi(UeOf(c))
    BY <1>1, <1>2, <1>3 DEF WorkerCall
  <1>5. /\ UNCHANGED <<up, calls, n4req, n4rsp, exited, s1amf_id>>
        /\ ServerSnd(c, S1ap(1, amf_id[w])) /\ Return(w)
        /\ ue_ctx' = [ue_ctx EXCEPT ![Guti(UeOf(c))] = Touch(ue_ctx[Guti(UeOf(c))])]
    BY <1>0, <1>1, <1>3, Keys DEF AttachChallenge, TypeOK, AmfTypeOK
  <1>6. /\ amf_pc'[w] = "idle" /\ rpc'[w] = NoCall /\ WorkerData(w)'
        /\ \A v \in Worker : v # w =>
             /\ amf_pc'[v] = amf_pc[v] /\ amf_conn'[v] = amf_conn[v] /\ amf_guti'[v] = amf_guti[v]
             /\ amf_imsi'[v] = amf_imsi[v] /\ amf_id'[v] = amf_id[v] /\ rpc'[v] = rpc[v]
    BY <1>0, <1>5, ReturnSet
  <1>7. /\ S1ap(1, amf_id[w]) \in S1apMsg /\ S1ap(1, amf_id[w]).id = amf_id[w]
    BY <1>3, Headers
  <1>8. /\ \A d \in Conn : d # c => down'[d] = down[d]
        /\ ~ NoDown(c)' /\ down'[c][1].id = amf_id[w]
    BY <1>0, <1>3, <1>5, <1>7, SentDown
  <1>9. /\ ue_ctx'[Guti(UeOf(c))] = Touch(ue_ctx[Guti(UeOf(c))])
        /\ \A d \in Conn : d # c => ue_ctx'[Guti(UeOf(d))] = ue_ctx[Guti(UeOf(d))]
        /\ ue_ctx'[0] = ue_ctx[0]
    BY <1>0, <1>3, <1>5, CtxWritten
  <1>10. /\ ue_ctx'[Guti(UeOf(c))].imsi = Imsi(UeOf(c))
         /\ ue_ctx'[Guti(UeOf(c))].ecm_state = ue_ctx[Guti(UeOf(c))].ecm_state
    BY <1>0, <1>3, <1>4, <1>9, Touched, Keys
  <1>11. AmfOnly(w, c)
    BY <1>0, <1>1, <1>2, <1>3, <1>5, <1>6, <1>8, <1>9, Calls DEF AmfOnly
  <1>12. (\A v \in Worker : ~ Busy(v, c)') /\ ran_pc'[c] = "autn"
    BY <1>0, <1>3, <1>6, <1>11, Alone DEF Busy
  <1>13. ConnData(c) /\ Bearer(c)
    BY <1>3 DEF SInv
  <1>14. ConnData(c)'
    BY <1>0, <1>5, <1>10, <1>12, <1>13 DEF ConnData, UpData, AcceptData, TransferData, ContextData
  <1>15. ~ Held(c)' /\ ~ Held(c)
    BY <1>3, <1>12 DEF Held
  <1>16. ~ Leaving(c)
    BY <1>2, <1>3 DEF Leaving
  <1>17. Bearer(c)'
    BY <1>10, <1>12, <1>13, <1>15, <1>16 DEF Bearer, Done
  <1>18. Attached(c)'
    BY <1>8, <1>12 DEF Attached
  <1>19. \A i \in MmeId : Uses(c, i) => Uses(c, i)'
    BY <1>3, <1>8, <1>12 DEF Uses
  <1> QED BY <1>3, <1>5, <1>6, <1>11, <1>14, <1>15, <1>17, <1>18, <1>19, AmfRest

LEMMA AutnSession ==
    ASSUME SInv, IdInv', MaxRuns = 1, NEW w \in Worker, NEW c \in Conn, AmfStep(w), handle_autn(w, c)
    PROVE  SInv'
PROOF
  <1>0. TypeOK /\ IdInv /\ UNCHANGED <<ranVars, ran_pc, ran_ctx, rounds, uplink_info, smf_ctx, upfVars>>
    BY DEF SInv, IdInv, AmfStep, ranVars, smfVars
  <1>1. Serve(w, c, 2)
    BY DEF handle_autn
  <1>2. PICK id : id = up[c][1].id
    OBVIOUS
  <1>3. /\ owner[c] = w /\ amf_pc[w] = "idle" /\ rpc[w] = NoCall
        /\ \A v \in Worker : ~ Busy(v, c)
        /\ NoDown(c) /\ UpData(c)' /\ Head(up[c]) = up[c][1] /\ id = ran_ctx[c].mme_id
        /\ s1amf_id[id] = Guti(UeOf(c)) /\ id \in MmeId /\ ran_pc[c] = "security"
        /\ \A d \in Conn : d # c => up'[d] = up[d]
        /\ \A i \in MmeId : Uses(c, i) => i = ran_ctx[c].mme_id
    BY <1>0, <1>1, <1>2, ServesData
  <1>4. /\ UNCHANGED <<amf_pc, amf_conn, amf_guti, amf_imsi, amf_id, rpc, exited>>
        /\ UNCHANGED <<s1amf_id, calls, n4req, n4rsp>>
        /\ ServerSnd(c, S1ap(2, id))
        /\ ue_ctx' = [ue_ctx EXCEPT ![Guti(UeOf(c))] = Touch(ue_ctx[Guti(UeOf(c))])]
    <2>1. Guti(UeOf(c)) # 0 /\ Guti(UeOf(c)) \in GutiSet /\ ue_ctx \in [GutiSet -> UeContext]
      BY <1>0, Keys DEF TypeOK, AmfTypeOK
    <2>2. s1amf_id[Head(up[c]).id] = Guti(UeOf(c)) /\ Head(up[c]).id = id
      BY <1>2, <1>3
    <2> QED BY <2>1, <2>2 DEF handle_autn, amfLocals
  <1>5. S1ap(2, id) \in S1apMsg
    BY <1>3, Headers
  <1>6. \A d \in Conn : d # c => down'[d] = down[d]
    BY <1>0, <1>3, <1>4, <1>5, SentDown
  <1>7. /\ ue_ctx'[Guti(UeOf(c))] = Touch(ue_ctx[Guti(UeOf(c))])
        /\ \A d \in Conn : d # c => ue_ctx'[Guti(UeOf(d))] = ue_ctx[Guti(UeOf(d))]
        /\ ue_ctx'[0] = ue_ctx[0]
    BY <1>0, <1>4, CtxWritten
  <1>8. /\ ue_ctx'[Guti(UeOf(c))].imsi = ue_ctx[Guti(UeOf(c))].imsi
        /\ ue_ctx'[Guti(UeOf(c))].ecm_state = ue_ctx[Guti(UeOf(c))].ecm_state
    BY <1>0, <1>7, Touched, Keys
  <1>9. AmfOnly(w, c)
    BY <1>0, <1>3, <1>4, <1>6, <1>7, Calls DEF AmfOnly
  <1>10. (\A v \in Worker : ~ Busy(v, c)') /\ ran_pc'[c] = "security"
    BY <1>0, <1>3, <1>4 DEF Busy
  <1>11. ConnData(c) /\ Bearer(c) /\ WorkerData(w)
    BY DEF SInv
  <1>12. ConnData(c)'
    BY <1>0, <1>3, <1>8, <1>10, <1>11 DEF ConnData, AcceptData, TransferData, ContextData
  <1>13. WorkerData(w)'
    BY <1>3, <1>4, <1>11, WorkerDataSame
  <1>14. ~ Held(c)' /\ ~ Held(c)
    BY <1>3, <1>10 DEF Held
  <1>15. ~ Leaving(c)
    BY <1>3 DEF Leaving
  <1>16. Bearer(c)'
    BY <1>8, <1>10, <1>11, <1>14, <1>15 DEF Bearer, Done
  <1>17. Attached(c)'
    BY <1>10 DEF Attached
  <1>18. \A i \in MmeId : Uses(c, i) => Uses(c, i)'
    BY <1>0, <1>3, <1>10 DEF Uses
  <1> QED BY <1>4, <1>9, <1>12, <1>13, <1>14, <1>16, <1>17, <1>18, AmfRest

LEMMA SecurityModeSession ==
    ASSUME SInv, IdInv', MaxRuns = 1, NEW w \in Worker, NEW c \in Conn, AmfStep(w),
           handle_security_mode_complete(w, c)
    PROVE  SInv'
PROOF
  <1>0. TypeOK /\ IdInv /\ UNCHANGED <<ranVars, ran_pc, ran_ctx, rounds, uplink_info, smf_ctx, upfVars>>
    BY DEF SInv, IdInv, AmfStep, ranVars, smfVars
  <1>1. Serve(w, c, 3)
    BY DEF handle_security_mode_complete
  <1>2. PICK id : id = up[c][1].id
    OBVIOUS
  <1>3. /\ owner[c] = w /\ amf_pc[w] = "idle" /\ rpc[w] = NoCall
        /\ \A v \in Worker : ~ Busy(v, c)
        /\ NoDown(c) /\ UpData(c)' /\ Head(up[c]) = up[c][1] /\ id = ran_ctx[c].mme_id
        /\ s1amf_id[id] = Guti(UeOf(c)) /\ id \in MmeId /\ ran_pc[c] = "session"
        /\ \A d \in Conn : d # c => up'[d] = up[d]
        /\ \A i \in MmeId : Uses(c, i) => i = ran_ctx[c].mme_id
    BY <1>0, <1>1, <1>2, ServesData
  <1>4. ConnData(c) /\ Bearer(c)
    BY DEF SInv
  <1>5. ue_ctx[Guti(UeOf(c))].imsi = Imsi(UeOf(c))
    BY <1>3, <1>4 DEF ConnData, ContextData
  <1>6. /\ UNCHANGED <<down, exited, s1amf_id, calls, n4req, n4rsp>>
        /\ Locals(w, c, id, Guti(UeOf(c)), 0)
        /\ Await(w, "location", Call("loc", 0, Imsi(UeOf(c)), 0))
        /\ ue_ctx' = [ue_ctx EXCEPT ![Guti(UeOf(c))] = Touch(ue_ctx[Guti(UeOf(c))])]
    <2>1. Guti(UeOf(c)) # 0 /\ Guti(UeOf(c)) \in GutiSet /\ ue_ctx \in [GutiSet -> UeContext]
      BY <1>0, Keys DEF TypeOK, AmfTypeOK
    <2>2. s1amf_id[Head(up[c]).id] = Guti(UeOf(c)) /\ Head(up[c]).id = id
      BY <1>2, <1>3
    <2> QED BY <1>5, <2>1, <2>2 DEF handle_security_mode_complete
  <1>7. /\ amf_pc'[w] = "location" /\ rpc'[w] = Call("loc", 0, Imsi(UeOf(c)), 0)
        /\ amf_conn'[w] = c /\ amf_id'[w] = id /\ amf_guti'[w] = Guti(UeOf(c))
        /\ \A v \in Worker : v # w =>
             /\ amf_pc'[v] = amf_pc[v] /\ amf_conn'[v] = amf_conn[v] /\ amf_guti'[v] = amf_guti[v]
             /\ amf_imsi'[v] = amf_imsi[v] /\ amf_id'[v] = amf_id[v] /\ rpc'[v] = rpc[v]
    BY <1>0, <1>6, LocalsSet, AwaitSet
  <1>8. /\ ue_ctx'[Guti(UeOf(c))] = Touch(ue_ctx[Guti(UeOf(c))])
        /\ \A d \in Conn : d # c => ue_ctx'[Guti(UeOf(d))] = ue_ctx[Guti(UeOf(d))]
        /\ ue_ctx'[0] = ue_ctx[0]
    BY <1>0, <1>6, CtxWritten
  <1>9. /\ ue_ctx'[Guti(UeOf(c))].imsi = ue_ctx[Guti(UeOf(c))].imsi
        /\ ue_ctx'[Guti(UeOf(c))].ul = ue_ctx[Guti(UeOf(c))].ul
        /\ ue_ctx'[Guti(UeOf(c))].ecm_state = ue_ctx[Guti(UeOf(c))].ecm_state
    BY <1>0, <1>8, Touched, Keys
  <1>10. AmfOnly(w, c)
    BY <1>0, <1>3, <1>6, <1>7, <1>8, Calls DEF AmfOnly
  <1>11. /\ \A v \in Worker : v # w => ~ Busy(v, c)'
         /\ Busy(w, c)' /\ NoDown(c)' /\ ran_pc'[c] = "session"
    BY <1>0, <1>3, <1>6, <1>7, <1>10, Alone DEF Busy, NoDown
  <1>12. ConnData(c)'
    BY <1>0, <1>3, <1>4, <1>5, <1>9, <1>11 DEF ConnData, AcceptData, TransferData, ContextData
  <1>13. WorkerData(w)'
    BY <1>0, <1>3, <1>7, Calls DEF WorkerData, WorkerLocals, WorkerCall
  <1>14. ~ Held(c)' /\ ~ Held(c)
    BY <1>3, <1>7, <1>11 DEF Held, Done
  <1>15. ~ Leaving(c)
    BY <1>3 DEF Leaving
  <1>16. Bearer(c)'
    BY <1>4, <1>7, <1>9, <1>11, <1>14, <1>15 DEF Bearer, Done
  <1>17. Attached(c)'
    BY <1>11 DEF Attached
  <1>18. \A i \in MmeId : Uses(c, i) => Uses(c, i)'
    BY <1>0, <1>3, <1>11 DEF Uses
  <1> QED BY <1>6, <1>10, <1>12, <1>13, <1>14, <1>16, <1>17, <1>18, AmfRest

LEMMA CreateSessionSession ==
    ASSUME SInv, IdInv', MaxRuns = 1, NEW w \in Worker, AmfStep(w), handle_create_session(w)
    PROVE  SInv'
PROOF
  <1>0. TypeOK /\ IdInv /\ UNCHANGED <<ranVars, ran_pc, ran_ctx, rounds, uplink_info, smf_ctx, upfVars>>
    BY DEF SInv, IdInv, AmfStep, ranVars, smfVars
  <1>1. PICK c : c = amf_conn[w]
    OBVIOUS
  <1>2. amf_pc[w] = "location" /\ rpc[w].st = "rep"
    BY DEF handle_create_session, Returned
  <1>3. /\ c \in Conn /\ Busy(w, c) /\ owner[c] = w
        /\ \A v \in Worker : v # w => ~ Busy(v, c)
        /\ s1amf_id[amf_id[w]] = Guti(UeOf(c)) /\ amf_id[w] = ran_ctx[c].mme_id
        /\ NoUp(c) /\ NoDown(c) /\ ran_pc[c] = "session"
        /\ \A i \in MmeId : Uses(c, i) => i = ran_ctx[c].mme_id
    BY <1>1, <1>2, WorkerAt DEF WorkerLocals
  <1>4. ConnData(c) /\ Bearer(c)
    BY <1>3 DEF SInv
  <1>5. ue_ctx[Guti(UeOf(c))].imsi = Imsi(UeOf(c))
    BY <1>3, <1>4 DEF ConnData, ContextData
  <1>6. /\ UNCHANGED <<up, down, exited, s1amf_id, calls, n4req, n4rsp, amf_conn, amf_id, amf_imsi>>
        /\ amf_guti' = [amf_guti EXCEPT ![w] = Guti(UeOf(c))]
        /\ Await(w, "create", Call("create", Guti(UeOf(c)), Imsi(UeOf(c)), Teid(UeOf(c))))
        /\ ue_ctx' = [ue_ctx EXCEPT ![Guti(UeOf(c))] = Touch(ue_ctx[Guti(UeOf(c))])]
    <2>1. Guti(UeOf(c)) # 0 /\ Guti(UeOf(c)) \in GutiSet /\ ue_ctx \in [GutiSet -> UeContext]
      BY <1>0, <1>3, Keys DEF TypeOK, AmfTypeOK
    <2>2. get_s11cteidamf(Guti(UeOf(c))) = Teid(UeOf(c))
      BY <1>3, Identities, IdentityTypes
    <2> QED BY <1>3, <1>5, <2>1, <2>2 DEF handle_create_session
  <1>7. /\ amf_pc'[w] = "create"
        /\ rpc'[w] = Call("create", Guti(UeOf(c)), Imsi(UeOf(c)), Teid(UeOf(c)))
        /\ amf_conn'[w] = c /\ amf_id'[w] = amf_id[w] /\ amf_guti'[w] = Guti(UeOf(c))
        /\ \A v \in Worker : v # w =>
             /\ amf_pc'[v] = amf_pc[v] /\ amf_conn'[v] = amf_conn[v] /\ amf_guti'[v] = amf_guti[v]
             /\ amf_imsi'[v] = amf_imsi[v] /\ amf_id'[v] = amf_id[v] /\ rpc'[v] = rpc[v]
    <2>1. amf_guti \in [Worker -> GutiSet]
      BY <1>0 DEF TypeOK, AmfTypeOK
    <2> QED BY <1>0, <1>1, <1>6, <2>1, AwaitSet
  <1>8. /\ ue_ctx'[Guti(UeOf(c))] = Touch(ue_ctx[Guti(UeOf(c))])
        /\ \A d \in Conn : d # c => ue_ctx'[Guti(UeOf(d))] = ue_ctx[Guti(UeOf(d))]
        /\ ue_ctx'[0] = ue_ctx[0]
    BY <1>0, <1>3, <1>6, CtxWritten
  <1>9. /\ ue_ctx'[Guti(UeOf(c))].imsi = ue_ctx[Guti(UeOf(c))].imsi
        /\ ue_ctx'[Guti(UeOf(c))].ul = ue_ctx[Guti(UeOf(c))].ul
        /\ ue_ctx'[Guti(UeOf(c))].ecm_state = ue_ctx[Guti(UeOf(c))].ecm_state
    BY <1>0, <1>3, <1>8, Touched, Keys
  <1>10. AmfOnly(w, c)
    BY <1>0, <1>1, <1>2, <1>3, <1>6, <1>7, <1>8, Calls DEF AmfOnly
  <1>11. /\ \A v \in Worker : v # w => ~ Busy(v, c)'
         /\ Busy(w, c)' /\ NoDown(c)' /\ ran_pc'[c] = "session" /\ ~ Replied(SockOf(w))'
    BY <1>0, <1>3, <1>6, <1>7, <1>10, Alone DEF Busy, NoDown
  <1>12. ConnData(c)'
    BY <1>0, <1>4, <1>5, <1>6, <1>9, <1>11 DEF ConnData, UpData, AcceptData, TransferData, ContextData
  <1>13. WorkerData(w)'
    BY <1>0, <1>3, <1>7, Calls DEF WorkerData, WorkerLocals, WorkerCall
  <1>14. ~ Answered(w)'
    BY <1>7, <1>11, Calls DEF Answered
  <1>15. ~ Held(c)' /\ ~ Held(c)
    BY <1>2, <1>3, <1>11, <1>14 DEF Held, Done
  <1>16. ~ Leaving(c)
    BY <1>2, <1>3 DEF Leaving
  <1>17. Bearer(c)'
    BY <1>4, <1>7, <1>9, <1>11, <1>15, <1>16 DEF Bearer, Done
  <1>18. Attached(c)'
    BY <1>11 DEF Attached
  <1>19. \A i \in MmeId : Uses(c, i) => Uses(c, i)'
    BY <1>0, <1>3, <1>11 DEF Uses
  <1> QED BY <1>3, <1>6, <1>10, <1>12, <1>13, <1>15, <1>17, <1>18, <1>19, AmfRest

LEMMA AcceptedSession ==
    ASSUME SInv, IdInv', MaxRuns = 1, NEW w \in Worker, AmfStep(w), SessionAccept(w)
    PROVE  SInv'
PROOF
  <1>0. TypeOK /\ IdInv /\ UNCHANGED <<ranVars, ran_pc, ran_ctx, rounds, uplink_info, smf_ctx, upfVars>>
    BY DEF SInv, IdInv, AmfStep, ranVars, smfVars
  <1>1. PICK c : c = amf_conn[w]
    OBVIOUS
  <1>2. amf_pc[w] = "create" /\ rpc[w].st = "rep"
    BY DEF SessionAccept, Returned
  <1>3. /\ c \in Conn /\ Busy(w, c) /\ owner[c] = w
        /\ \A v \in Worker : v # w => ~ Busy(v, c)
        /\ amf_id[w] \in MmeId /\ WorkerCall(w)
        /\ NoUp(c) /\ NoDown(c) /\ ran_pc[c] = "session"
        /\ \A i \in MmeId : Uses(c, i) => i = ran_ctx[c].mme_id
    BY <1>1, <1>2, WorkerAt
  <1>4. ConnData(c) /\ Bearer(c)
    BY <1>3 DEF SInv
  <1>5. /\ rpc[w].guti = Guti(UeOf(c)) /\ rpc[w].ul = Teid(UeOf(c)) /\ rpc[w].ip = Imsi(UeOf(c))
        /\ smf_ctx[Guti(UeOf(c))].sgw = Teid(UeOf(c))
        /\ rpc[w].teid = Teid(UeOf(c))
    BY <1>1, <1>2, <1>3 DEF WorkerCall
  <1>6. PICK m : m = [S1ap(3, amf_id[w]) EXCEPT !.guti = Guti(UeOf(c)), !.teid = Teid(UeOf(c)),
                                               !.ip = Imsi(UeOf(c))]
    OBVIOUS
  <1>7. PICK x : x = [Touch(ue_ctx[Guti(UeOf(c))]) EXCEPT !.upf = Teid(UeOf(c)), !.ul = Teid(UeOf(c))]
    OBVIOUS
  <1>8. /\ UNCHANGED <<up, exited, s1amf_id, calls, n4req, n4rsp>>
        /\ ServerSnd(c, m) /\ Return(w)
        /\ ue_ctx' = [ue_ctx EXCEPT ![Guti(UeOf(c))] = x]
    <2>1. Guti(UeOf(c)) \in GutiSet /\ ue_ctx \in [GutiSet -> UeContext]
      BY <1>0, <1>3, Keys DEF TypeOK, AmfTypeOK
    <2> QED BY <1>1, <1>5, <1>6, <1>7, <2>1 DEF SessionAccept
  <1>9. m \in S1apMsg /\ m.guti = Guti(UeOf(c)) /\ m.teid = Teid(UeOf(c)) /\ m.ip = Imsi(UeOf(c))
    <2>1. S1ap(3, amf_id[w]) \in S1apMsg
      BY <1>3, Headers
    <2> QED BY <1>3, <1>6, <2>1, Keys DEF S1apMsg
  <1>10. /\ x.imsi = ue_ctx[Guti(UeOf(c))].imsi /\ x.ul = Teid(UeOf(c))
         /\ x.ecm_state = ue_ctx[Guti(UeOf(c))].ecm_state
    BY <1>0, <1>3, <1>7, Touched, Keys DEF UeContext
  <1>11. /\ amf_pc'[w] = "idle" /\ rpc'[w] = NoCall /\ WorkerData(w)'
        /\ \A v \in Worker : v # w =>
             /\ amf_pc'[v] = amf_pc[v] /\ amf_conn'[v] = amf_conn[v] /\ amf_guti'[v] = amf_guti[v]
             /\ amf_imsi'[v] = amf_imsi[v] /\ amf_id'[v] = amf_id[v] /\ rpc'[v] = rpc[v]
    BY <1>0, <1>8, ReturnSet
  <1>12. /\ \A d \in Conn : d # c => down'[d] = down[d]
         /\ ~ NoDown(c)' /\ down'[c][1] = m
    BY <1>0, <1>3, <1>8, <1>9, SentDown
  <1>13. /\ ue_ctx'[Guti(UeOf(c))] = x
         /\ \A d \in Conn : d # c => ue_ctx'[Guti(UeOf(d))] = ue_ctx[Guti(UeOf(d))]
         /\ ue_ctx'[0] = ue_ctx[0]
    BY <1>0, <1>3, <1>8, CtxWritten
  <1>14. AmfOnly(w, c)
    BY <1>0, <1>1, <1>2, <1>3, <1>8, <1>11, <1>12, <1>13, Calls DEF AmfOnly
  <1>15. (\A v \in Worker : ~ Busy(v, c)') /\ ran_pc'[c] = "session" /\ upf_ctx' = upf_ctx
    BY <1>0, <1>3, <1>11, <1>14, Alone DEF Busy
  <1>16. ConnData(c)'
    <2>1. UpData(c)' /\ TransferData(c)' /\ ContextData(c)'
      BY <1>0, <1>3, <1>4, <1>8, <1>10, <1>13, <1>15
         DEF ConnData, UpData, TransferData, ContextData
    <2>2. AcceptData(c)'
      BY <1>0, <1>5, <1>9, <1>10, <1>12, <1>13 DEF AcceptData
    <2> QED BY <1>0, <1>4, <2>1, <2>2 DEF ConnData
  <1>17. Held(c)' /\ Held(c)
    BY <1>2, <1>3, <1>12, <1>15 DEF Held, Done, Answered
  <1>18. ~ Leaving(c)
    BY <1>2, <1>3 DEF Leaving
  <1>19. Bearer(c)'
    BY <1>4, <1>10, <1>13, <1>15, <1>17, <1>18 DEF Bearer, Done
  <1>20. Attached(c)'
    BY <1>15 DEF Attached
  <1>21. \A i \in MmeId : Uses(c, i) => Uses(c, i)'
    BY <1>0, <1>3, <1>15 DEF Uses
  <1> QED BY <1>3, <1>8, <1>11, <1>14, <1>16, <1>17, <1>19, <1>20, <1>21, AmfRest

LEMMA AttachCompleteSession ==
    ASSUME SInv, IdInv', MaxRuns = 1, NEW w \in Worker, NEW c \in Conn, AmfStep(w),
           handle_attach_complete(w, c)
    PROVE  SInv'
PROOF
  <1>0. TypeOK /\ IdInv /\ UNCHANGED <<ranVars, ran_pc, ran_ctx, rounds, uplink_info, smf_ctx, upfVars>>
    BY DEF SInv, IdInv, AmfStep, ranVars, smfVars
  <1>1. Serve(w, c, 4)
    BY DEF handle_attach_complete
  <1>2. PICK m : m = up[c][1]
    OBVIOUS
  <1>3. /\ owner[c] = w /\ amf_pc[w] = "idle" /\ rpc[w] = NoCall
        /\ \A v \in Worker : ~ Busy(v, c)
        /\ NoDown(c) /\ UpData(c)' /\ Head(up[c]) = m /\ m.id = ran_ctx[c].mme_id
        /\ s1amf_id[m.id] = Guti(UeOf(c)) /\ m.id \in MmeId /\ m \in S1apMsg
        /\ ran_pc[c] \in {"data", "detach"}
        /\ \A d \in Conn : d # c => up'[d] = up[d]
        /\ \A i \in MmeId : Uses(c, i) => i = ran_ctx[c].mme_id
    BY <1>0, <1>1, <1>2, ServesData
  <1>4. ConnData(c) /\ Bearer(c)
    BY DEF SInv
  <1>5. PICK x : x = [Touch(ue_ctx[Guti(UeOf(c))]) EXCEPT !.dl = m.teid, !.emm_state = 1]
    OBVIOUS
  <1>6. /\ UNCHANGED <<down, exited, rpc, s1amf_id, calls, n4req, n4rsp>>
        /\ Locals(w, c, m.id, Guti(UeOf(c)), 0) /\ Goto(w, "bearer")
        /\ ue_ctx' = [ue_ctx EXCEPT ![Guti(UeOf(c))] = x]
    <2>1. Guti(UeOf(c)) # 0 /\ Guti(UeOf(c)) \in GutiSet /\ ue_ctx \in [GutiSet -> UeContext]
      BY <1>0, Keys DEF TypeOK, AmfTypeOK
    <2>2. s1amf_id[Head(up[c]).id] = Guti(UeOf(c)) /\ Head(up[c]) = m
      BY <1>3
    <2> QED BY <1>5, <2>1, <2>2 DEF handle_attach_complete
  <1>7. /\ amf_pc'[w] = "bearer" /\ rpc'[w] = NoCall
        /\ amf_conn'[w] = c /\ amf_id'[w] = m.id /\ amf_guti'[w] = Guti(UeOf(c))
        /\ \A v \in Worker : v # w =>
             /\ amf_pc'[v] = amf_pc[v] /\ amf_conn'[v] = amf_conn[v] /\ amf_guti'[v] = amf_guti[v]
             /\ amf_imsi'[v] = amf_imsi[v] /\ amf_id'[v] = amf_id[v] /\ rpc'[v] = rpc[v]
    BY <1>0, <1>3, <1>6, LocalsSet, PcSet
  <1>8. /\ ue_ctx'[Guti(UeOf(c))] = x
        /\ \A d \in Conn : d # c => ue_ctx'[Guti(UeOf(d))] = ue_ctx[Guti(UeOf(d))]
        /\ ue_ctx'[0] = ue_ctx[0]
    BY <1>0, <1>6, CtxWritten
  <1>9. /\ x.imsi = ue_ctx[Guti(UeOf(c))].imsi /\ x.ul = ue_ctx[Guti(UeOf(c))].ul
        /\ x.ecm_state = ue_ctx[Guti(UeOf(c))].ecm_state
    BY <1>0, <1>5, Touched, Keys DEF UeContext
  <1>10. AmfOnly(w, c)
    BY <1>0, <1>3, <1>6, <1>7, <1>8, Calls DEF AmfOnly
  <1>11. /\ \A v \in Worker : v # w => ~ Busy(v, c)'
         /\ Busy(w, c)' /\ NoDown(c)' /\ ran_pc'[c] = ran_pc[c] /\ upf_ctx' = upf_ctx
    BY <1>0, <1>3, <1>6, <1>7, <1>10, Alone DEF Busy, NoDown
  <1>12. ConnData(c)'
    BY <1>0, <1>3, <1>4, <1>8, <1>9, <1>11 DEF ConnData, AcceptData, TransferData, ContextData
  <1>13. WorkerData(w)'
    BY <1>0, <1>3, <1>7 DEF WorkerData, WorkerLocals, WorkerCall
  <1>14. Held(c)' /\ Held(c)
    BY <1>3, <1>7, <1>11 DEF Held, Done
  <1>15. ~ Leaving(c)
    BY <1>3 DEF Leaving
  <1>16. Bearer(c)'
    BY <1>4, <1>7, <1>8, <1>9, <1>11, <1>14, <1>15 DEF Bearer, Done
  <1>17. Attached(c)'
    BY <1>3, <1>11 DEF Attached
  <1>18. \A i \in MmeId : Uses(c, i) => Uses(c, i)'
    BY <1>3, <1>7, <1>11 DEF Uses
  <1> QED BY <1>6, <1>10, <1>12, <1>13, <1>14, <1>16, <1>17, <1>18, AmfRest

LEMMA ModifyBearerSession ==
    ASSUME SInv, IdInv', MaxRuns = 1, NEW w \in Worker, AmfStep(w), handle_modify_bearer(w)
    PROVE  SInv'
PROOF
  <1>0. TypeOK /\ IdInv /\ UNCHANGED <<ranVars, ran_pc, ran_ctx, rounds, uplink_info, smf_ctx, upfVars>>
    BY DEF SInv, IdInv, AmfStep, ranVars, smfVars
  <1>1. PICK c : c = amf_conn[w]
    OBVIOUS
  <1>2. amf_pc[w] = "bearer"
    BY DEF handle_modify_bearer
  <1>3. /\ c \in Conn /\ Busy(w, c) /\ owner[c] = w
        /\ \A v \in Worker : v # w => ~ Busy(v, c)
        /\ s1amf_id[amf_id[w]] = Guti(UeOf(c)) /\ amf_id[w] = ran_ctx[c].mme_id
        /\ rpc[w] = NoCall
        /\ NoDown(c) /\ ran_pc[c] \in {"data", "detach"}
        /\ \A i \in MmeId : Uses(c, i) => i = amf_id[w]
    BY <1>1, <1>2, WorkerAt DEF WorkerLocals, WorkerCall
  <1>4. ConnData(c) /\ Bearer(c)
    BY <1>3 DEF SInv
  <1>5. PICK call : call = Call("modify", Guti(UeOf(c)), 0, ue_ctx[Guti(UeOf(c))].dl)
    OBVIOUS
  <1>6. /\ UNCHANGED <<up, down, exited, s1amf_id, calls, n4req, n4rsp, amf_conn, amf_id, amf_imsi>>
        /\ amf_guti' = [amf_guti EXCEPT ![w] = Guti(UeOf(c))]
        /\ Await(w, "modify", call)
        /\ ue_ctx' = [ue_ctx EXCEPT ![Guti(UeOf(c))] = Touch(ue_ctx[Guti(UeOf(c))])]
    <2>1. Guti(UeOf(c)) # 0 /\ Guti(UeOf(c)) \in GutiSet /\ ue_ctx \in [GutiSet -> UeContext]
      BY <1>0, <1>3, Keys DEF TypeOK, AmfTypeOK
    <2> QED BY <1>3, <1>5, <2>1 DEF handle_modify_bearer
  <1>7. /\ amf_pc'[w] = "modify" /\ rpc'[w] = call
        /\ amf_conn'[w] = c /\ amf_id'[w] = amf_id[w] /\ amf_guti'[w] = Guti(UeOf(c))
        /\ \A v \in Worker : v # w =>
             /\ amf_pc'[v] = amf_pc[v] /\ amf_conn'[v] = amf_conn[v] /\ amf_guti'[v] = amf_guti[v]
             /\ amf_imsi'[v] = amf_imsi[v] /\ amf_id'[v] = amf_id[v] /\ rpc'[v] = rpc[v]
    <2>1. amf_guti \in [Worker -> GutiSet]
      BY <1>0 DEF TypeOK, AmfTypeOK
    <2> QED BY <1>0, <1>1, <1>6, <2>1, AwaitSet
  <1>8. /\ ue_ctx'[Guti(UeOf(c))] = Touch(ue_ctx[Guti(UeOf(c))])
        /\ \A d \in Conn : d # c => ue_ctx'[Guti(UeOf(d))] = ue_ctx[Guti(UeOf(d))]
        /\ ue_ctx'[0] = ue_ctx[0]
    BY <1>0, <1>3, <1>6, CtxWritten
  <1>9. /\ ue_ctx'[Guti(UeOf(c))].imsi = ue_ctx[Guti(UeOf(c))].imsi
        /\ ue_ctx'[Guti(UeOf(c))].ul = ue_ctx[Guti(UeOf(c))].ul
        /\ ue_ctx'[Guti(UeOf(c))].ecm_state = ue_ctx[Guti(UeOf(c))].ecm_state
    BY <1>0, <1>3, <1>8, Touched, Keys
  <1>10. call.st = "req" /\ call.op = "modify" /\ call.guti = Guti(UeOf(c))
    BY <1>5, Calls
  <1>11. AmfOnly(w, c)
    BY <1>0, <1>1, <1>3, <1>6, <1>7, <1>8, <1>10, Calls DEF AmfOnly
  <1>12. /\ \A v \in Worker : v # w => ~ Busy(v, c)'
         /\ Busy(w, c)' /\ NoDown(c)' /\ ran_pc'[c] = ran_pc[c] /\ ~ Replied(SockOf(w))'
         /\ upf_ctx' = upf_ctx
    BY <1>0, <1>3, <1>6, <1>7, <1>11, Alone DEF Busy, NoDown
  <1>13. ConnData(c)'
    BY <1>0, <1>3, <1>4, <1>6, <1>9, <1>12 DEF ConnData, UpData, AcceptData, TransferData, ContextData
  <1>14. WorkerData(w)'
    BY <1>0, <1>3, <1>7, <1>10 DEF WorkerData, WorkerLocals, WorkerCall
  <1>15. ~ Answered(w)'
    BY <1>7, <1>10, <1>12 DEF Answered
  <1>16. Held(c)' /\ Held(c)
    BY <1>2, <1>3, <1>7, <1>12 DEF Held, Done
  <1>17. ~ Leaving(c)
    BY <1>2, <1>3 DEF Leaving
  <1>18. Bearer(c)'
    BY <1>4, <1>9, <1>12, <1>15, <1>16, <1>17 DEF Bearer, Done
  <1>19. Attached(c)'
    BY <1>3, <1>12 DEF Attached
  <1>20. \A i \in MmeId : Uses(c, i) => Uses(c, i)'
    BY <1>3, <1>7, <1>12 DEF Uses
  <1> QED BY <1>3, <1>6, <1>11, <1>13, <1>14, <1>16, <1>18, <1>19, <1>20, AmfRest

LEMMA ModifiedSession ==
    ASSUME SInv, IdInv', MaxRuns = 1, NEW w \in Worker, AmfStep(w), BearerModified(w)
    PROVE  SInv'
PROOF
  <1>0. TypeOK /\ IdInv /\ UNCHANGED <<ranVars, ran_pc, ran_ctx, rounds, uplink_info, smf_ctx, upfVars>>
    BY DEF SInv, IdInv, AmfStep, ranVars, smfVars
  <1>1. PICK c : c = amf_conn[w]
    OBVIOUS
  <1>2. amf_pc[w] = "modify" /\ rpc[w].st = "rep"
    BY DEF BearerModified, Returned
  <1>3. /\ c \in Conn /\ Busy(w, c) /\ owner[c] = w
        /\ \A v \in Worker : v # w => ~ Busy(v, c)
        /\ amf_guti[w] = Guti(UeOf(c)) /\ amf_id[w] = ran_ctx[c].mme_id /\ rpc[w].res
        /\ NoDown(c)
        /\ (ran_pc[c] = "data" /\ NoUp(c)) \/ (ran_pc[c] = "detach" /\ OneUp(c, 5))
        /\ \A i \in MmeId : Uses(c, i) => i = ran_ctx[c].mme_id
    BY <1>1, <1>2, WorkerAt DEF WorkerLocals, WorkerCall
  <1>4. ConnData(c) /\ Bearer(c)
    BY <1>3 DEF SInv
  <1>5. PICK x : x = [Touch(ue_ctx[Guti(UeOf(c))]) EXCEPT !.ecm_state = 1]
    OBVIOUS
  <1>6. /\ UNCHANGED <<up, down, exited, s1amf_id, calls, n4req, n4rsp>>
        /\ Return(w)
        /\ ue_ctx' = [ue_ctx EXCEPT ![Guti(UeOf(c))] = x]
    <2>1. Guti(UeOf(c)) \in GutiSet /\ ue_ctx \in [GutiSet -> UeContext]
      BY <1>0, <1>3, Keys DEF TypeOK, AmfTypeOK
    <2> QED BY <1>3, <1>5, <2>1 DEF BearerModified
  <1>7. /\ amf_pc'[w] = "idle" /\ rpc'[w] = NoCall /\ WorkerData(w)'
        /\ \A v \in Worker : v # w =>
             /\ amf_pc'[v] = amf_pc[v] /\ amf_conn'[v] = amf_conn[v] /\ amf_guti'[v] = amf_guti[v]
             /\ amf_imsi'[v] = amf_imsi[v] /\ amf_id'[v] = amf_id[v] /\ rpc'[v] = rpc[v]
    BY <1>0, <1>6, ReturnSet
  <1>8. /\ ue_ctx'[Guti(UeOf(c))] = x
        /\ \A d \in Conn : d # c => ue_ctx'[Guti(UeOf(d))] = ue_ctx[Guti(UeOf(d))]
        /\ ue_ctx'[0] = ue_ctx[0]
    BY <1>0, <1>3, <1>6, CtxWritten
  <1>9. x.imsi = ue_ctx[Guti(UeOf(c))].imsi /\ x.ul = ue_ctx[Guti(UeOf(c))].ul
    BY <1>0, <1>3, <1>5, Touched, Keys DEF UeContext
  <1>10. AmfOnly(w, c)
    BY <1>0, <1>1, <1>2, <1>3, <1>6, <1>7, <1>8, Calls DEF AmfOnly
  <1>11. /\ \A v \in Worker : ~ Busy(v, c)'
         /\ NoDown(c)' /\ ran_pc'[c] = ran_pc[c] /\ upf_ctx' = upf_ctx
    BY <1>0, <1>3, <1>6, <1>7, <1>10, Alone DEF Busy, NoDown
  <1>12. ConnData(c)'
    BY <1>0, <1>3, <1>4, <1>6, <1>8, <1>9, <1>11 DEF ConnData, UpData, AcceptData, TransferData, ContextData
  <1>13. Held(c)' /\ Held(c)
    BY <1>2, <1>3, <1>11 DEF Held, Done
  <1>14. Done(c, "modify")
    BY <1>2, <1>3 DEF Done, Answered
  <1>15. Bearer(c)'
    BY <1>4, <1>11, <1>13, <1>14 DEF Bearer, Done
  <1>16. Attached(c)'
    BY <1>3, <1>11 DEF Attached
  <1>17. \A i \in MmeId : Uses(c, i) => Uses(c, i)'
    <2>1. CASE ran_pc[c] = "data"
      BY <1>0, <1>3, <2>1 DEF Uses
    <2>2. CASE OneUp(c, 5)
      <3>1. 1 \in 1 .. Len(up'[c]) /\ up'[c][1].type = 5 /\ up'[c][1].id = ran_ctx[c].mme_id
        BY <1>4, <1>6, <2>2 DEF OneUp, ConnData, UpData
      <3> QED BY <1>3, <3>1 DEF Uses
    <2> QED BY <1>3, <2>1, <2>2
  <1> QED BY <1>3, <1>6, <1>7, <1>10, <1>12, <1>13, <1>15, <1>16, <1>17, AmfRest

LEMMA DetachRequestSession ==
    ASSUME SInv, IdInv', MaxRuns = 1, NEW w \in Worker, NEW c \in Conn, AmfStep(w),
           handle_detach(w, c)
    PROVE  SInv'
PROOF
  <1>0. TypeOK /\ IdInv /\ UNCHANGED <<ranVars, ran_pc, ran_ctx, rounds, uplink_info, smf_ctx, upfVars>>
    BY DEF SInv, IdInv, AmfStep, ranVars, smfVars
  <1>1. Serve(w, c, 5)
    BY DEF handle_detach
  <1>2. PICK m : m = up[c][1]
    OBVIOUS
  <1>3. /\ owner[c] = w /\ amf_pc[w] = "idle" /\ rpc[w] = NoCall
        /\ \A v \in Worker : ~ Busy(v, c)
        /\ NoDown(c) /\ UpData(c)' /\ Head(up[c]) = m /\ m.id = ran_ctx[c].mme_id
        /\ m.guti = Guti(UeOf(c))
        /\ s1amf_id[m.id] = Guti(UeOf(c)) /\ m.id \in MmeId
        /\ ran_pc[c] = "detach"
        /\ \A d \in Conn : d # c => up'[d] = up[d]
        /\ \A i \in MmeId : Uses(c, i) => i = ran_ctx[c].mme_id
    BY <1>0, <1>1, <1>2, ServesData
  <1>4. ConnData(c) /\ Bearer(c)
    BY DEF SInv
  <1>5. /\ UNCHANGED <<down, exited, s1amf_id, calls, n4req, n4rsp>>
        /\ Locals(w, c, m.id, Guti(UeOf(c)), 0)
        /\ Await(w, "detach", Call("detach", Guti(UeOf(c)), 0, 0))
        /\ ue_ctx' = [ue_ctx EXCEPT ![Guti(UeOf(c))] = Touch(ue_ctx[Guti(UeOf(c))])]
    <2>1. Guti(UeOf(c)) # 0 /\ Guti(UeOf(c)) \in GutiSet /\ ue_ctx \in [GutiSet -> UeContext]
      BY <1>0, Keys DEF TypeOK, AmfTypeOK
    <2> QED BY <1>3, <2>1 DEF handle_detach
  <1>6. /\ amf_pc'[w] = "detach" /\ rpc'[w] = Call("detach", Guti(UeOf(c)), 0, 0)
        /\ amf_conn'[w] = c /\ amf_id'[w] = m.id /\ amf_guti'[w] = Guti(UeOf(c))
        /\ \A v \in Worker : v # w =>
             /\ amf_pc'[v] = amf_pc[v] /\ amf_conn'[v] = amf_conn[v] /\ amf_guti'[v] = amf_guti[v]
             /\ amf_imsi'[v] = amf_imsi[v] /\ amf_id'[v] = amf_id[v] /\ rpc'[v] = rpc[v]
    BY <1>0, <1>5, LocalsSet, AwaitSet
  <1>7. /\ ue_ctx'[Guti(UeOf(c))] = Touch(ue_ctx[Guti(UeOf(c))])
        /\ \A d \in Conn : d # c => ue_ctx'[Guti(UeOf(d))] = ue_ctx[Guti(UeOf(d))]
        /\ ue_ctx'[0] = ue_ctx[0]
    BY <1>0, <1>5, CtxWritten
  <1>8. /\ ue_ctx'[Guti(UeOf(c))].imsi = ue_ctx[Guti(UeOf(c))].imsi
        /\ ue_ctx'[Guti(UeOf(c))].ul = ue_ctx[Guti(UeOf(c))].ul
        /\ ue_ctx'[Guti(UeOf(c))].ecm_state = ue_ctx[Guti(UeOf(c))].ecm_state
    BY <1>0, <1>7, Touched, Keys
  <1>9. AmfOnly(w, c)
    BY <1>0, <1>3, <1>5, <1>6, <1>7, Calls DEF AmfOnly
  <1>10. /\ \A v \in Worker : v # w => ~ Busy(v, c)'
         /\ Busy(w, c)' /\ NoDown(c)' /\ ran_pc'[c] = "detach" /\ ~ Replied(SockOf(w))'
    BY <1>0, <1>3, <1>5, <1>6, <1>9, Alone DEF Busy, NoDown
  <1>11. ConnData(c)'
    BY <1>0, <1>3, <1>4, <1>8, <1>10 DEF ConnData, AcceptData, TransferData, ContextData
  <1>12. WorkerData(w)'
    BY <1>0, <1>3, <1>6, Calls DEF WorkerData, WorkerLocals, WorkerCall
  <1>13. ~ Answered(w)'
    BY <1>6, <1>10, Calls DEF Answered
  <1>14. Held(c)' /\ Held(c)
    BY <1>3, <1>10, <1>13 DEF Held, Done
  <1>15. Bearer(c)'
    BY <1>6, <1>10 DEF Bearer, Done, Leaving
  <1>16. Attached(c)'
    BY <1>10 DEF Attached
  <1>17. \A i \in MmeId : Uses(c, i) => Uses(c, i)'
    BY <1>3, <1>6, <1>10 DEF Uses
  <1> QED BY <1>5, <1>9, <1>11, <1>12, <1>14, <1>15, <1>16, <1>17, AmfRest

LEMMA DetachAnswerSession ==
    ASSUME SInv, IdInv', MaxRuns = 1, NEW w \in Worker, AmfStep(w), DetachAnswer(w)
    PROVE  SInv'
PROOF
  <1>0. TypeOK /\ IdInv /\ UNCHANGED <<ranVars, ran_pc, ran_ctx, rounds, uplink_info, smf_ctx, upfVars>>
    BY DEF SInv, IdInv, AmfStep, ranVars, smfVars
  <1>1. PICK c : c = amf_conn[w]
    OBVIOUS
  <1>2. amf_pc[w] = "detach" /\ rpc[w].st = "rep"
    BY DEF DetachAnswer, Returned
  <1>3. /\ c \in Conn /\ Busy(w, c) /\ owner[c] = w
        /\ \A v \in Worker : v # w => ~ Busy(v, c)
        /\ amf_guti[w] = Guti(UeOf(c)) /\ amf_id[w] \in MmeId
        /\ NoUp(c) /\ NoDown(c) /\ ran_pc[c] = "detach"
        /\ \A i \in MmeId : Uses(c, i) => i = amf_id[w]
    BY <1>1, <1>2, WorkerAt
  <1>4. ConnData(c)
    BY <1>3 DEF SInv
  <1>5. /\ UNCHANGED <<up, exited, s1amf_id, calls, n4req, n4rsp, ue_ctx>>
        /\ UNCHANGED <<amf_conn, amf_guti, amf_imsi, amf_id>>
        /\ ServerSnd(c, S1ap(5, amf_id[w]))
        /\ Await(w, "rem_itfid", NoCall)
    BY <1>1 DEF DetachAnswer, amfTables, amfLocals
  <1>6. /\ amf_pc'[w] = "rem_itfid" /\ rpc'[w] = NoCall
        /\ \A v \in Worker : v # w => amf_pc'[v] = amf_pc[v] /\ rpc'[v] = rpc[v]
    BY <1>0, <1>5, AwaitSet
  <1>7. S1ap(5, amf_id[w]) \in S1apMsg
    BY <1>3, Headers
  <1>8. (\A d \in Conn : d # c => down'[d] = down[d]) /\ ~ NoDown(c)'
    BY <1>0, <1>3, <1>5, <1>7, SentDown
  <1>9. AmfOnly(w, c)
    BY <1>0, <1>1, <1>2, <1>3, <1>5, <1>6, <1>8, Calls DEF AmfOnly
  <1>10. Busy(w, c)' /\ ran_pc'[c] = "detach" /\ \A v \in Worker : v # w => ~ Busy(v, c)'
    BY <1>0, <1>1, <1>3, <1>5, <1>6, <1>9, Alone DEF Busy
  <1>11. ConnData(c)'
    BY <1>0, <1>4, <1>5, <1>10 DEF ConnData, UpData, AcceptData, TransferData, ContextData
  <1>12. WorkerData(w)'
    BY <1>1, <1>3, <1>5, <1>6 DEF WorkerData, WorkerLocals, WorkerCall
  <1>13. ~ Held(c)' /\ ~ Held(c)
    BY <1>2, <1>3, <1>8, <1>10 DEF Held, Done, Answered
  <1>14. Bearer(c)'
    BY <1>6, <1>10 DEF Bearer, Done, Leaving
  <1>15. Attached(c)'
    BY <1>6, <1>10 DEF Attached
  <1>16. \A i \in MmeId : Uses(c, i) => Uses(c, i)'
    BY <1>3, <1>5, <1>6, <1>10 DEF Uses
  <1> QED BY <1>3, <1>5, <1>9, <1>11, <1>12, <1>13, <1>14, <1>15, <1>16, AmfRest

LEMMA RemoveIdSession ==
    ASSUME SInv, IdInv', MaxRuns = 1, NEW w \in Worker, AmfStep(w), rem_itfid(w)
    PROVE  SInv'
PROOF
  <1>0. TypeOK /\ IdInv /\ UNCHANGED <<ranVars, ran_pc, ran_ctx, rounds, uplink_info, smf_ctx, upfVars>>
    BY DEF SInv, IdInv, AmfStep, ranVars, smfVars
  <1>1. PICK c : c = amf_conn[w]
    OBVIOUS
  <1>2. amf_pc[w] = "rem_itfid"
    BY DEF rem_itfid
  <1>3. /\ c \in Conn /\ Busy(w, c) /\ owner[c] = w
        /\ \A v \in Worker : v # w => ~ Busy(v, c)
        /\ amf_guti[w] = Guti(UeOf(c)) /\ amf_id[w] \in MmeId /\ rpc[w] = NoCall
        /\ \/ ran_pc[c] = "detach" /\ ~ NoDown(c)
           \/ ran_pc[c] = "loop"
           \/ ran_pc[c] = "autn" /\ NoDown(c)
        /\ \A i \in MmeId : Uses(c, i) => i = amf_id[w]
    BY <1>1, <1>2, WorkerAt DEF WorkerCall
  <1>4. ConnData(c)
    BY <1>3 DEF SInv
  <1>5. /\ UNCHANGED <<up, down, rpc, exited, calls, n4req, n4rsp, ue_ctx>>
        /\ UNCHANGED <<amf_conn, amf_guti, amf_imsi, amf_id>>
        /\ s1amf_id' = [s1amf_id EXCEPT ![amf_id[w]] = 0]
        /\ Goto(w, "rem_uectx")
    BY DEF rem_itfid, linkVars, amfLocals
  <1>6. amf_pc'[w] = "rem_uectx" /\ \A v \in Worker : v # w => amf_pc'[v] = amf_pc[v]
    BY <1>0, <1>5, PcSet
  <1>7. AmfOnly(w, c)
    BY <1>0, <1>1, <1>3, <1>5, <1>6, Calls DEF AmfOnly
  <1>8. /\ Busy(w, c)' /\ ran_pc'[c] = ran_pc[c] /\ (NoDown(c)' <=> NoDown(c))
        /\ \A v \in Worker : v # w => ~ Busy(v, c)'
    BY <1>0, <1>1, <1>3, <1>5, <1>6, <1>7, Alone DEF Busy, NoDown
  <1>9. ConnData(c)'
    BY <1>0, <1>3, <1>4, <1>5, ConnDataSame
  <1>10. WorkerData(w)'
    BY <1>1, <1>3, <1>5, <1>6 DEF WorkerData, WorkerLocals, WorkerCall
  <1>11. ~ Held(c)' /\ ~ Held(c)
    BY <1>3, <1>8 DEF Held
  <1>12. Bearer(c)'
    BY <1>6, <1>8 DEF Bearer, Done, Leaving
  <1>13. Attached(c)'
    BY <1>6, <1>8 DEF Attached
  <1>14. \A i \in MmeId : s1amf_id'[i] # 0 => i # amf_id[w] /\ s1amf_id[i] # 0
    BY <1>0, <1>3, <1>5 DEF TypeOK, AmfTypeOK
  <1> QED BY <1>3, <1>7, <1>9, <1>10, <1>11, <1>12, <1>13, <1>14, AmfRest

LEMMA RemoveCtxSession ==
    ASSUME SInv, IdInv', MaxRuns = 1, NEW w \in Worker, AmfStep(w), rem_uectx(w)
    PROVE  SInv'
PROOF
  <1>0. TypeOK /\ IdInv /\ UNCHANGED <<ranVars, ran_pc, ran_ctx, rounds, uplink_info, smf_ctx, upfVars>>
    BY DEF SInv, IdInv, AmfStep, ranVars, smfVars
  <1>1. PICK c : c = amf_conn[w]
    OBVIOUS
  <1>2. amf_pc[w] = "rem_uectx"
    BY DEF rem_uectx
  <1>3. /\ c \in Conn /\ Busy(w, c) /\ owner[c] = w
        /\ amf_guti[w] = Guti(UeOf(c)) /\ rpc[w] = NoCall
        /\ \/ ran_pc[c] = "detach" /\ ~ NoDown(c)
           \/ ran_pc[c] = "loop"
           \/ ran_pc[c] = "autn" /\ NoDown(c)
        /\ \A i \in MmeId : ~ Uses(c, i)
    BY <1>1, <1>2, WorkerAt DEF WorkerCall
  <1>4. ConnData(c)
    BY <1>3 DEF SInv
  <1>5. /\ UNCHANGED <<up, down, exited, calls, n4req, n4rsp, s1amf_id>>
        /\ ue_ctx' = [ue_ctx EXCEPT ![Guti(UeOf(c))] = NoUeCtx]
        /\ Return(w)
    BY <1>3 DEF rem_uectx
  <1>6. /\ amf_pc'[w] = "idle" /\ rpc'[w] = NoCall /\ WorkerData(w)'
        /\ \A v \in Worker : v # w =>
             /\ amf_pc'[v] = amf_pc[v] /\ amf_conn'[v] = amf_conn[v] /\ amf_guti'[v] = amf_guti[v]
             /\ amf_imsi'[v] = amf_imsi[v] /\ amf_id'[v] = amf_id[v] /\ rpc'[v] = rpc[v]
    BY <1>0, <1>5, ReturnSet
  <1>7. /\ ue_ctx'[Guti(UeOf(c))] = NoUeCtx
        /\ \A d \in Conn : d # c => ue_ctx'[Guti(UeOf(d))] = ue_ctx[Guti(UeOf(d))]
        /\ ue_ctx'[0] = ue_ctx[0]
    BY <1>0, <1>3, <1>5, CtxWritten
  <1>8. AmfOnly(w, c)
    BY <1>0, <1>1, <1>3, <1>5, <1>6, <1>7, Calls DEF AmfOnly
  <1>9. /\ ran_pc'[c] = ran_pc[c] /\ (NoDown(c)' <=> NoDown(c))
        /\ \A v \in Worker : ~ Busy(v, c)'
    BY <1>0, <1>3, <1>5, <1>6, <1>8, Alone DEF Busy, NoDown
  <1>10. ConnData(c)'
    BY <1>0, <1>3, <1>4, <1>5, <1>9 DEF ConnData, UpData, AcceptData, TransferData, ContextData
  <1>11. ~ Held(c)' /\ ~ Held(c)
    BY <1>3, <1>9 DEF Held
  <1>12. NoUeCtx.ecm_state = 0 /\ ~ NoUeCtx.known
    BY DEF NoUeCtx
  <1>13. Bearer(c)'
    BY <1>7, <1>9, <1>12 DEF Bearer, Done
  <1>14. \A i \in MmeId : s1amf_id'[i] # 0 => s1amf_id[i] # 0 /\ ~ Uses(c, i)
    BY <1>3, <1>5
  <1> QED BY <1>3, <1>6, <1>7, <1>8, <1>10, <1>11, <1>12, <1>13, <1>14, AmfRest

\* No connection is closed while the simulator runs.
LEMMA ClosedSession ==
    ASSUME SInv, IdInv', NEW w \in Worker, NEW c \in Conn, AmfStep(w), ConnClosed(w, c)
    PROVE  SInv'
PROOF
  <1>1. /\ UNCHANGED <<ranVars, ran_pc, ran_ctx, rounds, uplink_info, smf_ctx, upfVars>>
        /\ UNCHANGED <<rpc, calls, n4req, n4rsp, ue_count, s1amf_id, ue_ctx, down, exited>>
        /\ UNCHANGED <<amf_pc, amf_conn, amf_guti, amf_imsi, amf_id>>
        /\ up' = [up EXCEPT ![c] = <<>>] /\ conn[c] = "closed"
    BY DEF AmfStep, ConnClosed, CloseConn, ranVars, smfVars, amfVars, amfTables, amfLocals
  <1>2. IdInv /\ ConnData(c) /\ up \in [Conn -> Seq(S1apMsg)] /\ up[c] \in Seq(S1apMsg)
    BY DEF SInv, IdInv, TypeOK, LinksTypeOK
  <1>3. RanTurn(c)
    BY <1>2, ByConnection DEF IdInv, ConnOK
  <1>4. NoUp(c)
    BY <1>1, <1>2, <1>3 DEF RanTurn, ConnData
  <1>5. up[c] = <<>>
    BY <1>2, <1>4, NonEmpty DEF NoUp
  <1>6. up' = up
    BY <1>1, <1>2, <1>5
  <1>7. RanOnly(NoConn)
    BY <1>1, <1>6 DEF RanOnly
  <1> QED BY <1>1, <1>6, <1>7, IdleSession

LEMMA AmfSession ==
    ASSUME SInv, MaxRuns = 1, NEW w \in Worker, AmfStep(w)
    PROVE  SInv'
PROOF
  <1>1. IdInv'
    BY AmfSafe DEF SInv
  <1>2. ASSUME NEW c \in Conn,
               \/ handle_initial_attach(w, c) \/ handle_autn(w, c)
               \/ handle_security_mode_complete(w, c) \/ handle_attach_complete(w, c)
               \/ handle_detach(w, c) \/ ConnClosed(w, c)
        PROVE  SInv'
    BY <1>1, <1>2, InitialAttachSession, AutnSession, SecurityModeSession, AttachCompleteSession,
       DetachRequestSession, ClosedSession
  <1>3. ~ DetachFailed(w)
    <2> SUFFICES ASSUME DetachFailed(w) PROVE FALSE
      OBVIOUS
    <2>1. amf_pc[w] = "detach" /\ rpc[w].st = "rep" /\ ~ rpc[w].res
      BY DEF DetachFailed, Returned
    <2> QED BY <2>1 DEF SInv, WorkerData, WorkerCall
  <1>4. CASE AttachInit(w) \/ AttachChallenge(w) \/ handle_create_session(w) \/ SessionAccept(w)
    BY <1>1, <1>4, AttachInitSession, ChallengeSession, CreateSessionSession, AcceptedSession
  <1>5. CASE handle_modify_bearer(w) \/ BearerModified(w) \/ DetachAnswer(w) \/ rem_itfid(w) \/ rem_uectx(w)
    BY <1>1, <1>5, ModifyBearerSession, ModifiedSession, DetachAnswerSession, RemoveIdSession,
       RemoveCtxSession
  <1> QED BY <1>2, <1>3, <1>4, <1>5 DEF AmfStep, AmfWorker

-----------------------------------------------------------------------------
(***************************************************************************)
(* Steps of the servers: AUSF and SMF.                                     *)
(***************************************************************************)

\* Neither the UE threads nor the AMF take part in the step.
CoreSame ==
    /\ exited' = {}
    /\ UNCHANGED <<up, down, ran_pc, ran_ctx, rounds, uplink_info>>
    /\ UNCHANGED <<ue_count, s1amf_id, ue_ctx, amf_pc, amf_conn, amf_guti, amf_imsi, amf_id>>

\* Whether an operation is done only changes when its call is answered.
LEMMA CoreHeld ==
    ASSUME SInv, CoreSame, NEW c \in Conn,
           \A v \in Worker : Busy(v, c) =>
              (Answered(v)' <=> Answered(v)) \/ amf_pc[v] \in {"attach_autn", "location"}
    PROVE  /\ Held(c)' <=> Held(c)
           /\ Done(c, "modify")' <=> Done(c, "modify")
           /\ Leaving(c)' <=> Leaving(c)
PROOF
  <1>1. \A v \in Worker : Busy(v, c)' <=> Busy(v, c)
    BY DEF CoreSame, Busy
  <1>2. ASSUME NEW op \in {"create", "modify", "detach"}
        PROVE  Done(c, op)' <=> Done(c, op)
    BY <1>1 DEF CoreSame, Done
  <1>3. NoDown(c)' <=> NoDown(c)
    BY DEF CoreSame, NoDown
  <1>4. Held(c)' <=> Held(c)
    BY <1>2, <1>3 DEF CoreSame, Held
  <1>5. Leaving(c)' <=> Leaving(c)
    BY <1>1 DEF CoreSame, Leaving
  <1> QED BY <1>2, <1>4, <1>5

\* What is left to show of a step of a server.
LEMMA CoreRest ==
    ASSUME SInv, IdInv', CoreSame,
           \A c \in Conn : ConnData(c)' /\ Tables(c)' /\ Cleaning(c)' /\ Bearer(c)',
           \A w \in Worker : WorkerData(w)', N4Ok', Stray'
    PROVE  SInv'
PROOF
  <1>1. \A v \in Worker, c \in Conn : Busy(v, c)' <=> Busy(v, c)
    BY DEF CoreSame, Busy
  <1>2. \A c \in Conn : NoDown(c)' <=> NoDown(c)
    BY DEF CoreSame, NoDown
  <1>3. KnownAttached'
    <2>1. \A c \in Conn : Attached(c) => Attached(c)'
      BY <1>1, <1>2 DEF CoreSame, Attached
    <2> QED BY <2>1 DEF SInv, CoreSame, KnownAttached
  <1>4. IdsUsed'
    <2>1. \A c \in Conn, i \in MmeId : Uses(c, i) => Uses(c, i)'
      BY <1>1, <1>2 DEF CoreSame, Uses
    <2> QED BY <2>1 DEF SInv, CoreSame, IdsUsed
  <1> QED BY <1>3, <1>4 DEF SInv, CoreSame

\* ... of the AUSF or the SMF.
LEMMA ServerRest ==
    ASSUME SInv, IdInv', CoreSame, UNCHANGED upfVars,
           \A c \in Conn : ConnData(c)',
           \A w \in Worker : WorkerData(w)', N4Ok',
           \A v \in Worker :
              (Answered(v)' <=> Answered(v)) \/ amf_pc[v] \in {"attach_autn", "location"}
    PROVE  SInv'
PROOF
  <1>1. UNCHANGED <<ran_pc, rounds, ue_ctx>>
    BY DEF CoreSame
  <1>2. ASSUME NEW c \in Conn
        PROVE  Tables(c)' /\ Cleaning(c)' /\ Bearer(c)'
    <2>1. /\ Held(c)' <=> Held(c)
          /\ Done(c, "modify")' <=> Done(c, "modify")
          /\ Leaving(c)' <=> Leaving(c)
      BY CoreHeld
    <2>2. Tables(c) /\ Cleaning(c) /\ Bearer(c)
      BY DEF SInv
    <2>3. Tables(c)'
      BY <2>1, <2>2, TablesSame
    <2>4. Cleaning(c)'
      BY <1>1, <2>2, CleaningSame
    <2>5. Bearer(c)'
      BY <1>1, <2>1, <2>2 DEF Bearer, upfVars, upfTables
    <2> QED BY <2>3, <2>4, <2>5
  <1>3. Stray'
    BY StraySame DEF SInv
  <1> QED BY <1>2, <1>3, CoreRest

\* The call of a worker tells at which step its handler waits.
LEMMA CallPc ==
    ASSUME SInv, NEW w \in Worker
    PROVE  /\ rpc[w] \in RpcSlot
           /\ rpc[w].op = "autn" => amf_pc[w] = "attach_autn"
           /\ rpc[w].op = "loc" => amf_pc[w] = "location"
           /\ \A op \in SmfOp : rpc[w].op = op => amf_pc[w] = op
PROOF
  <1>1. WorkerCall(w) /\ amf_pc[w] \in AmfPc /\ rpc[w] \in RpcSlot
    BY DEF SInv, WorkerData, IdInv, TypeOK, AmfTypeOK, LinksTypeOK
  <1>2. amf_pc[w] \in {"idle", "attach_init", "bearer", "rem_itfid", "rem_uectx"} => rpc[w].op = "none"
    BY <1>1 DEF WorkerCall, NoCall
  <1> QED BY <1>1, <1>2 DEF WorkerCall, AmfPc, SmfOp

LEMMA AusfSession ==
    ASSUME SInv, NEW w \in Worker, AusfStep(w)
    PROVE  SInv'
PROOF
  <1>1. IdInv' /\ IdInv /\ TypeOK
    BY OtherSteps DEF SInv, IdInv
  <1>2. /\ CoreSame /\ UNCHANGED upfVars /\ UNCHANGED <<calls, n4req, n4rsp, smf_ctx>>
    BY DEF AusfStep, AusfServer, handle_autninfo_req, SetLocDelete, SetLocInsert, ranVars, CoreSame,
           amfVars, amfTables, amfLocals, smfVars, SInv
  <1>3. /\ rpc[w].op \in {"autn", "loc"}
        /\ rpc' = [rpc EXCEPT ![w].st = "rep"] \/ rpc' = [rpc EXCEPT ![w].st = "busy"]
    BY DEF AusfStep, AusfServer, handle_autninfo_req, SetLocDelete, SetLocInsert, AusfReturn
  <1>4. rpc \in [Worker -> RpcSlot] /\ rpc[w] \in RpcSlot
    BY <1>1 DEF TypeOK, LinksTypeOK
  <1>5. /\ rpc'[w].op = rpc[w].op /\ rpc'[w].imsi = rpc[w].imsi
        /\ \A v \in Worker : v # w => rpc'[v] = rpc[v]
    BY <1>3, <1>4 DEF RpcSlot
  <1>6. amf_pc[w] \in {"attach_autn", "location"}
    BY <1>3, CallPc
  <1>7. ASSUME NEW c \in Conn
        PROVE  ConnData(c)'
    BY <1>2, ConnDataSame DEF SInv, CoreSame
  <1>8. WorkerData(w)'
    BY <1>2, <1>5, <1>6 DEF SInv, CoreSame, WorkerData, WorkerLocals, WorkerCall
  <1>9. \A v \in Worker : WorkerData(v)'
    <2> SUFFICES ASSUME NEW v \in Worker, v # w PROVE WorkerData(v)'
      BY <1>8
    <2> QED BY <1>2, <1>5, WorkerDataSame DEF SInv, CoreSame
  <1>10. N4Ok'
    <2>1. \A v \in Worker : SockOf(v)[1] = v /\ SockOf(v)' = SockOf(v)
      BY <1>2 DEF SockOf
    <2>2. \A v \in Worker : (Open(SockOf(v)) \/ Open(SockOf(v))') => v # w
      BY <1>3, <1>5, <2>1 DEF Open, SmfOp
    <2>3. \A v \in Worker : Open(SockOf(v))' => Open(SockOf(v))
      BY <1>5, <2>1, <2>2 DEF Open
    <2>4. UNCHANGED <<upf_pc, upf_pkt, upf_imsi>> /\ N4Ok
      BY <1>2 DEF upfVars, SInv
    <2> QED BY <1>1, <1>2, <1>5, <2>2, <2>3, <2>4, N4Same DEF CoreSame
  <1>11. \A v \in Worker : v # w => (Answered(v)' <=> Answered(v))
    BY <1>2, <1>5 DEF Answered, Replied, SockOf
  <1> QED BY <1>1, <1>2, <1>6, <1>7, <1>9, <1>10, <1>11, ServerRest

\* Without faults nothing is lost and nobody gives up.
LEMMA NoFaults ==
    ASSUME SInv, Reliable
    PROVE  /\ ~ RestartStep /\ ~ LossStep
           /\ \A w \in Worker : ~ RpcFailStep(w) /\ ~ TimeoutStep(w)
PROOF
  <1>1. TypeOK /\ N4Ok /\ exited = {}
    BY DEF SInv, IdInv
  <1>2. ~ RestartStep
    BY <1>1 DEF RestartStep, RanRestart, Reliable, TypeOK, RanTypeOK
  <1>3. ~ LossStep
    BY <1>1 DEF LossStep, N4Loss, Reliable, TypeOK
  <1>4. ASSUME NEW w \in Worker, RpcFailStep(w)
        PROVE  FALSE
    BY <1>1, <1>4 DEF RpcFailStep, RpcFail, Reliable, TypeOK, AmfTypeOK
  <1>5. ASSUME NEW w \in Worker, TimeoutStep(w)
        PROVE  FALSE
    <2>1. /\ Open(SockOf(w)) /\ ~ Replied(SockOf(w))
          /\ IF Coming(SockOf(w)) THEN late < MaxLate /\ late' = late + 1 ELSE late' = late
      BY <1>5 DEF TimeoutStep, N4Timeout, SmfTimeout, Replied
    <2>2. Asked(SockOf(w)) \/ Handled(SockOf(w))
      BY <1>1, <2>1 DEF N4Ok, Carried
    <2>3. Coming(SockOf(w))
      BY <1>1, <2>2 DEF Coming, Asked, Handled, Handling, Creating
    <2> QED BY <1>1, <2>1, <2>3 DEF Reliable, TypeOK
  <1> QED BY <1>2, <1>3, <1>4, <1>5

-----------------------------------------------------------------------------
\* Sockets name workers, and every datagram or handler belongs to an open one.
LEMMA Sockets ==
    ASSUME SInv
    PROVE  /\ \A m \in n4req : m \in N4Req /\ m.sock[1] \in Worker /\ Open(m.sock)
           /\ \A r \in n4rsp : r \in N4Rsp /\ r.sock[1] \in Worker /\ Open(r.sock)
           /\ \A t \in UpfThread : /\ upf_pkt[t] \in N4Req /\ upf_pkt[t].sock[1] \in Worker
                                   /\ upf_pc[t] \in Handling => Open(upf_pkt[t].sock)
           /\ \A v \in Worker : SockOf(v)[1] = v /\ calls[v] \in Nat
PROOF
  <1>1. n4req \subseteq N4Req /\ n4rsp \subseteq N4Rsp /\ calls \in [Worker -> 0 .. MaxCalls]
    BY DEF SInv, IdInv, TypeOK, LinksTypeOK
  <1>2. \A t \in UpfThread : upf_pkt[t] \in N4Req
    BY DEF SInv, IdInv, TypeOK, UpfTypeOK
  <1>3. \A m \in N4Req : m.sock[1] \in Worker
    BY DEF N4Req, Sock
  <1>4. \A r \in N4Rsp : r.sock[1] \in Worker
    BY DEF N4Rsp, Sock
  <1>5. \A v \in Worker : SockOf(v)[1] = v /\ calls[v] \in Nat
    BY <1>1, LinksAssumption DEF SockOf
  <1> QED BY <1>1, <1>2, <1>3, <1>4, <1>5 DEF SInv, N4Ok, ReqOk, RspOk, ThreadOk

\* The SMF opens a socket for the call of worker w and sends the request m.
LEMMA N4Sent ==
    ASSUME SInv, CoreSame, UNCHANGED <<n4rsp, upfVars>>, NEW w \in Worker, NEW m,
           rpc[w].st = "req", rpc[w].op = m.op, m.op \in SmfOp,
           calls' = [calls EXCEPT ![w] = @ + 1], rpc' = [rpc EXCEPT ![w].st = "busy"],
           n4req' = n4req \cup {m}, m.sock = <<w, calls[w] + 1>>,
           m.teid = Teid(UeOf(amf_conn[w])), m.op = "create" => m.imsi = Imsi(UeOf(amf_conn[w]))
    PROVE  N4Ok' /\ \A v \in Worker : Answered(v)' <=> Answered(v)
PROOF
  <1>1. /\ rpc \in [Worker -> RpcSlot] /\ calls \in [Worker -> 0 .. MaxCalls] /\ rpc[w] \in RpcSlot
    BY DEF SInv, IdInv, TypeOK, LinksTypeOK
  <1>2. /\ rpc'[w].st = "busy" /\ rpc'[w].op = rpc[w].op
        /\ \A v \in Worker : v # w => rpc'[v] = rpc[v] /\ calls'[v] = calls[v]
        /\ calls'[w] = calls[w] + 1
    BY <1>1 DEF RpcSlot
  <1>3. /\ SockOf(w)' = m.sock /\ m.sock[1] = w
        /\ \A v \in Worker : v # w => SockOf(v)' = SockOf(v)
    BY <1>2 DEF SockOf
  <1>4. UNCHANGED <<upf_pc, upf_pkt, upf_imsi, amf_conn>> /\ N4Ok
    BY DEF upfVars, CoreSame, SInv
  <1>5. Open(m.sock)'
    BY <1>2, <1>3 DEF Open
  <1>6. ReqOk(m)'
    BY <1>2, <1>3, <1>4, <1>5 DEF ReqOk, SockUe
  <1>7. ASSUME NEW s, s[1] \in Worker, Open(s)
        PROVE  s[1] # w /\ Open(s)' /\ rpc'[s[1]] = rpc[s[1]] /\ SockUe(s)' = SockUe(s) /\ s # m.sock
    <2>1. s[1] # w
      BY <1>7 DEF Open
    <2> QED BY <1>2, <1>3, <1>4, <1>7, <2>1 DEF Open, SockUe
  <1>8. \A o \in n4req' : ReqOk(o)'
    <2>1. ASSUME NEW o \in n4req PROVE ReqOk(o)'
      BY <1>4, <1>7, Sockets DEF N4Ok, ReqOk
    <2> QED BY <1>6, <2>1
  <1>9. ASSUME NEW t \in UpfThread
        PROVE  ThreadOk(t)'
    <2>1. ThreadOk(t) /\ upf_pkt[t].sock[1] \in Worker
      BY <1>4, Sockets DEF N4Ok
    <2> QED BY <1>4, <1>7, <2>1 DEF ThreadOk, ReqOk
  <1>10. ASSUME NEW r \in n4rsp
         PROVE  RspOk(r)'
    <2>1. RspOk(r) /\ r.sock[1] \in Worker
      BY <1>4, Sockets DEF N4Ok
    <2> QED BY <1>7, <2>1 DEF RspOk
  <1>11. OneWay'
    <2>1. \A o \in n4req : o.sock # m.sock
      BY <1>7, Sockets
    <2>2. \A r \in n4rsp : r.sock # m.sock
      BY <1>7, Sockets
    <2>3. \A t \in UpfThread : upf_pc[t] \in Handling => upf_pkt[t].sock # m.sock
      BY <1>7, Sockets
    <2> QED BY <1>4, <2>1, <2>2, <2>3 DEF N4Ok, OneWay
  <1>12. Carried'
    <2> SUFFICES ASSUME NEW v \in Worker, Open(SockOf(v))'
                 PROVE  (Asked(SockOf(v)) \/ Handled(SockOf(v)) \/ Replied(SockOf(v)))'
      BY DEF Carried
    <2>1. CASE v = w
      <3>1. \E o \in n4req' : o.sock = SockOf(v)'
        BY <1>3, <2>1
      <3> QED BY <3>1 DEF Asked
    <2>2. CASE v # w
      <3>1. Open(SockOf(v)) /\ SockOf(v)' = SockOf(v)
        BY <1>2, <1>3, <2>2, Sockets DEF Open
      <3>2. Asked(SockOf(v)) \/ Handled(SockOf(v)) \/ Replied(SockOf(v))
        BY <1>4, <3>1 DEF N4Ok, Carried
      <3> QED BY <1>4, <3>1, <3>2 DEF Asked, Handled, Replied
    <2> QED BY <2>1, <2>2
  <1>13. ASSUME NEW v \in Worker
         PROVE  Answered(v)' <=> Answered(v)
    <2>1. CASE v = w
      <3>1. ~ Replied(SockOf(w)) /\ ~ Replied(SockOf(w))'
        BY <1>3, <1>7, Sockets DEF Replied
      <3> QED BY <1>2, <2>1, <3>1 DEF Answered
    <2>2. CASE v # w
      BY <1>2, <1>3, <2>2 DEF Answered, Replied
    <2> QED BY <2>1, <2>2
  <1> QED BY <1>4, <1>8, <1>9, <1>10, <1>11, <1>12, <1>13 DEF N4Ok

\* The request of a handler of the SMF.
LEMMA RequestSession ==
    ASSUME SInv, IdInv', MaxRuns = 1, NEW w \in Worker, NEW op \in SmfOp, NEW ctx \in SmfContext,
           NEW teid \in TeidSet, NEW imsi \in ImsiSet, NEW dl \in TeidSet,
           Accept(w, op), Request(w, op, ctx, teid, imsi, dl), SmfStep(w),
           UNCHANGED <<up, down, conn, n4rsp>>,
           ctx.sgw = smf_ctx[rpc[w].guti].sgw,
           teid = Teid(UeOf(amf_conn[w])), op = "create" => imsi = Imsi(UeOf(amf_conn[w]))
    PROVE  SInv'
PROOF
  <1>1. rpc[w].st = "req" /\ rpc[w].op = op /\ calls' = [calls EXCEPT ![w] = @ + 1]
    BY DEF Accept
  <1>2. amf_pc[w] = op /\ rpc[w] \in RpcSlot
    BY <1>1, CallPc
  <1>3. rpc[w].guti = Guti(UeOf(amf_conn[w])) /\ amf_conn[w] \in Conn
    BY <1>1, <1>2, WorkerAt DEF WorkerCall, SmfOp
  <1>4. rpc[w].guti # 0
    BY <1>3, Keys
  <1> DEFINE m == [op |-> op, sock |-> <<w, calls[w] + 1>>, teid |-> teid, imsi |-> imsi, dl |-> dl]
  <1>5. /\ exited' = exited
        /\ smf_ctx' = [smf_ctx EXCEPT ![rpc[w].guti] = [ctx EXCEPT !.known = TRUE]]
        /\ n4req' = n4req \cup {m} /\ rpc' = [rpc EXCEPT ![w].st = "busy"]
    BY <1>4 DEF Request
  <1>6. CoreSame /\ UNCHANGED upfVars
    BY <1>5 DEF CoreSame, SInv, SmfStep, ranVars, amfVars, amfTables, amfLocals
  <1>7. /\ m.op = op /\ m.sock = <<w, calls[w] + 1>> /\ m.teid = teid /\ m.imsi = imsi
    OBVIOUS
  <1>8. N4Ok' /\ \A v \in Worker : Answered(v)' <=> Answered(v)
    <2> HIDE DEF m
    <2> QED BY <1>1, <1>5, <1>6, <1>7, N4Sent
  <1>9. \A g \in GutiSet : smf_ctx'[g].sgw = smf_ctx[g].sgw
    <2>1. smf_ctx \in [GutiSet -> SmfContext]
      BY DEF SInv, IdInv, TypeOK, SmfTypeOK
    <2>2. [ctx EXCEPT !.known = TRUE].sgw = ctx.sgw
      BY DEF SmfContext
    <2> QED BY <1>3, <1>5, <2>1, <2>2
  <1>10. ASSUME NEW c \in Conn
         PROVE  ConnData(c)'
    BY <1>6, <1>9, IdentityTypes, ConnDataSame DEF SInv, CoreSame
  <1>11. /\ rpc'[w].op = rpc[w].op /\ rpc'[w].imsi = rpc[w].imsi /\ rpc'[w].guti = rpc[w].guti
         /\ rpc'[w].teid = rpc[w].teid /\ rpc'[w].st = "busy"
         /\ \A v \in Worker : v # w => rpc'[v] = rpc[v]
    BY <1>2, <1>5 DEF SInv, IdInv, TypeOK, LinksTypeOK, RpcSlot
  <1>12. WorkerData(w)'
    <2>1. WorkerLocals(w) /\ WorkerCall(w)
      BY DEF SInv, WorkerData
    <2>2. WorkerLocals(w)'
      BY <1>6, <2>1 DEF CoreSame, WorkerLocals
    <2>3. WorkerCall(w)'
      BY <1>2, <1>6, <1>11, <2>1 DEF CoreSame, WorkerCall, SmfOp
    <2> QED BY <2>2, <2>3 DEF WorkerData
  <1>13. \A v \in Worker : WorkerData(v)'
    <2> SUFFICES ASSUME NEW v \in Worker, v # w PROVE WorkerData(v)'
      BY <1>12
    <2>1. amf_conn[v] \in Conn
      BY DEF SInv, IdInv, TypeOK, AmfTypeOK
    <2> QED BY <1>6, <1>9, <1>11, <2>1, IdentityTypes, WorkerDataSame DEF SInv, CoreSame
  <1> QED BY <1>6, <1>8, <1>10, <1>13, ServerRest

\* The SMF takes the response r to the call of worker w, which is then over.
LEMMA N4Received ==
    ASSUME SInv, CoreSame, UNCHANGED <<calls, n4req, upfVars>>, NEW w \in Worker, NEW r \in n4rsp,
           Open(SockOf(w)), r.sock = SockOf(w), n4rsp' = n4rsp \ {r}, rpc'[w].st = "rep",
           \A v \in Worker : v # w => rpc'[v] = rpc[v]
    PROVE  N4Ok' /\ \A v \in Worker : Answered(v)' <=> Answered(v)
PROOF
  <1>1. \A v \in Worker : SockOf(v)' = SockOf(v)
    BY DEF SockOf
  <1>2. UNCHANGED <<upf_pc, upf_pkt, upf_imsi, amf_conn>> /\ N4Ok
    BY DEF upfVars, CoreSame, SInv
  <1>3. /\ \A m \in n4req : m.sock # SockOf(w)
        /\ \A q \in n4rsp' : q \in n4rsp /\ q.sock # SockOf(w)
        /\ \A t \in UpfThread : upf_pc[t] \in Handling => upf_pkt[t].sock # SockOf(w)
    BY <1>2 DEF N4Ok, OneWay
  <1>4. ASSUME NEW s, s[1] \in Worker, Open(s), s # SockOf(w)
        PROVE  s[1] # w /\ Open(s)' /\ rpc'[s[1]] = rpc[s[1]] /\ SockUe(s)' = SockUe(s)
    <2>1. s[1] # w
      BY <1>4 DEF Open
    <2> QED BY <1>1, <1>2, <1>4, <2>1 DEF Open, SockUe
  <1>5. ASSUME NEW m \in n4req
        PROVE  ReqOk(m)'
    BY <1>2, <1>3, <1>4, Sockets DEF N4Ok, ReqOk
  <1>6. ASSUME NEW t \in UpfThread
        PROVE  ThreadOk(t)'
    <2>1. ThreadOk(t) /\ upf_pkt[t].sock[1] \in Worker
      BY <1>2, Sockets DEF N4Ok
    <2> QED BY <1>2, <1>3, <1>4, <2>1 DEF ThreadOk, ReqOk
  <1>7. ASSUME NEW q \in n4rsp'
        PROVE  RspOk(q)'
    <2>1. RspOk(q) /\ q.sock[1] \in Worker
      BY <1>2, <1>3, Sockets DEF N4Ok
    <2> QED BY <1>3, <1>4, <2>1 DEF RspOk
  <1>8. OneWay'
    BY <1>2, <1>3 DEF N4Ok, OneWay
  <1>9. Carried'
    <2> SUFFICES ASSUME NEW v \in Worker, Open(SockOf(v))'
                 PROVE  (Asked(SockOf(v)) \/ Handled(SockOf(v)) \/ Replied(SockOf(v)))'
      BY DEF Carried
    <2>1. v # w
      BY <1>1, Sockets DEF Open
    <2>2. Open(SockOf(v)) /\ SockOf(v) # SockOf(w)
      BY <1>1, <2>1, Sockets DEF Open
    <2>3. Asked(SockOf(v)) \/ Handled(SockOf(v)) \/ Replied(SockOf(v))
      BY <1>2, <2>2 DEF N4Ok, Carried
    <2> QED BY <1>1, <1>2, <2>2, <2>3 DEF Asked, Handled, Replied
  <1>10. ASSUME NEW v \in Worker
         PROVE  Answered(v)' <=> Answered(v)
    <2>1. CASE v = w
      BY <2>1 DEF Answered, Replied
    <2>2. CASE v # w
      <3>1. SockOf(v) # SockOf(w)
        BY <2>2, Sockets
      <3> QED BY <1>1, <2>2, <3>1 DEF Answered, Replied
    <2> QED BY <2>1, <2>2
  <1> QED BY <1>2, <1>5, <1>6, <1>7, <1>8, <1>9, <1>10 DEF N4Ok

LEMMA ReceiveSession ==
    ASSUME SInv, IdInv', MaxRuns = 1, NEW w \in Worker, SmfStep(w), SmfRcv(w)
    PROVE  SInv'
PROOF
  <1>1. Open(SockOf(w)) /\ UNCHANGED <<up, down, calls, n4req, exited>>
    BY DEF SmfRcv
  <1>2. PICK r \in n4rsp : r.sock = SockOf(w) /\ Finish(w, r) /\ n4rsp' = n4rsp \ {r}
    BY DEF SmfRcv
  <1>3. CoreSame /\ UNCHANGED upfVars
    BY <1>1 DEF CoreSame, SInv, SmfStep, ranVars, amfVars, amfTables, amfLocals
  <1>4. rpc \in [Worker -> RpcSlot] /\ rpc[w] \in RpcSlot /\ smf_ctx \in [GutiSet -> SmfContext]
    BY DEF SInv, IdInv, TypeOK, LinksTypeOK, SmfTypeOK
  <1>5. rpc[w].op \in SmfOp /\ rpc[w].st = "busy"
    BY <1>1, Sockets DEF Open
  <1>6. amf_pc[w] = rpc[w].op
    BY <1>5, CallPc
  <1>0. PICK c : c = amf_conn[w]
    OBVIOUS
  <1>7. /\ c \in Conn /\ Busy(w, c) /\ WorkerLocals(w) /\ WorkerCall(w)
        /\ \A v \in Worker : v # w => ~ Busy(v, c)
        /\ rpc[w].op = "create" => NoDown(c) /\ ran_pc[c] = "session"
    BY <1>0, <1>5, <1>6, WorkerAt DEF SmfOp
  <1>8. rpc[w].guti = Guti(UeOf(c)) /\ rpc[w].guti \in GutiSet
    BY <1>0, <1>5, <1>6, <1>7, IdentityTypes DEF WorkerCall, SmfOp
  <1>9. r.res /\ (rpc[w].op = "create" =>
                    r.teid = Teid(UeOf(c)) /\ r.ul = Teid(UeOf(c)) /\ r.ip = Imsi(UeOf(c)))
    BY <1>0, <1>2, Sockets DEF SInv, N4Ok, RspOk, SockUe
  <1>10. /\ rpc'[w].st = "rep" /\ rpc'[w].res /\ rpc'[w].op = rpc[w].op
         /\ rpc'[w].guti = rpc[w].guti /\ rpc'[w].imsi = rpc[w].imsi
         /\ \A v \in Worker : v # w => rpc'[v] = rpc[v]
         /\ rpc[w].op = "create" =>
              /\ rpc'[w].teid = Teid(UeOf(c)) /\ rpc'[w].ul = Teid(UeOf(c))
              /\ rpc'[w].ip = Imsi(UeOf(c))
    <2>1. CASE rpc[w].op = "create"
      <3>1. rpc' = [rpc EXCEPT ![w] = [rpc[w] EXCEPT !.st = "rep", !.teid = r.teid, !.ul = r.ul,
                                                      !.ip = r.ip, !.res = TRUE]]
        BY <1>2, <2>1 DEF Finish, CreateReply
      <3> QED BY <1>4, <1>9, <2>1, <3>1 DEF RpcSlot
    <2>2. CASE rpc[w].op # "create"
      <3>1. rpc' = [rpc EXCEPT ![w] = [rpc[w] EXCEPT !.st = "rep", !.res = r.res]]
        BY <1>2, <2>2 DEF Finish, ResultReply
      <3> QED BY <1>4, <1>9, <2>2, <3>1 DEF RpcSlot
    <2> QED BY <2>1, <2>2
  <1>11. /\ rpc[w].op = "create" => smf_ctx'[Guti(UeOf(c))].sgw = Teid(UeOf(c))
         /\ rpc[w].op # "create" => smf_ctx' = smf_ctx
         /\ \A d \in Conn : d # c => smf_ctx'[Guti(UeOf(d))] = smf_ctx[Guti(UeOf(d))]
    <2>1. CASE rpc[w].op = "create"
      <3>1. smf_ctx' = [smf_ctx EXCEPT ![Guti(UeOf(c))] =
                [smf_ctx[Guti(UeOf(c))] EXCEPT !.known = TRUE, !.ip = r.ip, !.sgw = r.teid, !.ul = r.ul]]
        BY <1>2, <1>8, <2>1 DEF Finish, CreateReply
      <3>2. smf_ctx[Guti(UeOf(c))] \in SmfContext
        BY <1>4, <1>8
      <3>3. smf_ctx'[Guti(UeOf(c))].sgw = Teid(UeOf(c))
        BY <1>4, <1>8, <1>9, <2>1, <3>1, <3>2 DEF SmfContext
      <3> QED BY <1>4, <1>7, <2>1, <3>1, <3>3, Keys
    <2>2. CASE rpc[w].op # "create"
      BY <1>2, <2>2 DEF Finish, ResultReply
    <2> QED BY <2>1, <2>2
  <1>12. \A d \in Conn : ConnData(d)'
    <2>1. ASSUME NEW d \in Conn, d # c \/ rpc[w].op # "create"
          PROVE  ConnData(d)'
      BY <1>3, <1>11, <2>1, ConnDataSame DEF SInv, CoreSame
    <2>2. CASE rpc[w].op = "create"
      <3>1. ConnData(c)
        BY <1>7 DEF SInv
      <3>2. NoDown(c)' /\ ran_pc'[c] = "session"
        BY <1>3, <1>7, <2>2 DEF CoreSame, NoDown
      <3>3. ConnData(c)'
        BY <1>3, <1>7, <2>2, <3>1, <3>2
           DEF CoreSame, ConnData, UpData, AcceptData, TransferData, ContextData
      <3> QED BY <2>1, <3>3
    <2> QED BY <2>1, <2>2
  <1>13. WorkerData(w)'
    <2>1. WorkerLocals(w)'
      BY <1>3, <1>7 DEF CoreSame, WorkerLocals
    <2>2. amf_conn'[w] = c /\ amf_conn[w] = c
      BY <1>0, <1>3 DEF CoreSame
    <2>3. CASE rpc[w].op = "create"
      <3>1. rpc'[w].imsi = Imsi(UeOf(c)) /\ amf_pc'[w] = "create"
        BY <1>3, <1>6, <1>7, <1>10, <2>2, <2>3 DEF CoreSame, WorkerCall
      <3>2. WorkerCall(w)'
        BY <1>8, <1>10, <1>11, <2>2, <2>3, <3>1 DEF WorkerCall
      <3> QED BY <2>1, <3>2 DEF WorkerData
    <2>4. CASE rpc[w].op \in {"modify", "detach"}
      <3>1. amf_pc'[w] = rpc[w].op
        BY <1>3, <1>6 DEF CoreSame
      <3>2. WorkerCall(w)'
        BY <1>8, <1>10, <2>2, <2>4, <3>1 DEF WorkerCall
      <3> QED BY <2>1, <3>2 DEF WorkerData
    <2> QED BY <1>5, <2>3, <2>4 DEF SmfOp
  <1>14. \A v \in Worker : WorkerData(v)'
    <2> SUFFICES ASSUME NEW v \in Worker, v # w PROVE WorkerData(v)'
      BY <1>13
    <2>1. amf_pc[v] # "idle" => amf_conn[v] # c /\ amf_conn[v] \in Conn
      BY <1>7 DEF Busy, SInv, IdInv, TypeOK, AmfTypeOK
    <2> QED BY <1>3, <1>10, <1>11, <2>1, WorkerDataSame DEF SInv, CoreSame
  <1>15. N4Ok' /\ \A v \in Worker : Answered(v)' <=> Answered(v)
    BY <1>1, <1>2, <1>3, <1>10, N4Received
  <1> QED BY <1>3, <1>12, <1>14, <1>15, ServerRest

LEMMA SmfSession ==
    ASSUME SInv, MaxRuns = 1, NEW w \in Worker, SmfStep(w)
    PROVE  SInv'
PROOF
  <1>1. IdInv'
    BY OtherSteps DEF SInv
  <1>2. /\ rpc[w] \in RpcSlot /\ rpc[w].guti \in GutiSet /\ rpc[w].imsi \in ImsiSet
        /\ rpc[w].teid \in TeidSet /\ smf_ctx[rpc[w].guti] \in SmfContext
    BY DEF SInv, IdInv, TypeOK, LinksTypeOK, SmfTypeOK, RpcSlot
  <1>3. "create" \in SmfOp /\ "modify" \in SmfOp /\ "detach" \in SmfOp
    BY DEF SmfOp
  <1>4. CASE SmfCreateSession(w)
    <2> DEFINE ctx == [smf_ctx[rpc[w].guti] EXCEPT !.imsi = rpc[w].imsi, !.mme = rpc[w].teid]
    <2>1. ctx \in SmfContext /\ ctx.sgw = smf_ctx[rpc[w].guti].sgw
      BY <1>2 DEF SmfContext
    <2>2. /\ Accept(w, "create") /\ Request(w, "create", ctx, rpc[w].teid, rpc[w].imsi, 0)
          /\ UNCHANGED <<up, down, conn, n4rsp>>
      BY <1>4 DEF SmfCreateSession
    <2>3. amf_pc[w] = "create"
      BY <1>3, <2>2, CallPc DEF Accept
    <2>4. rpc[w].teid = Teid(UeOf(amf_conn[w])) /\ rpc[w].imsi = Imsi(UeOf(amf_conn[w]))
      BY <2>3 DEF SInv, WorkerData, WorkerCall
    <2> HIDE DEF ctx
    <2> QED BY <1>1, <1>2, <1>3, <2>1, <2>2, <2>4, IdentityTypes, RequestSession
  <1>5. ASSUME NEW op \in {"modify", "detach"}, Accept(w, op)
        PROVE  smf_ctx[rpc[w].guti].sgw = Teid(UeOf(amf_conn[w]))
    <2>1. amf_pc[w] = op
      BY <1>3, <1>5, CallPc DEF Accept
    <2>2. /\ amf_conn[w] \in Conn /\ ran_pc[amf_conn[w]] \in {"data", "detach"}
          /\ WorkerCall(w)
      BY <2>1, WorkerAt
    <2>3. rpc[w].guti = Guti(UeOf(amf_conn[w]))
      BY <2>1, <2>2 DEF WorkerCall
    <2> QED BY <2>2, <2>3 DEF SInv, ConnData, TransferData
  <1>6. smf_ctx[rpc[w].guti].sgw \in TeidSet /\ smf_ctx[rpc[w].guti].dl \in TeidSet /\ 0 \in ImsiSet
        /\ 0 \in TeidSet
    BY <1>2, SmfCtxTypes, IdentityTypes
  <1>7. CASE SmfModifyBearer(w)
    BY <1>1, <1>2, <1>3, <1>5, <1>6, <1>7, RequestSession DEF SmfModifyBearer
  <1>8. CASE SmfDetach(w)
    BY <1>1, <1>2, <1>3, <1>5, <1>6, <1>8, RequestSession DEF SmfDetach
  <1>9. CASE SmfRcv(w)
    BY <1>1, <1>9, ReceiveSession
  <1> QED BY <1>4, <1>7, <1>8, <1>9 DEF SmfStep, SmfHandler

-----------------------------------------------------------------------------
(***************************************************************************)
(* Steps of the UPF's threads.                                             *)
(***************************************************************************)

\* Thread t works; the calls stay as they are.
UpfOnly(t) ==
    /\ CoreSame
    /\ UNCHANGED <<rpc, calls, smf_ctx>>
    /\ \A u \in UpfThread : u # t =>
        /\ upf_pc'[u] = upf_pc[u] /\ upf_pkt'[u] = upf_pkt[u]
        /\ upf_imsi'[u] = upf_imsi[u] /\ upf_old'[u] = upf_old[u]

\* The entries of the UE of d are left alone.
EntriesSame(d) ==
    /\ s11_id'[Teid(UeOf(d))] = s11_id[Teid(UeOf(d))]
    /\ s1_id'[Teid(UeOf(d))] = s1_id[Teid(UeOf(d))]
    /\ sgi_id'[Imsi(UeOf(d))] = sgi_id[Imsi(UeOf(d))]
    /\ upf_ctx'[Imsi(UeOf(d))] = upf_ctx[Imsi(UeOf(d))]

\* What is left to show when thread t works on the session of connection c.
LEMMA UpfRest ==
    ASSUME SInv, IdInv', NEW t \in UpfThread, NEW c \in Conn, UpfOnly(t), N4Ok', Stray',
           Tables(c)', Cleaning(c)', Bearer(c)',
           \A d \in Conn : d # c =>
              /\ EntriesSame(d)
              /\ ~ Works(t, UeOf(d)) /\ ~ Works(t, UeOf(d))'
              /\ \A v \in Worker : Busy(v, d) => (Answered(v)' <=> Answered(v))
    PROVE  SInv'
PROOF
  <1>1. /\ CoreSame /\ UNCHANGED <<rpc, calls, smf_ctx>>
        /\ \A u \in UpfThread : u # t =>
            /\ upf_pc'[u] = upf_pc[u] /\ upf_pkt'[u] = upf_pkt[u]
            /\ upf_imsi'[u] = upf_imsi[u] /\ upf_old'[u] = upf_old[u]
    BY DEF UpfOnly
  <1>2. ASSUME NEW d \in Conn
        PROVE  ConnData(d)'
    BY <1>1, ConnDataSame DEF SInv, CoreSame
  <1>3. ASSUME NEW v \in Worker
        PROVE  WorkerData(v)'
    BY <1>1, WorkerDataSame DEF SInv, CoreSame
  <1>4. ASSUME NEW d \in Conn, d # c
        PROVE  Tables(d)' /\ Cleaning(d)' /\ Bearer(d)'
    <2>1. /\ Held(d)' <=> Held(d)
          /\ Done(d, "modify")' <=> Done(d, "modify")
          /\ Leaving(d)' <=> Leaving(d)
      BY <1>1, <1>4, CoreHeld
    <2>2. Tables(d) /\ Cleaning(d) /\ Bearer(d)
      BY DEF SInv
    <2>3. \A u \in UpfThread : /\ Works(u, UeOf(d))' <=> Works(u, UeOf(d))
                               /\ Works(u, UeOf(d)) => u # t
      BY <1>1, <1>4 DEF Works, Maker, Cleaner
    <2>4. ASSUME NEW A
          PROVE  Entries(UeOf(d), A)' <=> Entries(UeOf(d), A)
      BY <1>4 DEF Entries, EntriesSame, Session
    <2>5. Tables(d)'
      BY <1>1, <2>1, <2>2, <2>3, <2>4 DEF Tables
    <2>6. \A u \in UpfThread : Cleaner(u, UeOf(d))' => Cleaner(u, UeOf(d)) /\ u # t
      BY <1>1, <1>4 DEF Works, Cleaner
    <2>7. Cleaning(d)'
      BY <1>1, <2>2, <2>6 DEF Cleaning, CoreSame
    <2>8. Bearer(d)'
      BY <1>1, <1>4, <2>1, <2>2 DEF Bearer, CoreSame, EntriesSame
    <2> QED BY <2>5, <2>7, <2>8
  <1> QED BY <1>1, <1>2, <1>3, <1>4, CoreRest

\* Sockets stay open, and belong to the same UE.
LEMMA SocketsSame ==
    ASSUME NEW t \in UpfThread, UpfOnly(t), NEW s
    PROVE  /\ Open(s)' <=> Open(s)
           /\ SockUe(s)' = SockUe(s)
           /\ rpc' = rpc
PROOF BY DEF UpfOnly, CoreSame, Open, SockOf, SockUe

\* N4, when a thread goes on with its request ...
LEMMA N4Silent ==
    ASSUME SInv, NEW t \in UpfThread, UpfOnly(t), UNCHANGED <<n4req, n4rsp>>, ThreadOk(t)',
           upf_pc'[t] \in Handling <=> upf_pc[t] \in Handling,
           upf_pc[t] \in Handling => upf_pkt'[t] = upf_pkt[t]
    PROVE  N4Ok' /\ \A v \in Worker : Answered(v)' <=> Answered(v)
PROOF
  <1>1. N4Ok
    BY DEF SInv
  <1>2. \A u \in UpfThread : /\ upf_pc'[u] \in Handling <=> upf_pc[u] \in Handling
                             /\ upf_pc[u] \in Handling => upf_pkt'[u] = upf_pkt[u]
    BY DEF UpfOnly
  <1>3. \A m \in n4req : ReqOk(m)'
    BY <1>1, SocketsSame DEF N4Ok, ReqOk
  <1>4. \A r \in n4rsp : RspOk(r)'
    BY <1>1, SocketsSame DEF N4Ok, RspOk
  <1>5. ASSUME NEW u \in UpfThread, u # t
        PROVE  ThreadOk(u)'
    BY <1>1, <1>5, SocketsSame DEF N4Ok, ThreadOk, ReqOk, UpfOnly
  <1>6. OneWay'
    BY <1>1, <1>2 DEF N4Ok, OneWay
  <1>7. \A v \in Worker : SockOf(v)' = SockOf(v)
    BY DEF UpfOnly, SockOf
  <1>9. Carried'
    <2> SUFFICES ASSUME NEW v \in Worker, Open(SockOf(v))'
                 PROVE  (Asked(SockOf(v)) \/ Handled(SockOf(v)) \/ Replied(SockOf(v)))'
      BY DEF Carried
    <2>1. Open(SockOf(v))
      BY <1>7, SocketsSame
    <2>2. Asked(SockOf(v)) \/ Handled(SockOf(v)) \/ Replied(SockOf(v))
      BY <1>1, <2>1 DEF N4Ok, Carried
    <2> QED BY <1>2, <1>7, <2>2 DEF Asked, Handled, Replied
  <1>10. \A v \in Worker : Answered(v)' <=> Answered(v)
    BY <1>7 DEF Answered, Replied, UpfOnly
  <1> QED BY <1>1, <1>3, <1>4, <1>5, <1>6, <1>9, <1>10 DEF N4Ok

\* ... takes the request m ...
LEMMA N4Taken ==
    ASSUME SInv, NEW t \in UpfThread, UpfOnly(t), NEW m \in n4req, n4req' = n4req \ {m}, n4rsp' = n4rsp,
           upf_pc[t] \notin Handling, upf_pc'[t] \in Handling, upf_pkt'[t] = m, ThreadOk(t)'
    PROVE  N4Ok' /\ \A v \in Worker : Answered(v)' <=> Answered(v)
PROOF
  <1>1. N4Ok
    BY DEF SInv
  <1>2. \A u \in UpfThread : u # t => upf_pc'[u] = upf_pc[u] /\ upf_pkt'[u] = upf_pkt[u]
    BY DEF UpfOnly
  <1>3. \A o \in n4req' : ReqOk(o)'
    BY <1>1, SocketsSame DEF N4Ok, ReqOk
  <1>4. \A r \in n4rsp : RspOk(r)'
    BY <1>1, SocketsSame DEF N4Ok, RspOk
  <1>5. ASSUME NEW u \in UpfThread, u # t
        PROVE  ThreadOk(u)'
    BY <1>1, <1>5, SocketsSame DEF N4Ok, ThreadOk, ReqOk, UpfOnly
  <1>6. OneWay'
    <2>1. \A o \in n4req' : o.sock # m.sock
      BY <1>1 DEF N4Ok, OneWay
    <2> QED BY <1>1, <1>2, <2>1 DEF N4Ok, OneWay
  <1>7. \A v \in Worker : SockOf(v)' = SockOf(v)
    BY DEF UpfOnly, SockOf
  <1>8. Carried'
    <2> SUFFICES ASSUME NEW v \in Worker, Open(SockOf(v))'
                 PROVE  (Asked(SockOf(v)) \/ Handled(SockOf(v)) \/ Replied(SockOf(v)))'
      BY DEF Carried
    <2>1. Open(SockOf(v))
      BY <1>7, SocketsSame
    <2>2. Asked(SockOf(v)) \/ Handled(SockOf(v)) \/ Replied(SockOf(v))
      BY <1>1, <2>1 DEF N4Ok, Carried
    <2> QED BY <1>2, <1>7, <2>2 DEF Asked, Handled, Replied
  <1>9. \A v \in Worker : Answered(v)' <=> Answered(v)
    BY <1>7 DEF Answered, Replied, UpfOnly
  <1> QED BY <1>3, <1>4, <1>5, <1>6, <1>8, <1>9 DEF N4Ok

\* ... or sends the response r to it.
LEMMA N4Replied ==
    ASSUME SInv, NEW t \in UpfThread, UpfOnly(t), NEW r, n4req' = n4req, n4rsp' = n4rsp \cup {r},
           r.sock = upf_pkt[t].sock, RspOk(r)',
           upf_pc[t] \in Handling, upf_pc'[t] \notin Handling
    PROVE  /\ N4Ok'
           /\ \A v \in Worker : v # r.sock[1] => (Answered(v)' <=> Answered(v))
           /\ Answered(r.sock[1])'
PROOF
  <1>1. N4Ok
    BY DEF SInv
  <1>2. \A u \in UpfThread : u # t => upf_pc'[u] = upf_pc[u] /\ upf_pkt'[u] = upf_pkt[u]
    BY DEF UpfOnly
  <1>3. \A o \in n4req : ReqOk(o)'
    BY <1>1, SocketsSame DEF N4Ok, ReqOk
  <1>4. \A q \in n4rsp' : RspOk(q)'
    BY <1>1, SocketsSame DEF N4Ok, RspOk
  <1>5. ASSUME NEW u \in UpfThread
        PROVE  ThreadOk(u)'
    <2>1. CASE u = t
      BY <2>1 DEF ThreadOk
    <2>2. CASE u # t
      BY <1>1, <2>2, SocketsSame DEF N4Ok, ThreadOk, ReqOk, UpfOnly
    <2> QED BY <2>1, <2>2
  <1>6. OneWay'
    <2>1. /\ \A m \in n4req : m.sock # r.sock
          /\ \A q \in n4rsp : q.sock # r.sock
          /\ \A u \in UpfThread : (upf_pc[u] \in Handling /\ upf_pkt[u].sock = r.sock) => u = t
      BY <1>1 DEF N4Ok, OneWay
    <2>2. \A u \in UpfThread : upf_pc'[u] \in Handling =>
            upf_pc[u] \in Handling /\ upf_pkt'[u] = upf_pkt[u] /\ u # t
      BY <1>2
    <2> QED BY <1>1, <2>1, <2>2 DEF N4Ok, OneWay
  <1>7. \A v \in Worker : SockOf(v)' = SockOf(v)
    BY DEF UpfOnly, SockOf
  <1>8. Carried'
    <2> SUFFICES ASSUME NEW v \in Worker, Open(SockOf(v))'
                 PROVE  (Asked(SockOf(v)) \/ Handled(SockOf(v)) \/ Replied(SockOf(v)))'
      BY DEF Carried
    <2>1. Open(SockOf(v))
      BY <1>7, SocketsSame
    <2>2. Asked(SockOf(v)) \/ Handled(SockOf(v)) \/ Replied(SockOf(v))
      BY <1>1, <2>1 DEF N4Ok, Carried
    <2> QED BY <1>2, <1>7, <2>2 DEF Asked, Handled, Replied
  <1>9. Open(r.sock) /\ r.sock[1] \in Worker
    BY Sockets
  <1>10. r.sock = SockOf(r.sock[1])
    BY <1>9 DEF Open
  <1>11. \A v \in Worker : v # r.sock[1] => SockOf(v) # r.sock
    BY Sockets
  <1>12. \A v \in Worker : v # r.sock[1] => (Answered(v)' <=> Answered(v))
    BY <1>7, <1>11 DEF Answered, Replied, UpfOnly
  <1>13. Answered(r.sock[1])'
    BY <1>7, <1>9, <1>10 DEF Answered, Replied
  <1> QED BY <1>3, <1>4, <1>5, <1>6, <1>8, <1>12, <1>13 DEF N4Ok

\* The tables change only for the UE of c.
Elsewhere(c) ==
    /\ \A i \in TeidSet : i # Teid(UeOf(c)) => s11_id'[i] = s11_id[i] /\ s1_id'[i] = s1_id[i]
    /\ \A i \in ImsiSet : i # Imsi(UeOf(c)) => sgi_id'[i] = sgi_id[i] /\ upf_ctx'[i] = upf_ctx[i]

LEMMA UpfWork ==
    ASSUME SInv, IdInv', MaxRuns = 1, NEW t \in UpfThread, NEW c \in Conn, UpfOnly(t), Elsewhere(c),
           N4Ok', Tables(c)', Cleaning(c)', Bearer(c)',
           \A d \in Conn : d # c => ~ Works(t, UeOf(d)) /\ ~ Works(t, UeOf(d))',
           upf_pc'[t] \in Removing => upf_imsi'[t] = Imsi(UeOf(c)),
           \A v \in Worker : amf_conn[v] # c => (Answered(v)' <=> Answered(v))
    PROVE  SInv'
PROOF
  <1>1. \A d \in Conn : d # c => EntriesSame(d)
    BY Keys DEF Elsewhere, EntriesSame
  <1>2. \A d \in Conn : d # c => \A v \in Worker : Busy(v, d) => (Answered(v)' <=> Answered(v))
    BY DEF Busy
  <1>3. Stray'
    <2>1. \A u \in UpfThread : upf_pc'[u] \in Removing => \E d \in Conn : upf_imsi'[u] = Imsi(UeOf(d))
      BY DEF UpfOnly, SInv, Stray
    <2>2. \A i \in TeidSet : (\A d \in Conn : i # Teid(UeOf(d))) => s11_id'[i] = 0 /\ s1_id'[i] = 0
      BY DEF Elsewhere, SInv, Stray
    <2>3. sgi_id'[0] = 0 /\ ~ upf_ctx'[0].known
      BY Keys, IdentityTypes DEF Elsewhere, SInv, Stray
    <2> QED BY <2>1, <2>2, <2>3 DEF Stray
  <1> QED BY <1>1, <1>2, <1>3, UpfRest

\* The call a request belongs to.
LEMMA Served ==
    ASSUME SInv, NEW m, m.sock[1] \in Worker, ReqOk(m), ~ Replied(m.sock),
           NEW w, w = m.sock[1], NEW c, c = amf_conn[w]
    PROVE  /\ c \in Conn /\ Busy(w, c) /\ amf_pc[w] = m.op /\ m.op \in SmfOp /\ NoDown(c)
           /\ m.sock = SockOf(w)
           /\ \A v \in Worker : v # w => ~ Busy(v, c)
           /\ \A op : ~ Done(c, op)
           /\ m.teid = Teid(UeOf(c)) /\ SockUe(m.sock) = UeOf(c)
           /\ m.op = "create" => m.imsi = Imsi(UeOf(c)) /\ ran_pc[c] = "session"
           /\ m.op = "modify" => ran_pc[c] \in {"data", "detach"}
           /\ m.op = "detach" => ran_pc[c] = "detach"
           /\ Held(c) <=> m.op # "create"
PROOF
  <1>1. /\ rpc[w].op = m.op /\ m.op \in SmfOp /\ rpc[w].st = "busy" /\ m.sock = SockOf(w)
    BY DEF ReqOk, Open
  <1>2. amf_pc[w] = m.op /\ amf_pc[w] # "idle"
    BY <1>1, CallPc DEF SmfOp
  <1>3. /\ c \in Conn /\ Busy(w, c) /\ \A v \in Worker : v # w => ~ Busy(v, c)
        /\ m.op = "create" => NoDown(c) /\ ran_pc[c] = "session"
        /\ m.op = "modify" => NoDown(c) /\ ran_pc[c] \in {"data", "detach"}
        /\ m.op = "detach" => NoDown(c) /\ ran_pc[c] = "detach"
    BY <1>2, WorkerAt
  <1>4. ~ Answered(w)
    BY <1>1 DEF Answered
  <1>5. \A op : ~ Done(c, op)
    BY <1>3, <1>4 DEF Done
  <1>6. NoDown(c)
    BY <1>1, <1>3 DEF SmfOp
  <1>7. Held(c) <=> m.op # "create"
    BY <1>1, <1>3, <1>5, <1>6 DEF Held, SmfOp
  <1> QED BY <1>1, <1>2, <1>3, <1>5, <1>6, <1>7 DEF ReqOk, SockUe

\* A session that is not held has no bearer that was modified.
LEMMA NotModified ==
    ASSUME SInv, NEW c \in Conn, ~ Held(c)
    PROVE  ~ Done(c, "modify")
PROOF
  <1> SUFFICES ASSUME NEW w \in Worker, Busy(w, c), amf_pc[w] = "modify" PROVE FALSE
    BY DEF Done
  <1>1. /\ NoDown(c) /\ ran_pc[c] \in {"data", "detach"}
        /\ \A v \in Worker : v # w => ~ Busy(v, c)
    BY WorkerAt DEF Busy
  <1>2. ~ Done(c, "detach")
    BY <1>1 DEF Done
  <1> QED BY <1>1, <1>2 DEF Held

\* A thread works on the entries of one UE, alone, while its session is not held.
LEMMA Working ==
    ASSUME SInv, MaxRuns = 1, NEW t \in UpfThread, NEW c \in Conn, Works(t, UeOf(c))
    PROVE  /\ Entries(UeOf(c), Part(upf_pc[t])) /\ ~ Held(c) /\ ~ Done(c, "modify")
           /\ \A u \in UpfThread : u # t => ~ Works(u, UeOf(c))
           /\ \A d \in Conn : d # c => ~ Works(t, UeOf(d))
PROOF
  <1>1. Tables(c)
    BY DEF SInv
  <1>2. \A d \in Conn : d # c => Imsi(UeOf(d)) # Imsi(UeOf(c))
    BY Keys
  <1>3. \A d \in Conn : d # c => ~ Works(t, UeOf(d))
    BY <1>2 DEF Works, Maker, Cleaner, Creating, Removing
  <1> QED BY <1>1, <1>3, NotModified DEF Tables

\* The thread goes on to the next table ...
LEMMA GoesOn ==
    ASSUME SInv, IdInv', MaxRuns = 1, NEW t \in UpfThread, NEW c \in Conn, UpfOnly(t), Elsewhere(c),
           Works(t, UeOf(c)), N4Ok', \A v \in Worker : Answered(v)' <=> Answered(v), Cleaning(c)',
           Works(t, UeOf(c))', Entries(UeOf(c), Part(upf_pc[t]))',
           upf_pc'[t] \in Removing => upf_imsi'[t] = Imsi(UeOf(c))
    PROVE  SInv'
PROOF
  <1>1. /\ ~ Held(c) /\ ~ Done(c, "modify")
        /\ \A u \in UpfThread : u # t => ~ Works(u, UeOf(c))
        /\ \A d \in Conn : d # c => ~ Works(t, UeOf(d))
    BY Working
  <1>2. /\ ~ Held(c)' /\ ~ Done(c, "modify")' /\ (Leaving(c)' <=> Leaving(c))
    BY <1>1, CoreHeld DEF UpfOnly
  <1>3. \A u \in UpfThread : u # t => ~ Works(u, UeOf(c))'
    BY <1>1 DEF UpfOnly, Works, Maker, Cleaner
  <1>4. Tables(c)'
    BY <1>2, <1>3 DEF Tables
  <1>5. Bearer(c)'
    BY <1>1, <1>2 DEF Bearer, SInv, UpfOnly, CoreSame
  <1>6. \A d \in Conn : d # c => ~ Works(t, UeOf(d))'
    BY Keys DEF Works, Maker, Cleaner, Creating, Removing
  <1> QED BY <1>1, <1>4, <1>5, <1>6, UpfWork

\* The frame of the steps that send and receive nothing.
LEMMA LinksSame ==
    ASSUME SInv, NEW t \in UpfThread, UpfStep(t), UNCHANGED linkVars,
           \A u \in UpfThread : u # t =>
              /\ upf_pc'[u] = upf_pc[u] /\ upf_pkt'[u] = upf_pkt[u]
              /\ upf_imsi'[u] = upf_imsi[u] /\ upf_old'[u] = upf_old[u]
    PROVE  UpfOnly(t) /\ UNCHANGED <<n4req, n4rsp>>
PROOF BY DEF UpfOnly, CoreSame, SInv, UpfStep, linkVars, ranVars, amfVars, amfTables, amfLocals, smfVars

LEMMA UpfPcSet ==
    ASSUME TypeOK, NEW t \in UpfThread, NEW pc, UpfGoto(t, pc)
    PROVE  upf_pc'[t] = pc /\ \A u \in UpfThread : u # t => upf_pc'[u] = upf_pc[u]
PROOF BY DEF TypeOK, UpfTypeOK, UpfGoto

LEMMA UpfReturnSet ==
    ASSUME TypeOK, NEW t \in UpfThread, UpfReturn(t)
    PROVE  /\ upf_pc'[t] = "idle"
           /\ \A u \in UpfThread : u # t =>
                /\ upf_pc'[u] = upf_pc[u] /\ upf_pkt'[u] = upf_pkt[u]
                /\ upf_imsi'[u] = upf_imsi[u] /\ upf_old'[u] = upf_old[u]
PROOF
  <1>1. /\ upf_pkt \in [UpfThread -> N4Req] /\ upf_imsi \in [UpfThread -> ImsiSet]
        /\ upf_old \in [UpfThread -> UpfContext]
    BY DEF TypeOK, UpfTypeOK
  <1> QED BY <1>1, UpfPcSet DEF UpfReturn

\* A thread in the middle of a handler.
LEMMA HandlerAt ==
    ASSUME SInv, NEW t \in UpfThread, upf_pc[t] \in Handling,
           NEW w, w = upf_pkt[t].sock[1], NEW c, c = amf_conn[w]
    PROVE  /\ w \in Worker /\ c \in Conn /\ ThreadOk(t) /\ ReqOk(upf_pkt[t]) /\ Open(upf_pkt[t].sock)
           /\ ~ Replied(upf_pkt[t].sock) /\ SockUe(upf_pkt[t].sock) = UeOf(c)
           /\ upf_pkt[t].teid = Teid(UeOf(c))
           /\ upf_pc[t] \in Creating =>
                upf_pkt[t].op = "create" /\ upf_pkt[t].imsi = Imsi(UeOf(c)) /\ Works(t, UeOf(c))
           /\ upf_pc[t] \in {"modify", "detach"} =>
                upf_pkt[t].op = upf_pc[t] /\ upf_imsi[t] = Imsi(UeOf(c))
PROOF
  <1>1. ThreadOk(t) /\ OneWay
    BY DEF SInv, N4Ok
  <1>2. ReqOk(upf_pkt[t]) /\ Open(upf_pkt[t].sock) /\ w \in Worker
    BY <1>1, Sockets DEF ThreadOk, ReqOk
  <1>3. ~ Replied(upf_pkt[t].sock)
    BY <1>1 DEF OneWay, Replied
  <1>4. /\ c \in Conn /\ upf_pkt[t].teid = Teid(UeOf(c)) /\ SockUe(upf_pkt[t].sock) = UeOf(c)
        /\ upf_pkt[t].op = "create" => upf_pkt[t].imsi = Imsi(UeOf(c))
    BY <1>2, <1>3, Served
  <1>5. upf_pc[t] \in Creating =>
            upf_pkt[t].op = "create" /\ upf_pkt[t].imsi = Imsi(UeOf(c)) /\ Works(t, UeOf(c))
    BY <1>1, <1>4 DEF ThreadOk, Works, Maker
  <1>6. upf_pc[t] \in {"modify", "detach"} =>
            upf_pkt[t].op = upf_pc[t] /\ upf_imsi[t] = Imsi(UeOf(c))
    BY <1>1, <1>4 DEF ThreadOk
  <1> QED BY <1>1, <1>2, <1>3, <1>4, <1>5, <1>6

\* A thread that makes a session fills the next table.
LEMMA CreateNext ==
    ASSUME SInv, IdInv', MaxRuns = 1, NEW t \in UpfThread, UpfStep(t), CreateS1(t) \/ CreateSgi(t)
    PROVE  SInv'
PROOF
  <1>0. PICK w, c : w = upf_pkt[t].sock[1] /\ c = amf_conn[w]
    OBVIOUS
  <1>1. TypeOK
    BY DEF SInv, IdInv
  <1>2. /\ s1_id \in [TeidSet -> ImsiSet] /\ sgi_id \in [ImsiSet -> ImsiSet]
    BY <1>1 DEF TypeOK, UpfTypeOK
  <1>3. /\ UNCHANGED <<upf_pkt, upf_imsi, upf_old, linkVars, s11_id, upf_ctx>>
        /\ \/ upf_pc[t] = "create_s1" /\ UpfGoto(t, "create_sgi")
           \/ upf_pc[t] = "create_sgi" /\ UpfGoto(t, "create_ctx")
    BY DEF CreateS1, CreateSgi, At
  <1>4. /\ upf_pc[t] \in Creating /\ upf_pc'[t] \in Creating
        /\ \A u \in UpfThread : u # t => upf_pc'[u] = upf_pc[u]
        /\ upf_pc[t] = "create_s1" => upf_pc'[t] = "create_sgi"
        /\ upf_pc[t] = "create_sgi" => upf_pc'[t] = "create_ctx"
    BY <1>1, <1>3, UpfPcSet DEF Creating
  <1>5. UpfOnly(t) /\ UNCHANGED <<n4req, n4rsp>>
    BY <1>3, <1>4, LinksSame
  <1>6. /\ c \in Conn /\ ThreadOk(t) /\ upf_pkt[t].teid = Teid(UeOf(c))
        /\ upf_pkt[t].imsi = Imsi(UeOf(c)) /\ Works(t, UeOf(c))
    BY <1>0, <1>4, HandlerAt DEF Handling
  <1>7. ThreadOk(t)'
    BY <1>3, <1>4, <1>5, <1>6, SocketsSame DEF ThreadOk, ReqOk, Handling, Creating
  <1>8. N4Ok' /\ \A v \in Worker : Answered(v)' <=> Answered(v)
    BY <1>3, <1>4, <1>5, <1>7, N4Silent DEF Handling
  <1>9. Entries(UeOf(c), Part(upf_pc[t])) /\ Teid(UeOf(c)) \in TeidSet /\ Imsi(UeOf(c)) \in ImsiSet
    BY <1>6, Working, Keys
  <1>10. Elsewhere(c) /\ Entries(UeOf(c), Part(upf_pc[t]))'
    <2>1. CASE CreateS1(t)
      <3>1. s1_id' = [s1_id EXCEPT ![Teid(UeOf(c))] = Imsi(UeOf(c))] /\ sgi_id' = sgi_id
        BY <1>6, <2>1 DEF CreateS1
      <3>2. Part(upf_pc[t]) = {"s11"} /\ Part(upf_pc[t])' = {"s11", "s1"}
        BY <1>4, <2>1 DEF CreateS1, At, Part
      <3> QED BY <1>2, <1>3, <1>9, <3>1, <3>2 DEF Elsewhere, Entries, Session
    <2>2. CASE CreateSgi(t)
      <3>1. sgi_id' = [sgi_id EXCEPT ![Imsi(UeOf(c))] = Imsi(UeOf(c))] /\ s1_id' = s1_id
        BY <1>6, <2>2 DEF CreateSgi, ip_addrs
      <3>2. Part(upf_pc[t]) = {"s11", "s1"} /\ Part(upf_pc[t])' = {"s11", "s1", "sgi"}
        BY <1>4, <2>2 DEF CreateSgi, At, Part
      <3> QED BY <1>2, <1>3, <1>9, <3>1, <3>2 DEF Elsewhere, Entries, Session
    <2> QED BY <2>1, <2>2
  <1>11. Works(t, UeOf(c))' /\ upf_pc'[t] \notin Removing
    BY <1>3, <1>4, <1>6 DEF Works, Maker, Creating, Removing
  <1>12. Cleaning(c)'
    <2>1. \A u \in UpfThread : Cleaner(u, UeOf(c))' => Cleaner(u, UeOf(c))
      BY <1>3, <1>4, <1>11 DEF Cleaner
    <2> QED BY <1>3, <1>5, <1>6, <2>1 DEF SInv, Cleaning, UpfOnly, CoreSame
  <1> QED BY <1>5, <1>6, <1>8, <1>10, <1>11, <1>12, GoesOn

\* A thread that cleans up clears the next table.
LEMMA RemoveNext ==
    ASSUME SInv, IdInv', MaxRuns = 1, NEW t \in UpfThread, UpfStep(t),
           RemS11(t) \/ RemS1(t) \/ RemSgi(t)
    PROVE  SInv'
PROOF
  <1>1. TypeOK
    BY DEF SInv, IdInv
  <1>2. /\ s11_id \in [TeidSet -> ImsiSet] /\ s1_id \in [TeidSet -> ImsiSet]
        /\ sgi_id \in [ImsiSet -> ImsiSet]
    BY <1>1 DEF TypeOK, UpfTypeOK
  <1>3. /\ UNCHANGED <<upf_pkt, upf_imsi, upf_old, linkVars, upf_ctx>>
        /\ \/ upf_pc[t] = "rem_s11" /\ UpfGoto(t, "rem_s1")
           \/ upf_pc[t] = "rem_s1" /\ UpfGoto(t, "rem_sgi")
           \/ upf_pc[t] = "rem_sgi" /\ UpfGoto(t, "rem_ctx")
    BY DEF RemS11, RemS1, RemSgi, At
  <1>4. /\ upf_pc[t] \in Removing /\ upf_pc'[t] \in Removing
        /\ \A u \in UpfThread : u # t => upf_pc'[u] = upf_pc[u]
        /\ upf_pc[t] = "rem_s11" => upf_pc'[t] = "rem_s1"
        /\ upf_pc[t] = "rem_s1" => upf_pc'[t] = "rem_sgi"
        /\ upf_pc[t] = "rem_sgi" => upf_pc'[t] = "rem_ctx"
    BY <1>1, <1>3, UpfPcSet DEF Removing
  <1>5. UpfOnly(t) /\ UNCHANGED <<n4req, n4rsp>>
    BY <1>3, <1>4, LinksSame
  <1>6. PICK c \in Conn : upf_imsi[t] = Imsi(UeOf(c))
    BY <1>4 DEF SInv, Stray
  <1>7. Cleaner(t, UeOf(c)) /\ Works(t, UeOf(c)) /\ Cleaner(t, UeOf(c))' /\ Works(t, UeOf(c))'
    BY <1>3, <1>4, <1>6 DEF Works, Cleaner
  <1>8. /\ upf_old[t].upf = Teid(UeOf(c)) /\ upf_old[t].ul = Teid(UeOf(c))
        /\ upf_old[t].ip = Imsi(UeOf(c))
    BY <1>7 DEF SInv, Cleaning
  <1>9. upf_pc[t] \notin Handling /\ upf_pc'[t] \notin Handling
    BY <1>4 DEF Removing, Handling, Creating
  <1>10. N4Ok' /\ \A v \in Worker : Answered(v)' <=> Answered(v)
    BY <1>5, <1>9, N4Silent DEF ThreadOk
  <1>11. Entries(UeOf(c), Part(upf_pc[t])) /\ Teid(UeOf(c)) \in TeidSet /\ Imsi(UeOf(c)) \in ImsiSet
    BY <1>7, Working, Keys
  <1>12. Elsewhere(c) /\ Entries(UeOf(c), Part(upf_pc[t]))'
    <2>1. CASE RemS11(t)
      <3>1. s11_id' = [s11_id EXCEPT ![Teid(UeOf(c))] = 0] /\ s1_id' = s1_id /\ sgi_id' = sgi_id
        BY <1>8, <2>1 DEF RemS11
      <3>2. Part(upf_pc[t]) = AllTables /\ Part(upf_pc[t])' = {"s1", "sgi", "ctx"}
        BY <1>4, <2>1 DEF RemS11, At, Part
      <3> QED BY <1>2, <1>3, <1>11, <3>1, <3>2 DEF Elsewhere, Entries, Session, AllTables
    <2>2. CASE RemS1(t)
      <3>1. s1_id' = [s1_id EXCEPT ![Teid(UeOf(c))] = 0] /\ s11_id' = s11_id /\ sgi_id' = sgi_id
        BY <1>8, <2>2 DEF RemS1
      <3>2. Part(upf_pc[t]) = {"s1", "sgi", "ctx"} /\ Part(upf_pc[t])' = {"sgi", "ctx"}
        BY <1>4, <2>2 DEF RemS1, At, Part
      <3> QED BY <1>2, <1>3, <1>11, <3>1, <3>2 DEF Elsewhere, Entries, Session
    <2>3. CASE RemSgi(t)
      <3>1. sgi_id' = [sgi_id EXCEPT ![Imsi(UeOf(c))] = 0] /\ s11_id' = s11_id /\ s1_id' = s1_id
        BY <1>8, <2>3 DEF RemSgi
      <3>2. Part(upf_pc[t]) = {"sgi", "ctx"} /\ Part(upf_pc[t])' = {"ctx"}
        BY <1>4, <2>3 DEF RemSgi, At, Part
      <3> QED BY <1>2, <1>3, <1>11, <3>1, <3>2 DEF Elsewhere, Entries, Session
    <2> QED BY <2>1, <2>2, <2>3
  <1>13. Cleaning(c)'
    <2>1. \A u \in UpfThread : Cleaner(u, UeOf(c))' => Cleaner(u, UeOf(c))
      BY <1>3, <1>4, <1>7 DEF Cleaner
    <2> QED BY <1>3, <1>5, <2>1 DEF SInv, Cleaning, UpfOnly, CoreSame
  <1>14. upf_pc'[t] \in Removing => upf_imsi'[t] = Imsi(UeOf(c))
    BY <1>3, <1>6
  <1> QED BY <1>5, <1>7, <1>10, <1>12, <1>13, <1>14, GoesOn

\* ... and is done with the context, the last of them.
LEMMA RemoveLast ==
    ASSUME SInv, IdInv', MaxRuns = 1, NEW t \in UpfThread, UpfStep(t), RemCtx(t)
    PROVE  SInv'
PROOF
  <1>1. TypeOK /\ upf_ctx \in [ImsiSet -> UpfContext]
    BY DEF SInv, IdInv, TypeOK, UpfTypeOK
  <1>2. /\ upf_pc[t] = "rem_ctx" /\ UpfReturn(t) /\ UNCHANGED <<s11_id, s1_id, sgi_id, linkVars>>
        /\ upf_ctx' = [upf_ctx EXCEPT ![upf_imsi[t]] = NoUpfCtx]
    BY DEF RemCtx, At
  <1>3. /\ upf_pc'[t] = "idle"
        /\ \A u \in UpfThread : u # t =>
            /\ upf_pc'[u] = upf_pc[u] /\ upf_pkt'[u] = upf_pkt[u]
            /\ upf_imsi'[u] = upf_imsi[u] /\ upf_old'[u] = upf_old[u]
    BY <1>1, <1>2, UpfReturnSet
  <1>4. UpfOnly(t) /\ UNCHANGED <<n4req, n4rsp>>
    BY <1>2, <1>3, LinksSame
  <1>5. PICK c \in Conn : upf_imsi[t] = Imsi(UeOf(c))
    BY <1>2 DEF SInv, Stray, Removing
  <1>6. Works(t, UeOf(c))
    BY <1>2, <1>5 DEF Works, Cleaner, Removing
  <1>7. /\ Entries(UeOf(c), Part(upf_pc[t])) /\ ~ Held(c) /\ ~ Done(c, "modify")
        /\ \A u \in UpfThread : u # t => ~ Works(u, UeOf(c))
        /\ \A d \in Conn : d # c => ~ Works(t, UeOf(d))
    BY <1>6, Working
  <1>8. N4Ok' /\ \A v \in Worker : Answered(v)' <=> Answered(v)
    BY <1>2, <1>3, <1>4, N4Silent DEF ThreadOk, Handling, Creating
  <1>9. ~ Held(c)' /\ ~ Done(c, "modify")' /\ (Leaving(c)' <=> Leaving(c))
    BY <1>4, <1>7, <1>8, CoreHeld DEF UpfOnly
  <1>10. Elsewhere(c) /\ upf_ctx'[Imsi(UeOf(c))] = NoUpfCtx
    BY <1>1, <1>2, <1>5, Keys DEF Elsewhere
  <1>11. Entries(UeOf(c), {})'
    <2>1. Part(upf_pc[t]) = {"ctx"}
      BY <1>2 DEF Part
    <2> QED BY <1>2, <1>7, <1>10, <2>1 DEF Entries
  <1>12. \A u \in UpfThread, d \in Conn : Works(u, UeOf(d))' => u # t /\ Works(u, UeOf(d))
    BY <1>3 DEF Works, Maker, Cleaner, Creating, Removing
  <1>13. Tables(c)'
    BY <1>7, <1>9, <1>11, <1>12 DEF Tables
  <1>14. Cleaning(c)'
    <2>1. \A u \in UpfThread : ~ Cleaner(u, UeOf(c))'
      BY <1>7, <1>12 DEF Works
    <2> QED BY <2>1 DEF Cleaning
  <1>15. Bearer(c)'
    BY <1>4, <1>7, <1>9 DEF Bearer, SInv, UpfOnly, CoreSame
  <1>16. \A d \in Conn : d # c => ~ Works(t, UeOf(d)) /\ ~ Works(t, UeOf(d))'
    BY <1>7, <1>12
  <1>17. upf_pc'[t] \notin Removing
    BY <1>3 DEF Removing
  <1> QED BY <1>4, <1>8, <1>10, <1>13, <1>14, <1>15, <1>16, <1>17, UpfWork

\* A thread takes a request from the socket.
LEMMA TakesRequest ==
    ASSUME SInv, NEW t \in UpfThread, UpfStep(t), NEW m \in n4req, NEW op, NEW pc, RcvN4(t, m, op),
           UNCHANGED <<up, down, conn, rpc, calls, n4rsp, exited, upf_old>>, UpfGoto(t, pc),
           \A u \in UpfThread : u # t => upf_imsi'[u] = upf_imsi[u]
    PROVE  /\ UpfOnly(t) /\ n4req' = n4req \ {m} /\ n4rsp' = n4rsp /\ upf_pc[t] = "idle"
           /\ upf_pkt'[t] = m /\ m.op = op /\ upf_pc'[t] = pc
           /\ ReqOk(m) /\ m.sock[1] \in Worker /\ ~ Replied(m.sock)
PROOF
  <1>1. TypeOK /\ upf_pkt \in [UpfThread -> N4Req]
    BY DEF SInv, IdInv, TypeOK, UpfTypeOK
  <1>2. /\ upf_pc[t] = "idle" /\ m.op = op /\ n4req' = n4req \ {m}
        /\ upf_pkt' = [upf_pkt EXCEPT ![t] = m]
    BY DEF RcvN4
  <1>3. /\ upf_pc'[t] = pc /\ upf_pkt'[t] = m
        /\ \A u \in UpfThread : u # t => upf_pc'[u] = upf_pc[u] /\ upf_pkt'[u] = upf_pkt[u]
    BY <1>1, <1>2, UpfPcSet
  <1>4. UpfOnly(t)
    BY <1>3 DEF UpfOnly, CoreSame, SInv, UpfStep, ranVars, amfVars, amfTables, amfLocals, smfVars
  <1>5. ReqOk(m) /\ m.sock[1] \in Worker
    BY Sockets DEF SInv, N4Ok
  <1>6. ~ Replied(m.sock)
    BY DEF SInv, N4Ok, OneWay, Replied
  <1> QED BY <1>2, <1>3, <1>4, <1>5, <1>6

\* A new session: nobody else works on it, and nothing is left of an earlier one.
LEMMA CreateFirst ==
    ASSUME SInv, IdInv', Reliable, NEW t \in UpfThread, UpfStep(t), NEW m \in n4req, CreateS11(t, m)
    PROVE  SInv'
PROOF
  <1>0. PICK w, c : w = m.sock[1] /\ c = amf_conn[w]
    OBVIOUS
  <1>1. MaxRuns = 1 /\ TypeOK /\ s11_id \in [TeidSet -> ImsiSet]
    BY DEF SInv, IdInv, TypeOK, UpfTypeOK, Reliable
  <1>2. /\ RcvN4(t, m, "create") /\ s11_id' = [s11_id EXCEPT ![m.teid] = m.imsi]
        /\ UpfGoto(t, "create_s1") /\ UNCHANGED <<s1_id, sgi_id, upf_ctx, upf_imsi, upf_old>>
        /\ UNCHANGED <<up, down, conn, rpc, calls, n4rsp, exited>>
    BY DEF CreateS11
  <1>3. /\ UpfOnly(t) /\ n4req' = n4req \ {m} /\ n4rsp' = n4rsp /\ upf_pc[t] = "idle"
        /\ upf_pkt'[t] = m /\ m.op = "create" /\ upf_pc'[t] = "create_s1"
        /\ ReqOk(m) /\ m.sock[1] \in Worker /\ ~ Replied(m.sock)
    BY <1>2, TakesRequest
  <1>4. /\ w \in Worker /\ c \in Conn /\ Busy(w, c) /\ m.sock = SockOf(w)
        /\ m.teid = Teid(UeOf(c)) /\ m.imsi = Imsi(UeOf(c)) /\ ran_pc[c] = "session"
        /\ ~ Held(c) /\ \A v \in Worker : v # w => ~ Busy(v, c)
    BY <1>0, <1>3, Served
  <1>5. ASSUME NEW u \in UpfThread
        PROVE  ~ Works(u, UeOf(c))
    <2>1. ~ Maker(u, UeOf(c))
      <3> SUFFICES ASSUME Maker(u, UeOf(c)) PROVE FALSE
        OBVIOUS
      <3>1. upf_pc[u] \in Creating /\ upf_pc[u] \in Handling /\ upf_pkt[u].imsi = Imsi(UeOf(c))
        BY DEF Maker, Handling
      <3>2. PICK v, d : v = upf_pkt[u].sock[1] /\ d = amf_conn[v]
        OBVIOUS
      <3>3. /\ v \in Worker /\ d \in Conn /\ upf_pkt[u].imsi = Imsi(UeOf(d)) /\ ReqOk(upf_pkt[u])
            /\ ~ Replied(upf_pkt[u].sock)
        BY <3>1, <3>2, HandlerAt
      <3>4. d = c
        BY <1>1, <1>4, <3>1, <3>3, Keys
      <3>5. Busy(v, d) /\ upf_pkt[u].sock = SockOf(v)
        BY <3>2, <3>3, Served
      <3>6. upf_pkt[u].sock = m.sock
        BY <1>4, <3>3, <3>4, <3>5
      <3> QED BY <3>1, <3>6 DEF SInv, N4Ok, OneWay
    <2>2. ~ Cleaner(u, UeOf(c))
      <3> SUFFICES ASSUME Cleaner(u, UeOf(c)) PROVE FALSE
        OBVIOUS
      <3>1. CASE MaxAttach = 1
        BY <1>4, <3>1 DEF SInv, Cleaning
      <3>2. CASE \E x \in UpfThread : UpfThread = {x}
        <4>1. u = t
          BY <3>2
        <4> QED BY <1>3, <4>1 DEF Cleaner, Removing
      <3> QED BY <3>1, <3>2 DEF Reliable
    <2> QED BY <2>1, <2>2 DEF Works
  <1>6. Entries(UeOf(c), {}) /\ Teid(UeOf(c)) \in TeidSet
    BY <1>1, <1>4, <1>5, Keys DEF SInv, Tables
  <1>7. ThreadOk(t)' /\ upf_pc'[t] \in Handling /\ upf_pc[t] \notin Handling
    <2>1. ReqOk(m)'
      BY <1>3, SocketsSame DEF ReqOk
    <2> QED BY <1>3, <2>1 DEF ThreadOk, Handling, Creating
  <1>8. N4Ok' /\ \A v \in Worker : Answered(v)' <=> Answered(v)
    BY <1>3, <1>7, N4Taken
  <1>9. /\ ~ Held(c)' /\ (Done(c, "modify")' <=> Done(c, "modify")) /\ (Leaving(c)' <=> Leaving(c))
    BY <1>3, <1>4, <1>8, CoreHeld DEF UpfOnly
  <1>10. Elsewhere(c) /\ Entries(UeOf(c), Part(upf_pc[t]))'
    <2>1. Part(upf_pc[t])' = {"s11"}
      BY <1>3 DEF Part
    <2> QED BY <1>1, <1>2, <1>4, <1>6, <2>1 DEF Elsewhere, Entries
  <1>11. \A u \in UpfThread : u # t => ~ Works(u, UeOf(c))'
    BY <1>3, <1>5 DEF UpfOnly, Works, Maker, Cleaner
  <1>12. Tables(c)'
    <2>1. Works(t, UeOf(c))'
      BY <1>3, <1>4 DEF Works, Maker, Creating
    <2> QED BY <1>9, <1>10, <1>11, <2>1 DEF Tables
  <1>13. Cleaning(c)'
    <2>1. \A u \in UpfThread : ~ Cleaner(u, UeOf(c))'
      <3>1. ~ Cleaner(t, UeOf(c))'
        BY <1>3 DEF Cleaner, Removing
      <3> QED BY <1>11, <3>1 DEF Works
    <2> QED BY <2>1 DEF Cleaning
  <1>14. Bearer(c)'
    BY <1>2, <1>3, <1>4, <1>9 DEF Bearer, SInv, UpfOnly, CoreSame
  <1>15. \A d \in Conn : d # c => ~ Works(t, UeOf(d)) /\ ~ Works(t, UeOf(d))'
    <2>1. ASSUME NEW d \in Conn
          PROVE  ~ Works(t, UeOf(d))
      BY <1>3 DEF Works, Maker, Cleaner, Creating, Removing
    <2>2. ASSUME NEW d \in Conn, d # c
          PROVE  ~ Works(t, UeOf(d))'
      <3>1. Imsi(UeOf(d)) # Imsi(UeOf(c))
        BY <1>1, <1>4, <2>2, Keys
      <3> QED BY <1>3, <1>4, <3>1 DEF Works, Maker, Cleaner, Removing
    <2> QED BY <2>1, <2>2
  <1>16. upf_pc'[t] \notin Removing
    BY <1>3 DEF Removing
  <1> QED BY <1>1, <1>3, <1>4, <1>8, <1>10, <1>12, <1>13, <1>14, <1>15, <1>16, UpfWork

\* A session that is to be modified or dropped is found.
LEMMA LookupSession ==
    ASSUME SInv, IdInv', MaxRuns = 1, NEW t \in UpfThread, UpfStep(t), NEW m \in n4req,
           NEW op \in {"modify", "detach"}, Lookup(t, m, op)
    PROVE  SInv'
PROOF
  <1>0. PICK w, c : w = m.sock[1] /\ c = amf_conn[w]
    OBVIOUS
  <1>1. TypeOK /\ upf_imsi \in [UpfThread -> ImsiSet]
    BY DEF SInv, IdInv, TypeOK, UpfTypeOK
  <1>2. /\ RcvN4(t, m, op) /\ UNCHANGED <<s11_id, s1_id, sgi_id, upf_ctx, upf_old>>
        /\ upf_imsi' = [upf_imsi EXCEPT ![t] = s11_id[m.teid]]
        /\ UNCHANGED <<up, down, conn, rpc, calls, n4rsp>> /\ m.op = op
    BY DEF Lookup, upfTables, RcvN4
  <1>3. ReqOk(m) /\ m.sock[1] \in Worker /\ ~ Replied(m.sock)
    BY Sockets DEF SInv, N4Ok, OneWay, Replied
  <1>4. /\ w \in Worker /\ c \in Conn /\ Held(c) /\ m.teid = Teid(UeOf(c))
        /\ SockUe(m.sock) = UeOf(c)
    BY <1>0, <1>2, <1>3, Served
  <1>5. s11_id[m.teid] = Imsi(UeOf(c)) /\ Imsi(UeOf(c)) # 0
    BY <1>4, Keys DEF SInv, Tables, Entries, AllTables
  <1>6. UpfGoto(t, op) /\ exited' = exited
    BY <1>5 DEF Lookup
  <1>7. upf_imsi'[t] = Imsi(UeOf(c)) /\ \A u \in UpfThread : u # t => upf_imsi'[u] = upf_imsi[u]
    BY <1>1, <1>2, <1>5
  <1>8. /\ UpfOnly(t) /\ n4req' = n4req \ {m} /\ n4rsp' = n4rsp /\ upf_pc[t] = "idle"
        /\ upf_pkt'[t] = m /\ upf_pc'[t] = op
    BY <1>2, <1>6, <1>7, TakesRequest
  <1>9. ThreadOk(t)' /\ upf_pc'[t] \in Handling /\ upf_pc[t] \notin Handling
    <2>1. ReqOk(m)' /\ SockUe(m.sock)' = UeOf(c)
      BY <1>3, <1>4, <1>8, SocketsSame DEF ReqOk
    <2> QED BY <1>2, <1>7, <1>8, <2>1 DEF ThreadOk, Handling, Creating
  <1>10. N4Ok' /\ \A v \in Worker : Answered(v)' <=> Answered(v)
    BY <1>8, <1>9, N4Taken
  <1>11. \A d \in Conn, u \in UpfThread : Works(u, UeOf(d))' <=> Works(u, UeOf(d))
    BY <1>8 DEF UpfOnly, Works, Maker, Cleaner, Creating, Removing
  <1>12. \A d \in Conn : ~ Works(t, UeOf(d))
    BY <1>8 DEF Works, Maker, Cleaner, Creating, Removing
  <1>13. /\ (Held(c)' <=> Held(c)) /\ (Done(c, "modify")' <=> Done(c, "modify"))
         /\ (Leaving(c)' <=> Leaving(c))
    BY <1>4, <1>8, <1>10, CoreHeld DEF UpfOnly
  <1>14. Tables(c)'
    <2>1. ASSUME NEW A
          PROVE  Entries(UeOf(c), A)' <=> Entries(UeOf(c), A)
      BY <1>2 DEF Entries, Session
    <2>2. \A u \in UpfThread : u # t => upf_pc'[u] = upf_pc[u]
      BY <1>8 DEF UpfOnly
    <2>3. Tables(c)
      BY <1>4 DEF SInv
    <2> QED BY <1>4, <1>11, <1>12, <1>13, <2>1, <2>2, <2>3 DEF Tables
  <1>15. Cleaning(c)'
    <2>1. \A u \in UpfThread : Cleaner(u, UeOf(c))' => Cleaner(u, UeOf(c)) /\ u # t
      BY <1>8 DEF UpfOnly, Cleaner, Removing
    <2> QED BY <1>4, <1>8, <2>1 DEF SInv, Cleaning, UpfOnly, CoreSame
  <1>16. Bearer(c)'
    BY <1>2, <1>4, <1>8, <1>13 DEF Bearer, SInv, UpfOnly, CoreSame
  <1>17. Elsewhere(c) /\ upf_pc'[t] \notin Removing
    BY <1>2, <1>8 DEF Elsewhere, Removing
  <1> QED BY <1>4, <1>8, <1>10, <1>11, <1>12, <1>14, <1>15, <1>16, <1>17, UpfWork

\* The handler answers: the socket of its call is open.
LEMMA RespondSet ==
    ASSUME SInv, NEW t \in UpfThread, upf_pc[t] \in Handling, NEW teid, NEW ip, NEW ul,
           Respond(t, teid, ip, ul)
    PROVE  \E r : /\ n4rsp' = n4rsp \cup {r} /\ r.sock = upf_pkt[t].sock /\ r.res
                  /\ r.teid = teid /\ r.ip = ip /\ r.ul = ul
PROOF
  <1>1. Open(upf_pkt[t].sock)
    BY Sockets
  <1>2. PICK r : r = [sock |-> upf_pkt[t].sock, teid |-> teid, ip |-> ip, ul |-> ul, res |-> TRUE]
    OBVIOUS
  <1>3. n4rsp' = n4rsp \cup {r}
    BY <1>1, <1>2 DEF Respond
  <1>4. r.res
    BY <1>2
  <1>5. r.sock = upf_pkt[t].sock /\ r.teid = teid /\ r.ip = ip /\ r.ul = ul
    BY <1>2
  <1> QED BY <1>3, <1>4, <1>5

\* ... and its operation is then done.
LEMMA DoneNow ==
    ASSUME SInv, NEW t \in UpfThread, UpfOnly(t), NEW w \in Worker, NEW c \in Conn, Busy(w, c),
           \A v \in Worker : v # w => ~ Busy(v, c), Answered(w)', NEW op
    PROVE  /\ Done(c, op)' <=> amf_pc[w] = op
           /\ Leaving(c)' <=> Leaving(c)
           /\ NoDown(c)' <=> NoDown(c)
PROOF
  <1>1. \A v \in Worker : Busy(v, c)' <=> Busy(v, c)
    BY DEF UpfOnly, CoreSame, Busy
  <1>2. Done(c, op)' <=> amf_pc[w] = op
    BY <1>1 DEF Done, UpfOnly, CoreSame
  <1>3. Leaving(c)' <=> Leaving(c)
    BY <1>1 DEF Leaving, UpfOnly, CoreSame
  <1> QED BY <1>2, <1>3 DEF NoDown, UpfOnly, CoreSame

\* The session is complete and reported as created.
LEMMA CreateLast ==
    ASSUME SInv, IdInv', MaxRuns = 1, NEW t \in UpfThread, UpfStep(t), CreateCtx(t)
    PROVE  SInv'
PROOF
  <1>0. PICK w, c : w = upf_pkt[t].sock[1] /\ c = amf_conn[w]
    OBVIOUS
  <1>1. TypeOK /\ upf_ctx \in [ImsiSet -> UpfContext]
    BY DEF SInv, IdInv, TypeOK, UpfTypeOK
  <1>2. /\ upf_pc[t] = "create_ctx" /\ UpfReturn(t)
        /\ UNCHANGED <<s11_id, s1_id, sgi_id, up, down, conn, rpc, calls, n4req, exited>>
    BY DEF CreateCtx, At
  <1>3. /\ upf_pc'[t] = "idle" /\ upf_pc[t] \in Creating /\ upf_pc[t] \in Handling
        /\ \A u \in UpfThread : u # t =>
            /\ upf_pc'[u] = upf_pc[u] /\ upf_pkt'[u] = upf_pkt[u]
            /\ upf_imsi'[u] = upf_imsi[u] /\ upf_old'[u] = upf_old[u]
    BY <1>1, <1>2, UpfReturnSet DEF Creating, Handling
  <1>4. UpfOnly(t)
    BY <1>2, <1>3 DEF UpfOnly, CoreSame, SInv, UpfStep, ranVars, amfVars, amfTables, amfLocals, smfVars
  <1>5. /\ w \in Worker /\ c \in Conn /\ ReqOk(upf_pkt[t]) /\ Open(upf_pkt[t].sock)
        /\ ~ Replied(upf_pkt[t].sock) /\ SockUe(upf_pkt[t].sock) = UeOf(c)
        /\ upf_pkt[t].teid = Teid(UeOf(c)) /\ upf_pkt[t].imsi = Imsi(UeOf(c))
        /\ upf_pkt[t].op = "create" /\ Works(t, UeOf(c))
    BY <1>0, <1>3, HandlerAt
  <1>6. /\ Busy(w, c) /\ amf_pc[w] = "create" /\ ran_pc[c] = "session" /\ NoDown(c)
        /\ \A v \in Worker : v # w => ~ Busy(v, c)
    BY <1>0, <1>5, Served
  <1>7. /\ Entries(UeOf(c), Part(upf_pc[t])) /\ ~ Held(c)
        /\ \A u \in UpfThread : u # t => ~ Works(u, UeOf(c))
        /\ \A d \in Conn : d # c => ~ Works(t, UeOf(d))
    BY <1>5, Working
  <1>8. Imsi(UeOf(c)) \in ImsiSet /\ NoUpfCtx \in UpfContext
    BY <1>1, <1>5, Keys, UpfCtxTypes
  <1>9. /\ upf_ctx[Imsi(UeOf(c))] = NoUpfCtx /\ s11_id[Teid(UeOf(c))] = Imsi(UeOf(c))
        /\ s1_id[Teid(UeOf(c))] = Imsi(UeOf(c)) /\ sgi_id[Imsi(UeOf(c))] = Imsi(UeOf(c))
    <2>1. Part(upf_pc[t]) = {"s11", "s1", "sgi"}
      BY <1>2 DEF Part
    <2> QED BY <1>7, <2>1 DEF Entries
  <1>10. /\ upf_ctx' = [upf_ctx EXCEPT ![Imsi(UeOf(c))] =
                [upf_ctx[Imsi(UeOf(c))] EXCEPT !.known = TRUE, !.ip = Imsi(UeOf(c)),
                    !.ul = Teid(UeOf(c)), !.smf = Teid(UeOf(c)), !.upf = Teid(UeOf(c))]]
         /\ Respond(t, Teid(UeOf(c)), Imsi(UeOf(c)), Teid(UeOf(c)))
    BY <1>5 DEF CreateCtx, ip_addrs
  <1>11. Elsewhere(c)
    BY <1>1, <1>2, <1>10 DEF Elsewhere
  <1>12. Session(UeOf(c))'
    BY <1>1, <1>8, <1>10 DEF Session, UpfContext
  <1>13. Entries(UeOf(c), AllTables)'
    BY <1>2, <1>9, <1>12 DEF Entries, AllTables
  <1>14. PICK r : /\ n4rsp' = n4rsp \cup {r} /\ r.sock = upf_pkt[t].sock /\ r.res
                  /\ r.teid = Teid(UeOf(c)) /\ r.ip = Imsi(UeOf(c)) /\ r.ul = Teid(UeOf(c))
    BY <1>3, <1>10, RespondSet
  <1>15. RspOk(r)' /\ upf_pc'[t] \notin Handling
    BY <1>3, <1>4, <1>5, <1>14, SocketsSame DEF RspOk, Handling, Creating
  <1>16. /\ N4Ok' /\ Answered(w)'
         /\ \A v \in Worker : v # w => (Answered(v)' <=> Answered(v))
    BY <1>0, <1>2, <1>3, <1>4, <1>14, <1>15, N4Replied
  <1>17. Held(c)' /\ ~ Done(c, "modify")'
    <2>1. Done(c, "create")' /\ NoDown(c)' /\ ~ Done(c, "modify")'
      BY <1>4, <1>5, <1>6, <1>16, DoneNow
    <2> QED BY <1>4, <1>6, <2>1 DEF Held, UpfOnly, CoreSame
  <1>18. \A u \in UpfThread, d \in Conn : Works(u, UeOf(d))' => u # t /\ Works(u, UeOf(d))
    BY <1>3 DEF Works, Maker, Cleaner, Creating, Removing
  <1>19. Tables(c)'
    BY <1>5, <1>7, <1>13, <1>17, <1>18 DEF Tables
  <1>20. Cleaning(c)'
    <2>1. \A u \in UpfThread : ~ Cleaner(u, UeOf(c))'
      BY <1>5, <1>7, <1>18 DEF Works
    <2> QED BY <2>1 DEF Cleaning
  <1>21. Bearer(c)'
    <2>1. ~ Leaving(c)
      BY <1>6 DEF Leaving
    <2>2. ue_ctx'[Guti(UeOf(c))].ecm_state # 1
      BY <1>4, <1>5, <1>7, <2>1 DEF SInv, Bearer, UpfOnly, CoreSame
    <2> QED BY <1>17, <2>2 DEF Bearer
  <1>22. \A d \in Conn : d # c => ~ Works(t, UeOf(d)) /\ ~ Works(t, UeOf(d))'
    BY <1>7, <1>18
  <1>23. upf_pc'[t] \notin Removing /\ amf_conn[w] = c
    BY <1>0, <1>3 DEF Removing
  <1> QED BY <1>4, <1>5, <1>11, <1>16, <1>19, <1>20, <1>21, <1>22, <1>23, UpfWork

\* The bearer is modified in the context the session has.
LEMMA ModifySession ==
    ASSUME SInv, IdInv', MaxRuns = 1, NEW t \in UpfThread, UpfStep(t), ModifyCtx(t)
    PROVE  SInv'
PROOF
  <1>0. PICK w, c : w = upf_pkt[t].sock[1] /\ c = amf_conn[w]
    OBVIOUS
  <1>1. TypeOK /\ upf_ctx \in [ImsiSet -> UpfContext]
    BY DEF SInv, IdInv, TypeOK, UpfTypeOK
  <1>2. /\ upf_pc[t] = "modify" /\ UpfReturn(t) /\ Respond(t, 0, 0, 0)
        /\ UNCHANGED <<s11_id, s1_id, sgi_id, up, down, conn, rpc, calls, n4req, exited>>
    BY DEF ModifyCtx, At
  <1>3. /\ upf_pc'[t] = "idle" /\ upf_pc[t] \in Handling
        /\ \A u \in UpfThread : u # t =>
            /\ upf_pc'[u] = upf_pc[u] /\ upf_pkt'[u] = upf_pkt[u]
            /\ upf_imsi'[u] = upf_imsi[u] /\ upf_old'[u] = upf_old[u]
    BY <1>1, <1>2, UpfReturnSet DEF Creating, Handling
  <1>4. UpfOnly(t)
    BY <1>2, <1>3 DEF UpfOnly, CoreSame, SInv, UpfStep, ranVars, amfVars, amfTables, amfLocals, smfVars
  <1>5. /\ w \in Worker /\ c \in Conn /\ ReqOk(upf_pkt[t]) /\ Open(upf_pkt[t].sock)
        /\ ~ Replied(upf_pkt[t].sock) /\ upf_pkt[t].op = "modify" /\ upf_imsi[t] = Imsi(UeOf(c))
    BY <1>0, <1>2, <1>3, HandlerAt
  <1>6. /\ Busy(w, c) /\ amf_pc[w] = "modify" /\ ran_pc[c] \in {"data", "detach"} /\ NoDown(c)
        /\ Held(c) /\ \A v \in Worker : v # w => ~ Busy(v, c)
    BY <1>0, <1>5, Served
  <1>7. /\ Entries(UeOf(c), AllTables) /\ \A u \in UpfThread : ~ Works(u, UeOf(c))
    BY <1>5, <1>6 DEF SInv, Tables
  <1>8. Session(UeOf(c)) /\ upf_ctx[Imsi(UeOf(c))] \in UpfContext /\ Imsi(UeOf(c)) \in ImsiSet
    BY <1>1, <1>5, <1>7, Keys DEF Entries, AllTables
  <1>9. PICK dl : upf_ctx' = [upf_ctx EXCEPT ![Imsi(UeOf(c))] =
            [upf_ctx[Imsi(UeOf(c))] EXCEPT !.known = TRUE, !.ul = Teid(UeOf(c)), !.dl = dl, !.enb = TRUE]]
    <2>1. upf_ctx[Imsi(UeOf(c))].known /\ upf_ctx[Imsi(UeOf(c))].ul = Teid(UeOf(c))
      BY <1>8 DEF Session
    <2>2. PICK ul \in {upf_ctx[Imsi(UeOf(c))].ul} :
            upf_ctx' = [upf_ctx EXCEPT ![Imsi(UeOf(c))] =
              [@ EXCEPT !.known = TRUE, !.ul = ul, !.dl = upf_pkt[t].dl, !.enb = TRUE]]
      BY <1>5, <2>1 DEF ModifyCtx
    <2>3. ul = Teid(UeOf(c))
      BY <2>1, <2>2
    <2> QED BY <2>2, <2>3
  <1>10. Elsewhere(c)
    BY <1>1, <1>2, <1>9 DEF Elsewhere
  <1>11. Session(UeOf(c))' /\ upf_ctx'[Imsi(UeOf(c))].enb
    <2>1. upf_ctx'[Imsi(UeOf(c))] = [upf_ctx[Imsi(UeOf(c))] EXCEPT !.known = TRUE,
                                        !.ul = Teid(UeOf(c)), !.dl = dl, !.enb = TRUE]
      BY <1>1, <1>8, <1>9
    <2>2. /\ upf_ctx'[Imsi(UeOf(c))].ip = upf_ctx[Imsi(UeOf(c))].ip
          /\ upf_ctx'[Imsi(UeOf(c))].upf = upf_ctx[Imsi(UeOf(c))].upf
          /\ upf_ctx'[Imsi(UeOf(c))].ul = Teid(UeOf(c))
      BY <1>8, <2>1 DEF UpfContext
    <2>3. upf_ctx'[Imsi(UeOf(c))].known = TRUE /\ upf_ctx'[Imsi(UeOf(c))].enb = TRUE
      BY <1>8, <2>1 DEF UpfContext
    <2> QED BY <1>8, <2>2, <2>3 DEF Session
  <1>12. Entries(UeOf(c), AllTables)'
    BY <1>2, <1>7, <1>11 DEF Entries, AllTables
  <1>13. PICK r : n4rsp' = n4rsp \cup {r} /\ r.sock = upf_pkt[t].sock /\ r.res
    BY <1>2, <1>3, RespondSet
  <1>14. RspOk(r)' /\ upf_pc'[t] \notin Handling
    <2>1. rpc[r.sock[1]].op = "modify"
      BY <1>5, <1>13 DEF ReqOk
    <2> QED BY <1>3, <1>4, <1>5, <1>13, <2>1, SocketsSame DEF RspOk, Handling, Creating
  <1>15. /\ N4Ok' /\ Answered(w)'
         /\ \A v \in Worker : v # w => (Answered(v)' <=> Answered(v))
    BY <1>0, <1>2, <1>3, <1>4, <1>13, <1>14, N4Replied
  <1>16. Held(c)'
    <2>1. NoDown(c)' /\ ~ Done(c, "detach")'
      BY <1>4, <1>5, <1>6, <1>15, DoneNow
    <2> QED BY <1>4, <1>6, <2>1 DEF Held, UpfOnly, CoreSame
  <1>17. \A u \in UpfThread, d \in Conn : Works(u, UeOf(d))' => u # t /\ Works(u, UeOf(d))
    BY <1>3 DEF Works, Maker, Cleaner, Creating, Removing
  <1>18. Tables(c)'
    BY <1>5, <1>7, <1>12, <1>16, <1>17 DEF Tables
  <1>19. Cleaning(c)'
    <2>1. \A u \in UpfThread : ~ Cleaner(u, UeOf(c))'
      BY <1>5, <1>7, <1>17 DEF Works
    <2> QED BY <2>1 DEF Cleaning
  <1>20. Bearer(c)'
    BY <1>11, <1>16 DEF Bearer
  <1>21. \A d \in Conn : ~ Works(t, UeOf(d)) /\ ~ Works(t, UeOf(d))'
    BY <1>2, <1>17 DEF Works, Maker, Cleaner, Creating, Removing
  <1>22. upf_pc'[t] \notin Removing /\ amf_conn[w] = c
    BY <1>0, <1>3 DEF Removing
  <1> QED BY <1>4, <1>5, <1>10, <1>15, <1>18, <1>19, <1>20, <1>21, <1>22, UpfWork

\* The detach is answered before the tables are cleaned: from here on the
\* session is not held, and the thread works on its entries.
LEMMA DetachSession ==
    ASSUME SInv, IdInv', MaxRuns = 1, NEW t \in UpfThread, UpfStep(t), DetachCtx(t)
    PROVE  SInv'
PROOF
  <1>0. PICK w, c : w = upf_pkt[t].sock[1] /\ c = amf_conn[w]
    OBVIOUS
  <1>1. TypeOK /\ upf_old \in [UpfThread -> UpfContext]
    BY DEF SInv, IdInv, TypeOK, UpfTypeOK
  <1>2. /\ upf_pc[t] = "detach" /\ upf_pc[t] \in Handling
        /\ UNCHANGED <<s11_id, s1_id, sgi_id, upf_ctx, upf_pkt, upf_imsi>>
        /\ UNCHANGED <<up, down, conn, rpc, calls, n4req>>
    BY DEF DetachCtx, At, upfTables, Handling
  <1>3. /\ w \in Worker /\ c \in Conn /\ ReqOk(upf_pkt[t]) /\ Open(upf_pkt[t].sock)
        /\ ~ Replied(upf_pkt[t].sock) /\ upf_pkt[t].op = "detach" /\ upf_imsi[t] = Imsi(UeOf(c))
    BY <1>0, <1>2, HandlerAt
  <1>4. /\ Busy(w, c) /\ amf_pc[w] = "detach" /\ ran_pc[c] = "detach" /\ NoDown(c)
        /\ Held(c) /\ \A v \in Worker : v # w => ~ Busy(v, c)
    BY <1>0, <1>3, Served
  <1>5. /\ Entries(UeOf(c), AllTables) /\ \A u \in UpfThread : ~ Works(u, UeOf(c))
    BY <1>3, <1>4 DEF SInv, Tables
  <1>6. Session(UeOf(c))
    BY <1>5 DEF Entries, AllTables
  <1>7. /\ upf_old' = [upf_old EXCEPT ![t] = upf_ctx[Imsi(UeOf(c))]] /\ Respond(t, 0, 0, 0)
        /\ UpfGoto(t, "rem_s11") /\ exited' = exited
    BY <1>3, <1>6 DEF DetachCtx, Session
  <1>8. /\ upf_pc'[t] = "rem_s11" /\ upf_old'[t] = upf_ctx[Imsi(UeOf(c))]
        /\ \A u \in UpfThread : u # t => upf_pc'[u] = upf_pc[u] /\ upf_old'[u] = upf_old[u]
    BY <1>1, <1>7, UpfPcSet
  <1>9. UpfOnly(t)
    BY <1>2, <1>7, <1>8
       DEF UpfOnly, CoreSame, SInv, UpfStep, ranVars, amfVars, amfTables, amfLocals, smfVars
  <1>10. PICK r : n4rsp' = n4rsp \cup {r} /\ r.sock = upf_pkt[t].sock /\ r.res
    BY <1>2, <1>7, RespondSet
  <1>11. RspOk(r)' /\ upf_pc'[t] \notin Handling
    <2>1. rpc[r.sock[1]].op = "detach"
      BY <1>3, <1>10 DEF ReqOk
    <2> QED BY <1>3, <1>8, <1>9, <1>10, <2>1, SocketsSame DEF RspOk, Handling, Creating
  <1>12. /\ N4Ok' /\ Answered(w)'
         /\ \A v \in Worker : v # w => (Answered(v)' <=> Answered(v))
    BY <1>0, <1>2, <1>9, <1>10, <1>11, N4Replied
  <1>13. ~ Held(c)' /\ ~ Done(c, "modify")' /\ Leaving(c)'
    <2>1. Done(c, "detach")' /\ ~ Done(c, "modify")' /\ (Leaving(c)' <=> Leaving(c))
      BY <1>3, <1>4, <1>9, <1>12, DoneNow
    <2>2. Leaving(c)
      BY <1>3, <1>4 DEF Leaving
    <2> QED BY <1>4, <1>9, <2>1, <2>2 DEF Held, UpfOnly, CoreSame
  <1>14. Cleaner(t, UeOf(c))' /\ Works(t, UeOf(c))'
    BY <1>2, <1>3, <1>8 DEF Works, Cleaner, Removing
  <1>15. \A u \in UpfThread : u # t => ~ Works(u, UeOf(c))'
    BY <1>5, <1>9 DEF UpfOnly, Works, Maker, Cleaner
  <1>16. Tables(c)'
    <2>1. Part(upf_pc[t])' = AllTables
      BY <1>8 DEF Part
    <2>2. Entries(UeOf(c), AllTables)'
      BY <1>2, <1>5 DEF Entries, Session
    <2> QED BY <1>13, <1>14, <1>15, <2>1, <2>2 DEF Tables
  <1>17. Cleaning(c)'
    <2>1. rounds[c] >= 1 /\ rounds[c] \in 0 .. MaxAttach
      BY <1>1, <1>3, <1>4 DEF SInv, ConnData, TypeOK, RanTypeOK
    <2>2. MaxAttach = 1 => rounds[c] = 1
      BY <2>1
    <2>3. \A u \in UpfThread : Cleaner(u, UeOf(c))' => u = t
      BY <1>15 DEF Works
    <2> QED BY <1>4, <1>6, <1>8, <1>9, <2>2, <2>3 DEF Cleaning, Session, UpfOnly, CoreSame
  <1>18. Bearer(c)'
    BY <1>13 DEF Bearer
  <1>19. \A d \in Conn : d # c => ~ Works(t, UeOf(d)) /\ ~ Works(t, UeOf(d))'
    <2>1. ASSUME NEW d \in Conn
          PROVE  ~ Works(t, UeOf(d))
      BY <1>2 DEF Works, Maker, Cleaner, Creating, Removing
    <2>2. ASSUME NEW d \in Conn, d # c
          PROVE  ~ Works(t, UeOf(d))'
      <3>1. Imsi(UeOf(d)) # Imsi(UeOf(c))
        BY <1>3, <2>2, Keys
      <3> QED BY <1>2, <1>3, <1>8, <3>1 DEF Works, Maker, Cleaner, Creating
    <2> QED BY <2>1, <2>2
  <1>20. Elsewhere(c) /\ upf_imsi'[t] = Imsi(UeOf(c)) /\ amf_conn[w] = c
    BY <1>0, <1>2, <1>3 DEF Elsewhere
  <1> QED BY <1>3, <1>9, <1>12, <1>16, <1>17, <1>18, <1>19, <1>20, UpfWork

LEMMA UpfSession ==
    ASSUME SInv, Reliable, NEW t \in UpfThread, UpfStep(t)
    PROVE  SInv'
PROOF
  <1>1. IdInv' /\ MaxRuns = 1
    BY OtherSteps DEF SInv, Reliable
  <1>2. ASSUME NEW m \in n4req, CreateS11(t, m) \/ LookupModify(t, m) \/ LookupDetach(t, m)
        PROVE  SInv'
    BY <1>1, <1>2, CreateFirst, LookupSession DEF LookupModify, LookupDetach
  <1>3. CASE CreateS1(t) \/ CreateSgi(t) \/ CreateCtx(t)
    BY <1>1, <1>3, CreateNext, CreateLast
  <1>4. CASE ModifyCtx(t) \/ DetachCtx(t)
    BY <1>1, <1>4, ModifySession, DetachSession
  <1>5. CASE RemS11(t) \/ RemS1(t) \/ RemSgi(t) \/ RemCtx(t)
    BY <1>1, <1>5, RemoveNext, RemoveLast
  <1> QED BY <1>2, <1>3, <1>4, <1>5 DEF UpfStep, N4Thread

-----------------------------------------------------------------------------
(***************************************************************************)
(* The theorems.                                                           *)
(***************************************************************************)
LEMMA NextSInv ==
    ASSUME Reliable, SInv, [Next]_vars
    PROVE  SInv'
PROOF
  <1>1. MaxRuns = 1
    BY DEF Reliable
  <1>2. ~ RestartStep /\ ~ LossStep /\ \A w \in Worker : ~ RpcFailStep(w) /\ ~ TimeoutStep(w)
    BY NoFaults
  <1>3. ASSUME NEW c \in Conn, RanStep(c) \/ AcceptStep(c)
        PROVE  SInv'
    BY <1>1, <1>3, RanSession, AcceptSession
  <1>4. ASSUME NEW w \in Worker, AmfStep(w) \/ AusfStep(w) \/ SmfStep(w)
        PROVE  SInv'
    BY <1>1, <1>4, AmfSession, AusfSession, SmfSession
  <1>5. ASSUME NEW t \in UpfThread, UpfStep(t)
        PROVE  SInv'
    BY <1>5, UpfSession
  <1>6. CASE UNCHANGED vars
    <2>1. IdInv'
      BY <1>6, NextIdInv DEF SInv
    <2>2. /\ UNCHANGED ranVars /\ UNCHANGED <<up, down>> /\ RanOnly(NoConn)
      BY <1>6 DEF vars, linkVars, ranVars, amfVars, amfTables, amfLocals, smfVars, RanOnly
    <2> QED BY <2>1, <2>2, IdleSession
  <1> QED BY <1>2, <1>3, <1>4, <1>5, <1>6 DEF Next

\* What RAN, AMF, SMF and UPF know of a UE agrees at every step of its attach,
\* its bearer's modification and its detach: the inductive invariant of the
\* sessions, for any number of UEs, workers and calls.
THEOREM SessionInvariant ==
    ASSUME Reliable
    PROVE  Spec => []SInv
PROOF
  <1>1. Init => SInv
    BY InitSInv DEF Reliable
  <1>2. SInv /\ [Next]_vars => SInv'
    BY NextSInv
  <1> QED BY <1>1, <1>2, PTL DEF Spec

\* No network function leaves through handle_type1_error, the UPF included: no
\* handler finds a tunnel without IMSI or an IMSI without context.
THEOREM NobodyExits ==
    ASSUME Reliable
    PROVE  Spec => []NoExit
PROOF
  <1>1. SInv => NoExit
    BY DEF SInv, NoExit
  <1> QED BY <1>1, SessionInvariant, PTL

LEMMA HeldInUpf ==
    ASSUME NEW n, Entries(n, AllTables)
    PROVE  InUpf(n) /\ upf_ctx[Imsi(n)].ul = Teid(n) /\ upf_ctx[Imsi(n)].upf = Teid(n)
PROOF BY DEF Entries, AllTables, InUpf, Session, ip_addrs

\* While a UE transfers data, RAN, AMF, SMF and UPF have the same tunnels and
\* the same address for it, whatever the other UEs are doing.
THEOREM SessionsAgree ==
    ASSUME Reliable
    PROVE  Spec => []SessionAgreed
PROOF
  <1>1. SInv => SessionAgreed
    <2> SUFFICES ASSUME SInv, NEW c \in Conn, ran_pc[c] = "data"
                 PROVE  LET n == UeOf(c) IN
                        /\ InUpf(n)
                        /\ ran_ctx[c].ul = upf_ctx[Imsi(n)].ul
                        /\ ran_ctx[c].ip = ip_addrs(Imsi(n))
                        /\ uplink_info[ran_ctx[c].ip] = ran_ctx[c].ul
                        /\ ue_ctx[Guti(n)].ul = ran_ctx[c].ul
                        /\ smf_ctx[Guti(n)].sgw = upf_ctx[Imsi(n)].upf
      BY DEF SessionAgreed
    <2>1. TransferData(c) /\ Tables(c)
      BY DEF SInv, ConnData
    <2>2. Entries(UeOf(c), AllTables)
      BY <2>1 DEF Tables, Held
    <2> QED BY <2>1, <2>2, HeldInUpf DEF TransferData, ip_addrs
  <1> QED BY <1>1, SessionInvariant, PTL

\* A session the SMF has reported to the AMF as created is in all four tables
\* of the UPF, for the UE whose packet the worker handles.
THEOREM CreatedStored ==
    ASSUME Reliable
    PROVE  Spec => []CreatedMeansStored
PROOF
  <1>1. ASSUME SInv, NEW w \in Worker, rpc[w].op \in {"autn", "loc", "create"}
        PROVE  rpc[w].imsi = Imsi(UeOf(amf_conn[w]))
    <2>1. WorkerCall(w) /\ amf_pc[w] \in {"attach_autn", "location", "create"}
      BY <1>1, CallPc DEF SInv, WorkerData, SmfOp
    <2> QED BY <2>1 DEF WorkerCall
  <1>2. ASSUME SInv, NEW w \in Worker, rpc[w].st = "rep", rpc[w].op = "create"
        PROVE  InUpf(UeOf(amf_conn[w]))
    <2>0. PICK c : c = amf_conn[w]
      OBVIOUS
    <2>1. amf_pc[w] = "create"
      BY <1>2, CallPc DEF SmfOp
    <2>2. c \in Conn /\ Busy(w, c) /\ ran_pc[c] = "session"
      BY <1>2, <2>0, <2>1, WorkerAt
    <2>3. Held(c)
      BY <1>2, <2>1, <2>2 DEF Held, Done, Answered
    <2>4. Entries(UeOf(c), AllTables)
      BY <1>2, <2>2, <2>3 DEF SInv, Tables
    <2> QED BY <2>0, <2>4, HeldInUpf
  <1>3. SInv => CreatedMeansStored
    BY <1>1, <1>2 DEF CreatedMeansStored, ImsiOfCaller
  <1> QED BY <1>3, SessionInvariant, PTL

\* Once the AMF holds a UE that transfers data as connected, the UPF forwards
\* the downlink packets for its address.
THEOREM DownlinkReady ==
    ASSUME Reliable
    PROVE  Spec => []DownlinkForwarded
PROOF
  <1>1. SInv => DownlinkForwarded
    <2> SUFFICES ASSUME SInv, NEW c \in Conn, ran_pc[c] = "data",
                        ue_ctx[Guti(UeOf(c))].ecm_state = 1
                 PROVE  handle_downlink_udata(ran_ctx[c].ip).forwarded
      BY DEF DownlinkForwarded
    <2>1. \A w \in Worker : ~ (Busy(w, c) /\ amf_pc[w] \in {"detach", "rem_itfid", "rem_uectx"})
      BY WorkerAt DEF Busy
    <2>2. Held(c) /\ upf_ctx[Imsi(UeOf(c))].enb
      BY <2>1 DEF SInv, Bearer, Leaving
    <2>3. MaxRuns = 1 /\ Entries(UeOf(c), AllTables)
      BY <2>2 DEF Reliable, SInv, Tables
    <2>4. sgi_id[Imsi(UeOf(c))] = Imsi(UeOf(c)) /\ upf_ctx[Imsi(UeOf(c))].known /\ Imsi(UeOf(c)) # 0
      BY <2>3, Keys DEF Entries, Session, AllTables
    <2>5. ran_ctx[c].ip = Imsi(UeOf(c))
      BY DEF SInv, ConnData, TransferData
    <2> QED BY <2>2, <2>4, <2>5 DEF handle_downlink_udata, get_downlink_info
  <1> QED BY <1>1, SessionInvariant, PTL

\* When every UE has detached and nothing is under way, AMF and UPF have no
\* entry left for any of them: no detach forgets a table.
THEOREM NothingIsLeft ==
    ASSUME Reliable
    PROVE  Spec => []NothingLeft
PROOF
  <1>1. SInv => NothingLeft
    <2> SUFFICES ASSUME SInv, Quiet, \A c \in Conn : ran_pc[c] \in {"start", "loop"}
                 PROVE  /\ \A i \in MmeId : s1amf_id[i] = 0
                        /\ \A g \in GutiSet : ~ ue_ctx[g].known
                        /\ \A i \in TeidSet : s11_id[i] = 0 /\ s1_id[i] = 0
                        /\ \A i \in ImsiSet : sgi_id[i] = 0 /\ ~ upf_ctx[i].known
      BY DEF NothingLeft
    <2>1. /\ \A c \in Conn : Len(up[c]) = 0 /\ \A w \in Worker : ~ Busy(w, c)
          /\ \A t \in UpfThread : upf_pc[t] = "idle"
      BY DEF Quiet, Busy
    <2>2. MaxRuns = 1
      BY DEF Reliable
    <2>3. \A i \in MmeId : s1amf_id[i] = 0
      <3>1. \A c \in Conn, i \in MmeId : ~ Uses(c, i)
        BY <2>1 DEF Uses
      <3> QED BY <3>1 DEF SInv, IdsUsed
    <2>4. \A g \in GutiSet : ~ ue_ctx[g].known
      <3>1. \A c \in Conn : ~ Attached(c)
        BY <2>1 DEF Attached
      <3>2. \A g \in GutiSet : g = 0 \/ \E c \in Conn : g = Guti(UeOf(c))
        BY <2>2, Keys DEF GutiSet
      <3> QED BY <3>1, <3>2 DEF SInv, KnownAttached
    <2>5. \A c \in Conn : Entries(UeOf(c), {})
      <3>1. \A c \in Conn : ~ Held(c)
        BY DEF Held
      <3>2. \A c \in Conn, t \in UpfThread : ~ Works(t, UeOf(c))
        BY <2>1 DEF Works, Maker, Cleaner, Creating, Removing
      <3> QED BY <3>1, <3>2 DEF SInv, Tables
    <2>6. \A i \in TeidSet : s11_id[i] = 0 /\ s1_id[i] = 0
      BY <2>5 DEF SInv, Stray, Entries
    <2>7. \A i \in ImsiSet : sgi_id[i] = 0 /\ ~ upf_ctx[i].known
      <3>1. \A i \in ImsiSet : i = 0 \/ \E c \in Conn : i = Imsi(UeOf(c))
        BY <2>2, Keys DEF ImsiSet
      <3>2. \A c \in Conn : sgi_id[Imsi(UeOf(c))] = 0 /\ ~ upf_ctx[Imsi(UeOf(c))].known
        BY <2>5 DEF Entries, NoUpfCtx
      <3> QED BY <3>1, <3>2 DEF SInv, Stray
    <2> QED BY <2>3, <2>4, <2>6, <2>7
  <1> QED BY <1>1, SessionInvariant, PTL

\* A detach takes only the session of the UE that asked for it out of the
\* UPF's tables: not that of another UE, and not the one the UE has got by
\* attaching again.
THEOREM OwnSessions ==
    ASSUME Reliable
    PROVE  Spec => OwnSessionOnly
PROOF
  <1> DEFINE A == \A i \in TeidSet : (s11_id[i] # 0 /\ s11_id'[i] = 0) =>
                    \E c \in Conn : /\ Imsi(UeOf(c)) = s11_id[i]
                                    /\ ran_pc[c] \notin {"start", "data"}
  <1>1. SInv /\ [Next]_vars => [A]_vars
    <2> SUFFICES ASSUME SInv, Next, NEW i \in TeidSet, s11_id[i] # 0, s11_id'[i] = 0
                 PROVE  \E c \in Conn : Imsi(UeOf(c)) = s11_id[i] /\ ran_pc[c] \notin {"start", "data"}
      OBVIOUS
    <2>1. MaxRuns = 1 /\ s11_id \in [TeidSet -> ImsiSet]
      BY DEF SInv, IdInv, TypeOK, UpfTypeOK, Reliable
    <2>2. PICK t \in UpfThread : UpfStep(t)
      <3>1. s11_id' # s11_id
        OBVIOUS
      <3> QED BY <3>1 DEF Next, RestartStep, LossStep, RanStep, AcceptStep, AmfStep, RpcFailStep, AusfStep,
                      SmfStep, TimeoutStep, upfVars, upfTables
    <2>3. RemS11(t)
      <3>1. ASSUME NEW m \in n4req, CreateS11(t, m)
            PROVE  FALSE
        <4>0. PICK w, c : w = m.sock[1] /\ c = amf_conn[w]
          OBVIOUS
        <4>1. /\ m.op = "create" /\ s11_id' = [s11_id EXCEPT ![m.teid] = m.imsi]
          BY <3>1 DEF CreateS11, RcvN4
        <4>2. ReqOk(m) /\ m.sock[1] \in Worker /\ ~ Replied(m.sock)
          BY Sockets DEF SInv, N4Ok, OneWay, Replied
        <4>3. m.imsi # 0
          BY <2>1, <4>0, <4>1, <4>2, Served, Keys
        <4> QED BY <2>1, <4>1, <4>3
      <3> QED BY <2>2, <3>1 DEF UpfStep, N4Thread, CreateS1, CreateSgi, CreateCtx, LookupModify,
                      LookupDetach, Lookup, ModifyCtx, DetachCtx, RemS1, RemSgi, RemCtx, upfTables
    <2>4. upf_pc[t] = "rem_s11" /\ s11_id' = [s11_id EXCEPT ![upf_old[t].upf] = 0]
      BY <2>3 DEF RemS11, At
    <2>5. PICK c \in Conn : upf_imsi[t] = Imsi(UeOf(c))
      BY <2>4 DEF SInv, Stray, Removing
    <2>6. Cleaner(t, UeOf(c)) /\ Works(t, UeOf(c))
      BY <2>4, <2>5 DEF Works, Cleaner, Removing
    <2>7. upf_old[t].upf = Teid(UeOf(c)) /\ ran_pc[c] # "start"
      BY <2>6 DEF SInv, Cleaning
    <2>8. Entries(UeOf(c), AllTables) /\ ~ Held(c)
      BY <2>1, <2>4, <2>6, Working DEF Part
    <2>9. i = Teid(UeOf(c))
      BY <2>1, <2>4, <2>7
    <2>10. s11_id[i] = Imsi(UeOf(c)) /\ ran_pc[c] # "data"
      BY <2>8, <2>9 DEF Entries, AllTables, Held
    <2> QED BY <2>7, <2>10
  <1> QED BY <1>1, SessionInvariant, PTL DEF Spec, OwnSessionOnly
=============================================================================
