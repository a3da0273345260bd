-------------------------- MODULE UserPlaneProofs --------------------------
(***************************************************************************)
(* The components of MCUserPlane, for every value of their constants: a    *)
(* GTP datagram is on the tunnel of its UE and a detach leaves nothing; no *)
(* two subscribers share an address; the programs of the core start safely *)
(* in any order; and a stream of frames keeps to a channel of packets.     *)
(***************************************************************************)
EXTENDS DataPlane, IpPool, Startup, PktStream, Integers, TLAPS

\* What the tables say of a UE, whatever became of its sessions.
TablesOK ==
    \A n \in UE : /\ uplink_info[n] \in {Unset, n}
                  /\ ue_ctx[n].s1_uteid_dl = Unset /\ ue_ctx[n].ip \in {Unset, n}

Removing == {"rem11", "rem0", "remctx"}      \* the SMF has its answer

\* The handlers of a UE that never came back too early: there is one at most,
\* and its place says how far the session and the tables are.
OneJob(n) == \A t, u \in N4Thread : Busy(t, n) /\ Busy(u, n) => t = u

JobOK(n) ==
    \A t \in N4Thread : Busy(t, n) =>
        /\ job[t].pc \in {"sgi", "ctx"} => sess[n] = "creating"
        /\ job[t].pc = "bearer" => sess[n] = "modifying"
        /\ job[t].pc = "answer" => sess[n] = "detaching"
        /\ job[t].pc \in Removing => sess[n] = "none"
        /\ job[t].pc \in {"rem11", "rem0"} => job[t].ip = n
        /\ job[t].pc \in {"rem0", "remctx"} => s11_id[n] = Unset
        /\ job[t].pc = "remctx" => sgi_id[n] = Unset

\* The context of a session, and that nothing is left of one.
CtxOK(n) ==
    sess[n] \in {"ctx", "accepted", "modifying", "active", "detaching"} =>
        ue_ctx[n].known /\ ue_ctx[n].ip = n

LeftOK(n) ==
    sess[n] = "none" /\ (\A t \in N4Thread : ~ Busy(t, n))
    => ue_ctx[n] = NoCtx /\ sgi_id[n] = Unset /\ s11_id[n] = Unset

UeOK(n) == OneJob(n) /\ JobOK(n) /\ CtxOK(n) /\ LeftOK(n)

UesOK == \A n \in UE : overlapped[n] \/ UeOK(n)

\* A handler is somebody's, and the address in it is of no other UE.
Owned ==
    \A t \in N4Thread : job[t].pc # "idle" => job[t].ue \in UE /\ job[t].ip \in {Unset, job[t].ue}

PlaneInv == PlaneTypeOK /\ TablesOK /\ OwnTunnel /\ Owned /\ UesOK

LEMMA UnsetIsNoUe == Unset \notin UE /\ enodeb # Unset
BY DataPlaneAssumption, SMT DEF Unset, enodeb

\* An address in a packet is the number of a UE.
LEMMA IpIsUe == \A p \in Pkt : Ip(p) \in UE
BY DEF Pkt, Ip

\* The program starts with empty tables and no packet.
LEMMA InitPlane == PlaneInit => PlaneInv
<1> SUFFICES ASSUME PlaneInit PROVE PlaneInv
    OBVIOUS
<1>1. PlaneTypeOK
    <2>1. /\ uplink_info \in [UE -> UE \cup {Unset}] /\ s11_id \in [UE -> UE \cup {Unset}]
          /\ sgi_id \in [UE -> UE \cup {Unset}] /\ sess \in [UE -> Session]
        BY DEF PlaneInit, Session
    <2>2. ue_ctx \in [UE -> [known : BOOLEAN, ip : UE \cup {Unset}, s1_uteid_dl : UE \cup {Unset},
                            enb : {Unset, enodeb}]]
        BY DEF PlaneInit, NoCtx
    <2>3. job \in [N4Thread -> [ue : UE \cup {Unset}, pc : Handler, ip : UE \cup {Unset}]]
        BY DEF PlaneInit, Idle, Handler
    <2>4. exited \in BOOLEAN /\ overlapped \in [UE -> BOOLEAN]
        BY Zenon DEF PlaneInit
    <2>5. sessions \in 0 .. MaxSession /\ lost \in 0 .. MaxLoss
        BY DataPlaneAssumption DEF PlaneInit
    <2>6. at \in [Pkt -> Place]
        BY DEF PlaneInit, Place
    <2>7. hdr \in [Pkt -> [teid : UE \cup {Unset}, dst : {Unset, enodeb}]]
        BY DEF PlaneInit, NoHdr
    <2> QED BY <2>1, <2>2, <2>3, <2>4, <2>5, <2>6, <2>7 DEF PlaneTypeOK
<1>2. TablesOK /\ Owned
    BY DEF PlaneInit, TablesOK, NoCtx, Idle, Owned
<1>3. OwnTunnel
    BY DEF PlaneInit, OwnTunnel
<1>4. UesOK
    BY DEF PlaneInit, UesOK, UeOK, OneJob, JobOK, CtxOK, LeftOK, Busy, Idle
<1>5. QED
    BY <1>1, <1>2, <1>3, <1>4 DEF PlaneInv

\* A step of a thread in a handler of UE n leaves the other UEs as they are.
LEMMA OthersKept ==
    ASSUME PlaneInv, NEW n \in UE, NEW t \in N4Thread,
           \A u \in N4Thread : u # t => job'[u] = job[u],
           job[t].pc = "idle" \/ job[t].ue = n,
           job'[t].pc = "idle" \/ job'[t].ue = n,
           \A m \in UE : m # n => /\ sess'[m] = sess[m] /\ s11_id'[m] = s11_id[m]
                                  /\ sgi_id'[m] = sgi_id[m] /\ ue_ctx'[m] = ue_ctx[m]
                                  /\ overlapped'[m] = overlapped[m],
           overlapped'[n] \/ UeOK(n)'
    PROVE  UesOK'
<1> SUFFICES ASSUME NEW m \in UE PROVE overlapped'[m] \/ UeOK(m)'
    BY DEF UesOK
<1>1. CASE m = n
    BY <1>1
<1>2. CASE m # n /\ overlapped[m]
    BY <1>2
<1>3. CASE m # n /\ UeOK(m)
    <2>1. ASSUME NEW u \in N4Thread
          PROVE  /\ Busy(u, m)' <=> Busy(u, m)
                 /\ Busy(u, m) => job'[u] = job[u]
        BY <1>3 DEF Busy
    <2>2. OneJob(m)'
        BY <1>3, <2>1 DEF UeOK, OneJob
    <2>3. JobOK(m)'
        BY <1>3, <2>1 DEF UeOK, JobOK
    <2>4. CtxOK(m)'
        BY <1>3 DEF UeOK, CtxOK
    <2>5. LeftOK(m)'
        BY <1>3, <2>1 DEF UeOK, LeftOK
    <2> QED BY <2>2, <2>3, <2>4, <2>5 DEF UeOK
<1> QED BY <1>1, <1>2, <1>3 DEF PlaneInv, UesOK

\* The UE's own tables, when thread t is the only one at work for it.
LEMMA OnlyJob ==
    ASSUME NEW n \in UE, NEW t \in N4Thread, OneJob(n), Busy(t, n),
           \A u \in N4Thread : u # t => job'[u] = job[u]
    PROVE  /\ \A u \in N4Thread : u # t => ~ Busy(u, n) /\ ~ Busy(u, n)'
           /\ OneJob(n)'
<1>1. \A u \in N4Thread : u # t => ~ Busy(u, n) /\ ~ Busy(u, n)'
    BY DEF OneJob, Busy
<1> QED BY <1>1 DEF OneJob

\* No handler of a UE whose session rests is at work.
LEMMA Resting ==
    ASSUME PlaneInv, NEW n \in UE, JobOK(n), sess[n] \in {"ctx", "accepted", "active"}
    PROVE  \A u \in N4Thread : ~ Busy(u, n)
<1> SUFFICES ASSUME NEW u \in N4Thread, Busy(u, n) PROVE FALSE
    OBVIOUS
<1>1. job[u].pc \in Handler \ {"idle"}
    BY DEF Busy, PlaneInv, PlaneTypeOK
<1> QED BY <1>1 DEF JobOK, Handler, Removing

\* A thread takes a request.
LEMMA Taken ==
    ASSUME PlaneInv, NEW n \in UE, NEW t \in N4Thread, NEW l \in Handler, Take(t, n, l)
    PROVE  /\ job'[t] = [ue |-> n, pc |-> l, ip |-> Unset]
           /\ \A u \in N4Thread : u # t => job'[u] = job[u]
           /\ job' \in [N4Thread -> [ue : UE \cup {Unset}, pc : Handler, ip : UE \cup {Unset}]]
           /\ Owned'
<1>1. job \in [N4Thread -> [ue : UE \cup {Unset}, pc : Handler, ip : UE \cup {Unset}]] /\ Owned
    BY DEF PlaneInv, PlaneTypeOK
<1>2. /\ job'[t] = [ue |-> n, pc |-> l, ip |-> Unset]
      /\ \A u \in N4Thread : u # t => job'[u] = job[u]
      /\ job' \in [N4Thread -> [ue : UE \cup {Unset}, pc : Handler, ip : UE \cup {Unset}]]
    BY <1>1 DEF Take
<1> QED BY <1>1, <1>2 DEF Owned

\* A thread goes on with its handler.
LEMMA Stepped ==
    ASSUME PlaneInv, NEW t \in N4Thread, NEW l \in Handler, StepTo(t, l), job[t].pc # "idle"
    PROVE  /\ job'[t] = [ue |-> job[t].ue, pc |-> l, ip |-> job[t].ip]
           /\ \A u \in N4Thread : u # t => job'[u] = job[u]
           /\ job' \in [N4Thread -> [ue : UE \cup {Unset}, pc : Handler, ip : UE \cup {Unset}]]
           /\ Owned'
<1>1. job \in [N4Thread -> [ue : UE \cup {Unset}, pc : Handler, ip : UE \cup {Unset}]] /\ Owned
    BY DEF PlaneInv, PlaneTypeOK
<1>2. /\ job'[t] = [ue |-> job[t].ue, pc |-> l, ip |-> job[t].ip]
      /\ \A u \in N4Thread : u # t => job'[u] = job[u]
      /\ job' \in [N4Thread -> [ue : UE \cup {Unset}, pc : Handler, ip : UE \cup {Unset}]]
    BY <1>1 DEF StepTo
<1> QED BY <1>1, <1>2 DEF Owned

\* A thread waits for the next request.
LEMMA Ended ==
    ASSUME PlaneInv, NEW t \in N4Thread, Done(t)
    PROVE  /\ job'[t] = Idle /\ job'[t].pc = "idle"
           /\ \A u \in N4Thread : u # t => job'[u] = job[u]
           /\ job' \in [N4Thread -> [ue : UE \cup {Unset}, pc : Handler, ip : UE \cup {Unset}]]
           /\ Owned'
<1>1. job \in [N4Thread -> [ue : UE \cup {Unset}, pc : Handler, ip : UE \cup {Unset}]] /\ Owned
    BY DEF PlaneInv, PlaneTypeOK
<1>2. /\ job'[t] = Idle /\ job'[t].pc = "idle"
      /\ \A u \in N4Thread : u # t => job'[u] = job[u]
      /\ job' \in [N4Thread -> [ue : UE \cup {Unset}, pc : Handler, ip : UE \cup {Unset}]]
    BY <1>1 DEF Done, Idle, Handler
<1> QED BY <1>1, <1>2 DEF Owned

\* The UPF ends: nothing else changes.
LEMMA ExitKeeps ==
    ASSUME PlaneInv, exited' = TRUE,
           UNCHANGED <<uplink_info, s11_id, sgi_id, ue_ctx, sess, job, sessions, overlapped, packets>>
    PROVE  PlaneInv'
<1>1. PlaneTypeOK' /\ TablesOK' /\ OwnTunnel' /\ Owned'
    BY DEF PlaneInv, PlaneTypeOK, TablesOK, OwnTunnel, Owned, packets
<1>2. UesOK'
    BY DEF PlaneInv, UesOK, UeOK, OneJob, JobOK, CtxOK, LeftOK, Busy
<1> QED BY <1>1, <1>2 DEF PlaneInv

LEMMA CreateKeeps ==
    ASSUME PlaneInv, NEW n \in UE, NEW t \in N4Thread, handle_create_session(t, n)
    PROVE  PlaneInv'
<1>0. "sgi" \in Handler /\ Take(t, n, "sgi")
    BY DEF Handler, handle_create_session
<1>1. /\ job'[t] = [ue |-> n, pc |-> "sgi", ip |-> Unset]
      /\ \A u \in N4Thread : u # t => job'[u] = job[u]
      /\ job' \in [N4Thread -> [ue : UE \cup {Unset}, pc : Handler, ip : UE \cup {Unset}]]
      /\ Owned'
    BY <1>0, Taken
<1>2. /\ job[t].pc = "idle" /\ sess[n] = "none" /\ sess' = [sess EXCEPT ![n] = "creating"]
      /\ s11_id' = [s11_id EXCEPT ![n] = n]
      /\ overlapped' = [overlapped EXCEPT ![n] = @ \/ \E u \in N4Thread : Busy(u, n)]
      /\ sessions < MaxSession /\ sessions' = sessions + 1
      /\ UNCHANGED <<uplink_info, sgi_id, ue_ctx, exited, at, hdr, lost>>
    BY DEF handle_create_session, At, Becomes, packets
<1>3. PlaneTypeOK'
    <2>1. sessions' \in 0 .. MaxSession
        BY <1>2, DataPlaneAssumption DEF PlaneInv, PlaneTypeOK
    <2>2. overlapped' \in [UE -> BOOLEAN]
        BY <1>2 DEF PlaneInv, PlaneTypeOK
    <2> QED BY <1>1, <1>2, <2>1, <2>2 DEF PlaneInv, PlaneTypeOK, Session
<1>4. TablesOK' /\ OwnTunnel'
    BY <1>2 DEF PlaneInv, TablesOK, OwnTunnel
<1>5. ASSUME ~ overlapped'[n] PROVE UeOK(n)'
    <2>1. \A u \in N4Thread : ~ Busy(u, n)
        BY <1>2, <1>5 DEF PlaneInv, PlaneTypeOK
    <2>2. \A u \in N4Thread : Busy(u, n)' => u = t
        BY <1>1, <2>1 DEF Busy
    <2>3. sess'[n] = "creating"
        BY <1>2 DEF PlaneInv, PlaneTypeOK
    <2> QED BY <1>1, <2>2, <2>3 DEF UeOK, OneJob, JobOK, CtxOK, LeftOK, Removing
<1>6. \A m \in UE : m # n => /\ sess'[m] = sess[m] /\ s11_id'[m] = s11_id[m]
                             /\ sgi_id'[m] = sgi_id[m] /\ ue_ctx'[m] = ue_ctx[m]
                             /\ overlapped'[m] = overlapped[m]
    BY <1>2 DEF PlaneInv, PlaneTypeOK
<1>7. UesOK'
    BY <1>1, <1>2, <1>5, <1>6, OthersKept
<1> QED BY <1>1, <1>3, <1>4, <1>7 DEF PlaneInv

LEMMA SgiKeeps ==
    ASSUME PlaneInv, NEW t \in N4Thread, CreateSgi(t) \/ RemS11(t) \/ RemSgi(t)
    PROVE  PlaneInv'
<1>0. PICK n \in UE, l \in {"ctx", "rem0", "remctx"} :
        n = job[t].ue /\ l \in Handler /\ StepTo(t, l) /\ job[t].pc # "idle" /\ Busy(t, n)
    BY DEF CreateSgi, RemS11, RemSgi, At, Handler, PlaneInv, Owned, Busy
<1>1. /\ job'[t] = [ue |-> n, pc |-> l, ip |-> job[t].ip]
      /\ \A u \in N4Thread : u # t => job'[u] = job[u]
      /\ job' \in [N4Thread -> [ue : UE \cup {Unset}, pc : Handler, ip : UE \cup {Unset}]]
      /\ Owned'
    BY <1>0, Stepped
<1>2. UNCHANGED <<uplink_info, ue_ctx, sess, exited, sessions, overlapped, at, hdr, lost>>
    BY DEF CreateSgi, RemS11, RemSgi, packets
<1>3. /\ s11_id' \in [UE -> UE \cup {Unset}] /\ sgi_id' \in [UE -> UE \cup {Unset}]
    BY <1>0 DEF CreateSgi, RemS11, RemSgi, PlaneInv, PlaneTypeOK
<1>4. PlaneTypeOK'
    BY <1>1, <1>2, <1>3 DEF PlaneInv, PlaneTypeOK
<1>5. TablesOK' /\ OwnTunnel'
    BY <1>2 DEF PlaneInv, TablesOK, OwnTunnel
<1>6. \A m \in UE : m # n => s11_id'[m] = s11_id[m]
    BY <1>0 DEF CreateSgi, RemS11, RemSgi, PlaneInv, PlaneTypeOK
<1>7. \A m \in UE : m # n => sgi_id'[m] = sgi_id[m]
    BY <1>0, UnsetIsNoUe DEF CreateSgi, RemS11, RemSgi, PlaneInv, PlaneTypeOK, Owned
<1>8. ASSUME UeOK(n) PROVE UeOK(n)'
    <2>1. /\ \A u \in N4Thread : u # t => ~ Busy(u, n) /\ ~ Busy(u, n)'
          /\ OneJob(n)' /\ Busy(t, n)'
        BY <1>0, <1>1, <1>8, OnlyJob DEF UeOK, Busy
    <2>2. CtxOK(n)' /\ LeftOK(n)'
        BY <1>2, <1>8, <2>1 DEF UeOK, CtxOK, LeftOK
    <2>3. CASE CreateSgi(t)
        <3>1. job[t].pc = "sgi" /\ job'[t].pc = "ctx" /\ sess'[n] = "creating"
            BY <1>0, <1>1, <1>2, <1>8, <2>3 DEF CreateSgi, At, StepTo, UeOK, JobOK, PlaneInv, PlaneTypeOK
        <3>2. JobOK(n)'
            BY <2>1, <3>1 DEF JobOK, Removing
        <3> QED BY <2>1, <2>2, <3>2 DEF UeOK
    <2>4. CASE RemS11(t)
        <3>1. job[t].pc = "rem11" /\ job'[t].pc = "rem0" /\ job'[t].ip = n /\ sess'[n] = "none"
            BY <1>0, <1>1, <1>2, <1>8, <2>4
               DEF RemS11, At, StepTo, UeOK, JobOK, Removing, PlaneInv, PlaneTypeOK
        <3>2. s11_id'[n] = Unset
            BY <1>0, <2>4 DEF RemS11, PlaneInv, PlaneTypeOK
        <3>3. JobOK(n)'
            BY <2>1, <3>1, <3>2 DEF JobOK
        <3> QED BY <2>1, <2>2, <3>3 DEF UeOK
    <2>5. CASE RemSgi(t)
        <3>1. /\ job[t].pc = "rem0" /\ job'[t].pc = "remctx" /\ job[t].ip = n /\ sess'[n] = "none"
              /\ s11_id'[n] = Unset
            BY <1>0, <1>1, <1>2, <1>8, <2>5
               DEF RemSgi, At, StepTo, UeOK, JobOK, Removing, PlaneInv, PlaneTypeOK
        <3>2. sgi_id'[n] = Unset
            BY <1>0, <2>5, <3>1 DEF RemSgi
        <3>3. JobOK(n)'
            BY <2>1, <3>1, <3>2 DEF JobOK
        <3> QED BY <2>1, <2>2, <3>3 DEF UeOK
    <2> QED BY <2>3, <2>4, <2>5
<1>9. overlapped'[n] \/ UeOK(n)'
    BY <1>2, <1>8 DEF PlaneInv, UesOK
<1>10. UesOK'
    BY <1>0, <1>1, <1>2, <1>6, <1>7, <1>9, OthersKept
<1> QED BY <1>1, <1>4, <1>5, <1>10 DEF PlaneInv

\* The handlers that write the context and end.
LEMMA CtxKeeps ==
    ASSUME PlaneInv, NEW t \in N4Thread, CreateCtx(t) \/ StoreBearer(t) \/ rem_uectx(t)
    PROVE  PlaneInv'
<1>0. PICK n \in UE : n = job[t].ue /\ Busy(t, n) /\ Done(t)
    BY DEF CreateCtx, StoreBearer, rem_uectx, At, PlaneInv, Owned, Busy
<1>1. /\ job'[t].pc = "idle"
      /\ \A u \in N4Thread : u # t => job'[u] = job[u]
      /\ job' \in [N4Thread -> [ue : UE \cup {Unset}, pc : Handler, ip : UE \cup {Unset}]]
      /\ Owned'
    BY <1>0, Ended
<1>2. UNCHANGED <<uplink_info, s11_id, sgi_id, exited, sessions, overlapped, at, hdr, lost>>
    BY DEF CreateCtx, StoreBearer, rem_uectx, packets
<1>3. PICK c : ue_ctx' = [ue_ctx EXCEPT ![n] = c]
               /\ \/ CreateCtx(t) /\ c = [ue_ctx[n] EXCEPT !.known = TRUE, !.ip = n]
                  \/ /\ StoreBearer(t)
                     /\ c = [known |-> TRUE, ip |-> ue_ctx[n].ip, s1_uteid_dl |-> Unset, enb |-> enodeb]
                  \/ rem_uectx(t) /\ c = NoCtx
    BY <1>0 DEF CreateCtx, StoreBearer, rem_uectx
<1>4. /\ c \in [known : BOOLEAN, ip : UE \cup {Unset}, s1_uteid_dl : UE \cup {Unset}, enb : {Unset, enodeb}]
      /\ c.s1_uteid_dl = Unset /\ c.ip \in {Unset, n}
      /\ CreateCtx(t) => c.known /\ c.ip = n
    <2>1. PICK d \in [known : BOOLEAN, ip : UE \cup {Unset}, s1_uteid_dl : UE \cup {Unset},
                      enb : {Unset, enodeb}] :
                d = ue_ctx[n] /\ d.s1_uteid_dl = Unset /\ d.ip \in {Unset, n}
        BY DEF PlaneInv, PlaneTypeOK, TablesOK
    <2>2. CASE CreateCtx(t)
        <3>1. c = [d EXCEPT !.known = TRUE, !.ip = n]
            BY <1>3, <2>1, <2>2 DEF CreateCtx, StoreBearer, rem_uectx, At
        <3> QED BY <2>1, <3>1
    <2>3. CASE StoreBearer(t)
        <3>1. c = [known |-> TRUE, ip |-> d.ip, s1_uteid_dl |-> Unset, enb |-> enodeb] /\ ~ CreateCtx(t)
            BY <1>3, <2>1, <2>3 DEF CreateCtx, StoreBearer, rem_uectx, At
        <3> QED BY <2>1, <3>1
    <2>4. CASE rem_uectx(t)
        <3>1. c = [known |-> FALSE, ip |-> Unset, s1_uteid_dl |-> Unset, enb |-> Unset] /\ ~ CreateCtx(t)
            BY <1>3, <2>4 DEF CreateCtx, StoreBearer, rem_uectx, At, NoCtx
        <3> QED BY <3>1
    <2> QED BY <2>2, <2>3, <2>4
<1>5. /\ ue_ctx' \in [UE -> [known : BOOLEAN, ip : UE \cup {Unset}, s1_uteid_dl : UE \cup {Unset},
                            enb : {Unset, enodeb}]]
      /\ ue_ctx'[n] = c /\ \A m \in UE : m # n => ue_ctx'[m] = ue_ctx[m]
    BY <1>3, <1>4 DEF PlaneInv, PlaneTypeOK
<1>6. /\ sess' \in [UE -> Session] /\ \A m \in UE : m # n => sess'[m] = sess[m]
      /\ CreateCtx(t) => sess'[n] = "ctx"
      /\ StoreBearer(t) => sess'[n] = "active"
      /\ rem_uectx(t) => sess'[n] = sess[n]
    BY <1>0 DEF CreateCtx, StoreBearer, rem_uectx, Becomes, PlaneInv, PlaneTypeOK, Session
<1>7. PlaneTypeOK'
    BY <1>1, <1>2, <1>5, <1>6 DEF PlaneInv, PlaneTypeOK
<1>8. TablesOK' /\ OwnTunnel'
    BY <1>2, <1>4, <1>5 DEF PlaneInv, TablesOK, OwnTunnel
<1>9. ASSUME UeOK(n) PROVE UeOK(n)'
    <2>1. /\ \A u \in N4Thread : u # t => ~ Busy(u, n) /\ ~ Busy(u, n)'
          /\ OneJob(n)' /\ ~ Busy(t, n)'
        BY <1>0, <1>1, <1>9, OnlyJob DEF UeOK, Busy
    <2>2. JobOK(n)'
        BY <2>1 DEF JobOK
    <2>3. CASE CreateCtx(t)
        <3>1. c.known /\ c.ip = n
            BY <1>4, <2>3
        <3>2. CtxOK(n)' /\ LeftOK(n)'
            BY <1>5, <1>6, <2>3, <3>1 DEF CtxOK, LeftOK
        <3> QED BY <2>1, <2>2, <3>2 DEF UeOK
    <2>4. CASE StoreBearer(t)
        <3>1. sess[n] = "modifying"
            BY <1>0, <1>9, <2>4 DEF StoreBearer, At, UeOK, JobOK
        <3>2. c.known /\ c.ip = n
            BY <1>3, <1>9, <2>4, <3>1 DEF UeOK, CtxOK, CreateCtx, StoreBearer, rem_uectx, At
        <3>3. CtxOK(n)' /\ LeftOK(n)'
            BY <1>5, <1>6, <2>4, <3>2 DEF CtxOK, LeftOK
        <3> QED BY <2>1, <2>2, <3>3 DEF UeOK
    <2>5. CASE rem_uectx(t)
        <3>1. sess[n] = "none" /\ s11_id[n] = Unset /\ sgi_id[n] = Unset
            BY <1>0, <1>9, <2>5 DEF rem_uectx, At, UeOK, JobOK, Removing
        <3>2. c = NoCtx
            BY <1>3, <2>5 DEF CreateCtx, StoreBearer, rem_uectx, At
        <3>3. CtxOK(n)' /\ LeftOK(n)'
            BY <1>2, <1>5, <1>6, <2>5, <3>1, <3>2 DEF CtxOK, LeftOK
        <3> QED BY <2>1, <2>2, <3>3 DEF UeOK
    <2> QED BY <2>3, <2>4, <2>5 DEF CreateCtx, StoreBearer, rem_uectx
<1>10. overlapped'[n] \/ UeOK(n)'
    BY <1>2, <1>9 DEF PlaneInv, UesOK
<1>11. UesOK'
    <2>1. job[t].ue = n
        BY <1>0
    <2> QED BY <1>1, <1>2, <1>5, <1>6, <1>10, <2>1, OthersKept
<1> QED BY <1>1, <1>7, <1>8, <1>11 DEF PlaneInv

\* The handlers that look up the identifier first.
LEMMA LookupKeeps ==
    ASSUME PlaneInv, NEW n \in UE, NEW t \in N4Thread,
           handle_modify_bearer(t, n) \/ handle_detach(t, n)
    PROVE  PlaneInv'
<1>1. CASE s11_id[n] = Unset
    <2>1. /\ exited' = TRUE
          /\ UNCHANGED <<uplink_info, s11_id, sgi_id, ue_ctx, sess, job, sessions, overlapped, packets>>
        BY <1>1 DEF handle_modify_bearer, handle_detach
    <2> QED BY ONLY PlaneInv, <2>1, ExitKeeps
<1>2. CASE s11_id[n] # Unset
    <2>1. PICK l \in {"bearer", "answer"} :
            /\ l \in Handler /\ Take(t, n, l)
            /\ l = "bearer" => Becomes(n, "modifying") /\ sess[n] = "accepted"
            /\ l = "answer" => Becomes(n, "detaching") /\ sess[n] = "active"
        BY <1>2 DEF handle_modify_bearer, handle_detach, Handler
    <2>2. job[t].pc = "idle" /\ UNCHANGED <<uplink_info, s11_id, sgi_id, ue_ctx, exited, sessions,
                                            overlapped, at, hdr, lost>>
        BY <1>2 DEF handle_modify_bearer, handle_detach, At, packets
    <2>3. /\ job'[t] = [ue |-> n, pc |-> l, ip |-> Unset]
          /\ \A u \in N4Thread : u # t => job'[u] = job[u]
          /\ job' \in [N4Thread -> [ue : UE \cup {Unset}, pc : Handler, ip : UE \cup {Unset}]]
          /\ Owned'
        BY <2>1, Taken
    <2>4. /\ sess' \in [UE -> Session] /\ \A m \in UE : m # n => sess'[m] = sess[m]
          /\ sess[n] \in {"accepted", "active"}
          /\ l = "bearer" => sess'[n] = "modifying"
          /\ l = "answer" => sess'[n] = "detaching"
        BY <2>1 DEF Becomes, PlaneInv, PlaneTypeOK, Session
    <2>5. PlaneTypeOK' /\ TablesOK' /\ OwnTunnel'
        BY <2>2, <2>3, <2>4 DEF PlaneInv, PlaneTypeOK, TablesOK, OwnTunnel
    <2>6. ASSUME UeOK(n) PROVE UeOK(n)'
        <3>1. \A u \in N4Thread : ~ Busy(u, n)
            BY <2>4, <2>6, Resting DEF UeOK
        <3>2. \A u \in N4Thread : Busy(u, n)' => u = t
            BY <2>3, <3>1 DEF Busy
        <3>3. OneJob(n)' /\ JobOK(n)'
            BY <2>1, <2>3, <2>4, <3>2 DEF OneJob, JobOK, Removing
        <3>4. CtxOK(n)' /\ LeftOK(n)'
            BY <2>1, <2>2, <2>4, <2>6 DEF UeOK, CtxOK, LeftOK
        <3> QED BY <3>3, <3>4 DEF UeOK
    <2>7. overlapped'[n] \/ UeOK(n)'
        BY <2>2, <2>6 DEF PlaneInv, UesOK
    <2>8. UesOK'
        <3>1. job'[t].ue = n
            BY <2>3
        <3> QED BY <2>2, <2>3, <2>4, <2>7, <3>1, OthersKept
    <2> QED BY <2>3, <2>5, <2>8 DEF PlaneInv
<1> QED BY <1>1, <1>2

\* The answer to a detach, before its removals.
LEMMA AnswerKeeps ==
    ASSUME PlaneInv, NEW t \in N4Thread, AnswerDetach(t)
    PROVE  PlaneInv'
<1>0. PICK n \in UE : n = job[t].ue /\ Busy(t, n) /\ job[t].pc = "answer"
    BY DEF AnswerDetach, At, PlaneInv, Owned, Busy
<1>1. CASE ~ ue_ctx[n].known
    <2>1. /\ exited' = TRUE
          /\ UNCHANGED <<uplink_info, s11_id, sgi_id, ue_ctx, sess, job, sessions, overlapped, packets>>
        BY <1>0, <1>1 DEF AnswerDetach
    <2> QED BY ONLY PlaneInv, <2>1, ExitKeeps
<1>2. CASE ue_ctx[n].known
    <2>1. /\ job' = [job EXCEPT ![t] = [ue |-> n, pc |-> "rem11", ip |-> ue_ctx[n].ip]]
          /\ sess' = [sess EXCEPT ![n] = "none"]
          /\ UNCHANGED <<uplink_info, s11_id, sgi_id, ue_ctx, exited, sessions, overlapped, at, hdr, lost>>
        BY <1>0, <1>2 DEF AnswerDetach, Becomes, packets
    <2>2. /\ job'[t] = [ue |-> n, pc |-> "rem11", ip |-> ue_ctx[n].ip]
          /\ \A u \in N4Thread : u # t => job'[u] = job[u]
          /\ job' \in [N4Thread -> [ue : UE \cup {Unset}, pc : Handler, ip : UE \cup {Unset}]]
        <3>1. PICK a \in UE \cup {Unset} : a = ue_ctx[n].ip
            BY DEF PlaneInv, PlaneTypeOK
        <3>2. [ue |-> n, pc |-> "rem11", ip |-> a] \in [ue : UE \cup {Unset}, pc : Handler, ip : UE \cup {Unset}]
            BY DEF Handler
        <3>3. job \in [N4Thread -> [ue : UE \cup {Unset}, pc : Handler, ip : UE \cup {Unset}]]
            BY DEF PlaneInv, PlaneTypeOK
        <3> QED BY <2>1, <3>1, <3>2, <3>3
    <2>3. Owned'
        BY <2>2 DEF PlaneInv, Owned, TablesOK
    <2>4. /\ sess' \in [UE -> Session] /\ \A m \in UE : m # n => sess'[m] = sess[m]
          /\ sess'[n] = "none"
        BY <2>1 DEF PlaneInv, PlaneTypeOK, Session
    <2>5. PlaneTypeOK' /\ TablesOK' /\ OwnTunnel'
        BY <2>1, <2>2, <2>4 DEF PlaneInv, PlaneTypeOK, TablesOK, OwnTunnel
    <2>6. ASSUME UeOK(n) PROVE UeOK(n)'
        <3>1. /\ \A u \in N4Thread : u # t => ~ Busy(u, n) /\ ~ Busy(u, n)'
              /\ OneJob(n)' /\ Busy(t, n)'
            BY <1>0, <2>2, <2>6, OnlyJob DEF UeOK, Busy
        <3>2. job'[t].ip = n
            BY <1>0, <2>2, <2>6 DEF UeOK, JobOK, CtxOK
        <3>3. JobOK(n)'
            BY <2>2, <2>4, <3>1, <3>2 DEF JobOK
        <3>4. CtxOK(n)' /\ LeftOK(n)'
            BY <2>4, <3>1 DEF CtxOK, LeftOK
        <3> QED BY <3>1, <3>3, <3>4 DEF UeOK
    <2>7. overlapped'[n] \/ UeOK(n)'
        BY <2>1, <2>6 DEF PlaneInv, UesOK
    <2>8. UesOK'
        <3>1. job[t].ue = n /\ job'[t].ue = n
            BY <1>0, <2>2
        <3> QED BY <2>1, <2>2, <2>4, <2>7, <3>1, OthersKept
    <2> QED BY <2>3, <2>5, <2>8 DEF PlaneInv
<1> QED BY <1>1, <1>2

\* The RAN learns the tunnel of its UE.
LEMMA UplinkKeeps ==
    ASSUME PlaneInv, NEW n \in UE, update_uplink_info(n)
    PROVE  PlaneInv'
<1>1. /\ sess[n] = "ctx" /\ sess' = [sess EXCEPT ![n] = "accepted"]
      /\ uplink_info' = [uplink_info EXCEPT ![n] = n]
      /\ UNCHANGED <<s11_id, sgi_id, ue_ctx, job, exited, sessions, overlapped, at, hdr, lost>>
    BY DEF update_uplink_info, Becomes, packets
<1>2. PlaneTypeOK' /\ TablesOK' /\ OwnTunnel' /\ Owned'
    BY <1>1 DEF PlaneInv, PlaneTypeOK, TablesOK, OwnTunnel, Owned, Session
<1>3. ASSUME NEW m \in UE, UeOK(m) PROVE UeOK(m)'
    <2>1. CASE m # n
        BY <1>1, <1>3, <2>1 DEF UeOK, OneJob, JobOK, CtxOK, LeftOK, Busy, PlaneInv, PlaneTypeOK
    <2>2. CASE m = n
        <3>1. \A u \in N4Thread : ~ Busy(u, n)
            BY <1>1, <1>3, <2>2, Resting DEF UeOK
        <3>2. sess'[n] = "accepted" /\ \A u \in N4Thread : ~ Busy(u, n)'
            BY <1>1, <3>1 DEF Busy, PlaneInv, PlaneTypeOK
        <3> QED BY <1>1, <1>3, <2>2, <3>2 DEF UeOK, OneJob, JobOK, CtxOK, LeftOK
    <2> QED BY <2>1, <2>2
<1>4. UesOK'
    BY <1>1, <1>3 DEF PlaneInv, UesOK
<1> QED BY <1>2, <1>4 DEF PlaneInv

\* A step of a packet touches that packet and no table.
LEMMA TablesStay ==
    ASSUME PlaneInv, UNCHANGED tables
    PROVE  TablesOK' /\ Owned' /\ UesOK'
<1>1. UNCHANGED <<uplink_info, s11_id, sgi_id, ue_ctx, sess, job, exited, sessions, overlapped>>
    BY DEF tables
<1>2. TablesOK' /\ Owned'
    BY <1>1 DEF PlaneInv, TablesOK, Owned
<1>3. UesOK'
    BY <1>1 DEF PlaneInv, UesOK, UeOK, OneJob, JobOK, CtxOK, LeftOK, Busy
<1> QED BY <1>2, <1>3

LEMMA PacketKeeps ==
    ASSUME PlaneInv, NEW p \in Pkt, transfer_data(p) \/ Forward(p) \/ Reply(p) \/ Lose(p)
    PROVE  PlaneInv'
<1>0. TablesOK' /\ Owned' /\ UesOK'
    <2>1. UNCHANGED tables
        BY DEF transfer_data, Forward, Reply, Lose, RanUplink, RanDownlink, UpfUplink, get_imsi,
               get_downlink_info
    <2> QED BY ONLY PlaneInv, <2>1, TablesStay
<1> SUFFICES PlaneTypeOK' /\ OwnTunnel'
    BY <1>0 DEF PlaneInv
<1> USE UnsetIsNoUe, IpIsUe
    DEF PlaneInv, PlaneTypeOK, TablesOK, OwnTunnel, Put, Place, Datagram, NoHdr, tables
<1>1. CASE transfer_data(p)
    BY <1>1 DEF transfer_data
<1>2. CASE RanUplink(p)
    <2>1. CASE uplink_info[Ip(p)] # Unset
        <3>1. /\ uplink_info[Ip(p)] = Ip(p)
              /\ hdr' = [hdr EXCEPT ![p] = [teid |-> Ip(p), dst |-> hdr[p].dst]]
              /\ at' = [at EXCEPT ![p] = "s1"]
            BY <1>2, <2>1 DEF RanUplink
        <3>2. PlaneTypeOK'
            BY <1>2, <3>1 DEF RanUplink
        <3>3. OwnTunnel'
            BY <3>1
        <3>5. QED
            BY <3>2, <3>3
    <2>2. CASE uplink_info[Ip(p)] = Unset
        BY <1>2, <2>2, SMTT(30) DEF RanUplink
    <2>3. QED
        BY <2>1, <2>2
<1>3. CASE RanDownlink(p)
    BY <1>3 DEF RanDownlink
<1>4. CASE UpfUplink(p)
    BY <1>4 DEF UpfUplink
<1>5. CASE get_imsi(p)
    BY <1>5 DEF get_imsi
<1>6. CASE get_downlink_info(p)
    <2> DEFINE ctx == ue_ctx[Ip(p)]
    <2>1. CASE ctx.known /\ ctx.enb # Unset
        <3>1. /\ ctx.s1_uteid_dl = Unset /\ ctx.enb = enodeb
              /\ hdr' = [hdr EXCEPT ![p] = [teid |-> ctx.s1_uteid_dl, dst |-> ctx.enb]]
              /\ at' = [at EXCEPT ![p] = "s1dn"]
            BY <1>6, <2>1 DEF get_downlink_info
        <3>2. PlaneTypeOK'
            BY <1>6, <3>1 DEF get_downlink_info
        <3>3. OwnTunnel'
            BY <3>1
        <3>5. QED
            BY <3>2, <3>3
    <2>2. CASE ~(ctx.known /\ ctx.enb # Unset)
        BY <1>6, <2>2 DEF get_downlink_info
    <2>3. QED
        BY <2>1, <2>2
<1>7. CASE Reply(p)
    BY <1>7 DEF Reply
<1>8. CASE Lose(p)
    BY <1>8, DataPlaneAssumption DEF Lose
<1>9. QED
    BY <1>1, <1>2, <1>3, <1>4, <1>5, <1>6, <1>7, <1>8 DEF Forward

\* The sink moves one packet between its queues.
LEMMA SinkKeeps ==
    ASSUME PlaneInv, traffic_monitor
    PROVE  PlaneInv'
<1>1. PICK p \in Pkt : Put(p, "app") \/ Put(p, "sgidn")
    BY DEF traffic_monitor, SinkUplink, SinkDownlink
<1>2. UNCHANGED <<tables, hdr, lost>>
    BY DEF traffic_monitor, SinkUplink, SinkDownlink
<1>3. TablesOK' /\ Owned' /\ UesOK'
    BY <1>2, TablesStay
<1>4. QED
    BY <1>1, <1>2, <1>3 DEF PlaneInv, PlaneTypeOK, OwnTunnel, Put, Place, Datagram, tables

\* PlaneInv is inductive: it holds of every state of the user plane.
THEOREM PlaneInvariant == PlaneSpec => []PlaneInv
<1>1. ASSUME PlaneInv, [PlaneNext]_planeVars
      PROVE  PlaneInv'
    <2>1. ASSUME NEW t \in N4Thread, N4Step(t) PROVE PlaneInv'
        BY <1>1, <2>1, CreateKeeps, SgiKeeps, CtxKeeps, LookupKeeps, AnswerKeeps DEF N4Step
    <2>2. CASE UNCHANGED planeVars
        <3>1. UNCHANGED tables /\ UNCHANGED <<at, hdr, lost>>
            BY <2>2 DEF planeVars, packets
        <3>2. TablesOK' /\ Owned' /\ UesOK'
            BY <1>1, <3>1, TablesStay
        <3> QED BY <1>1, <3>1, <3>2 DEF PlaneInv, PlaneTypeOK, OwnTunnel, tables
    <2>3. QED
        BY <1>1, <2>1, <2>2, UplinkKeeps, PacketKeeps, SinkKeeps DEF PlaneNext
<1>2. QED
    BY <1>1, InitPlane, PTL DEF PlaneSpec

\* handle_downlink_udata looks up twice and the RAN keeps stale uplink
\* information, yet no uplink datagram is on the tunnel of another UE and no
\* downlink one goes to an eNodeB that is not known, however many N4 threads
\* create and remove sessions meanwhile.
THEOREM OwnTunnelAlways == PlaneSpec => []OwnTunnel
<1>1. PlaneInv => OwnTunnel
    BY DEF PlaneInv
<1>2. QED
    BY <1>1, PlaneInvariant, PTL

\* No lookup of the data plane and no handler of another UE leaves an entry for
\* a UE whose handle_detach() is through, unless the UE came back before that.
THEOREM NoGhostContextAlways == PlaneSpec => []NoGhostContext
<1>1. PlaneInv => NoGhostContext
    BY DEF PlaneInv, UesOK, UeOK, LeftOK, NoGhostContext
<1>2. QED
    BY <1>1, PlaneInvariant, PTL

-----------------------------------------------------------------------------
(***************************************************************************)
(* The pool of addresses: the loop assigns them in ascending order of      *)
(* their rank.                                                             *)
(***************************************************************************)
\* The inductive invariant.
PoolInv == PoolTypeOK /\ AscendingOrder

LEMMA HostsPositive == Hosts \in Nat \ {0}
BY IpPoolAssumption DEF Hosts

\* While there is a subscriber left, the current subnet still fits its octet.
LEMMA SubnetFits ==
    ASSUME PoolInv, i < MAX_UE_COUNT
    PROVE  subnet \in 1 .. LastSubnet
<1>1. DEFINE q == subnet - 1
<1>2. /\ q \in Nat /\ subnet \in Nat /\ i \in Nat /\ host \in Nat /\ host >= FirstHost
  BY IpPoolAssumption DEF PoolInv, PoolTypeOK, AscendingOrder
<1>3. q * Hosts <= i
  <2>1. q * Hosts \in Nat
    BY <1>2, HostsPositive
  <2>2. i = q * Hosts + (host - FirstHost)
    BY DEF PoolInv, AscendingOrder
  <2> QED BY <1>2, <2>1, <2>2, IpPoolAssumption
<1>4. SUFFICES ASSUME subnet > LastSubnet
               PROVE  FALSE
  BY <1>2, IpPoolAssumption DEF PoolInv, AscendingOrder
<1>5. PICK d \in Nat : q = LastSubnet + d
  <2>1. q - LastSubnet \in Nat
    BY <1>2, <1>4, IpPoolAssumption
  <2> QED BY <2>1, <1>2, IpPoolAssumption
<1>6. q * Hosts = LastSubnet * Hosts + d * Hosts
  BY <1>5, HostsPositive, IpPoolAssumption
<1>7. d * Hosts \in Nat /\ LastSubnet * Hosts \in Nat
  BY <1>5, HostsPositive, IpPoolAssumption
<1>8. LastSubnet * Hosts <= i
  BY <1>2, <1>3, <1>6, <1>7
<1> QED BY <1>2, <1>7, <1>8, IpPoolAssumption

\* The loop over hosts and subnets assigns the addresses in ascending order:
\* PoolInv is inductive.
THEOREM PoolInvariant == PoolSpec => []PoolInv
<1>1. PoolInit => PoolInv
  BY IpPoolAssumption, HostsPositive DEF PoolInit, PoolInv, PoolTypeOK, AscendingOrder, Address, NoAddr
<1>2. PoolInv /\ [set_ip_addrs]_poolVars => PoolInv'
  <2> SUFFICES ASSUME PoolInv, [set_ip_addrs]_poolVars
               PROVE  PoolInv'
    OBVIOUS
  <2>1. CASE set_ip_addrs
    <3>1. /\ i \in 0 .. MAX_UE_COUNT /\ i < MAX_UE_COUNT /\ i \in Nat
          /\ subnet \in 1 .. LastSubnet
          /\ host \in FirstHost .. LastHost
          /\ ip_addrs \in [0 .. (MAX_UE_COUNT - 1) -> Address]
      BY <2>1, SubnetFits, IpPoolAssumption DEF set_ip_addrs, PoolInv, PoolTypeOK
    <3>2. PoolTypeOK'
      BY <2>1, <3>1, IpPoolAssumption, SMTT(30) DEF set_ip_addrs, PoolTypeOK, Address
    <3>3. (i = (subnet - 1) * Hosts + (host - FirstHost))' /\ (subnet >= 1)'
      <4>1. CASE host = LastHost
        <5>1. subnet' = subnet + 1 /\ host' = FirstHost /\ i' = i + 1
          BY <2>1, <4>1 DEF set_ip_addrs
        <5>2. (subnet + 1 - 1) * Hosts = (subnet - 1) * Hosts + Hosts
          BY <3>1, HostsPositive, IpPoolAssumption
        <5>3. (subnet - 1) * Hosts \in Nat
          BY <3>1, HostsPositive, IpPoolAssumption
        <5> QED BY <5>1, <5>2, <5>3, <4>1, <3>1, IpPoolAssumption
                DEF PoolInv, AscendingOrder, Hosts
      <4>2. CASE host # LastHost
        <5>1. subnet' = subnet /\ host' = host + 1 /\ i' = i + 1
          BY <2>1, <4>2 DEF set_ip_addrs
        <5>2. (subnet - 1) * Hosts \in Nat
          BY <3>1, HostsPositive, IpPoolAssumption
        <5> QED BY <5>1, <5>2, <3>1, IpPoolAssumption DEF PoolInv, AscendingOrder
      <4> QED BY <4>1, <4>2
    <3>4. ASSUME NEW k \in 0 .. (i' - 1)
          PROVE  Rank(ip_addrs'[k]) = k
      <4>1. i' = i + 1
        BY <2>1 DEF set_ip_addrs
      <4>2. CASE k = i
        <5>1. ip_addrs'[k] = <<subnet, host>>
          <6>1. i \in 0 .. (MAX_UE_COUNT - 1)
            BY <3>1, IpPoolAssumption
          <6>2. ip_addrs' = [ip_addrs EXCEPT ![i] = <<subnet, host>>]
            BY <2>1 DEF set_ip_addrs
          <6> QED BY <6>1, <6>2, <3>1, <4>2
        <5> QED BY <5>1, <4>2 DEF Rank, PoolInv, AscendingOrder
      <4>3. CASE k # i
        <5>1. k \in 0 .. (i - 1)
          BY <4>1, <4>3, <3>1
        <5>2. ip_addrs'[k] = ip_addrs[k]
          BY <2>1, <3>1, <4>3, <5>1 DEF set_ip_addrs
        <5> QED BY <5>1, <5>2 DEF PoolInv, AscendingOrder
      <4> QED BY <4>2, <4>3
    <3> QED BY <3>2, <3>3, <3>4 DEF PoolInv, AscendingOrder, Rank
  <2>2. CASE UNCHANGED poolVars
    BY <2>2 DEF poolVars, PoolInv, PoolTypeOK, AscendingOrder, Rank
  <2> QED BY <2>1, <2>2
<1> QED BY <1>1, <1>2, PTL DEF PoolSpec

\* No two subscribers share an address, however many there are, as long as the
\* subnets suffice.
THEOREM AddressesDifferAlways == PoolSpec => []AddressesDiffer
<1>1. PoolInv => AddressesDiffer
  <2> SUFFICES ASSUME PoolInv,
                      NEW a \in 0 .. (i - 1), NEW b \in 0 .. (i - 1), a # b
               PROVE  ip_addrs[a] # ip_addrs[b]
    BY DEF AddressesDiffer
  <2>1. Rank(ip_addrs[a]) = a /\ Rank(ip_addrs[b]) = b
    BY DEF PoolInv, AscendingOrder
  <2> QED BY <2>1
<1> QED BY <1>1, PoolInvariant, PTL

-----------------------------------------------------------------------------
(***************************************************************************)
(* The start of AUSF, SMF and AMF.                                         *)
(***************************************************************************)
\* Consul and the AMF know a program by its own address or not at all.
OwnAddresses ==
    /\ \A p \in Proc : registry[p] \in {Addr(p), NoAddress}
    /\ \A q \in {"ausf", "smf"} : found[q] \in {Addr(q), NoAddress}

\* The AUSF to which the AMF has connected has its database, unless it was
\* killed since; and only a program whose server threads run listens.
AusfFirst ==
    /\ pc["ausf"] = "up" => mysql
    /\ pc["amf"] = "up" => dialled > 0
    /\ pc["amf"] = "up" => orphaned \/ pc["ausf"] \in {"up", "exited"}
    /\ \A s \in listening : pc[s[1]] \in Spawned

\* The loop of the AMF's run().
Dialling ==
    /\ pc["amf"] \in {"dereg", "register", "fetch", "refetch", "spawn"} => dialled = 0
    /\ pc["amf"] = "conn" => dialled < AmfThreads

StartInv ==
    StartTypeOK /\ RegisteredWhileUp /\ PeersKnown /\ OwnAddresses /\ AusfFirst /\ Dialling

\* A server of the AUSF that listens has its database, so far as the AMF knows.
LEMMA NoneEarly == StartInv => StartsSafely
<1> SUFFICES ASSUME StartInv, ~ NoEarlyQuery PROVE FALSE
  BY DEF StartInv, StartsSafely
<1>1. PICK w \in Worker : <<"ausf", GrpcPort(5005, w)>> \in listening
  BY DEF NoEarlyQuery
<1>2. pc["amf"] = "up" /\ ~ mysql /\ ~ orphaned
  BY DEF NoEarlyQuery
<1>3. pc["ausf"] \in Spawned
  BY <1>1 DEF StartInv, AusfFirst
<1>4. pc["ausf"] = "up"
  BY <1>2, <1>3 DEF StartInv, AusfFirst, Spawned
<1> QED BY <1>2, <1>4 DEF StartInv, AusfFirst

LEMMA StartInitSafe == StartInit => StartInv
<1> SUFFICES ASSUME StartInit PROVE StartInv
  OBVIOUS
<1>1. StartTypeOK
  <2>1. 0 \in 0 .. MaxOutage /\ 0 \in 0 .. MaxCrash /\ 0 \in 0 .. AmfThreads
    BY StartupAssumption
  <2>2. pc \in [Proc -> Steps] /\ why \in [Proc -> Reasons]
    BY DEF StartInit, Steps, Reasons
  <2> QED BY <2>1, <2>2 DEF StartInit, StartTypeOK
<1>2. RegisteredWhileUp /\ PeersKnown
  BY DEF StartInit, RegisteredWhileUp, PeersKnown, Started, Spawned, Proc
<1>3. OwnAddresses /\ AusfFirst /\ Dialling
  BY DEF StartInit, OwnAddresses, AusfFirst, Dialling, Proc
<1> QED BY <1>1, <1>2, <1>3 DEF StartInv

\* The program counters after a step of program p to l.
LEMMA Moves ==
    ASSUME StartTypeOK, NEW p \in Proc, NEW l \in Steps, Goto(p, l)
    PROVE  /\ pc' \in [Proc -> Steps] /\ why' = why /\ pc'[p] = l
           /\ \A q \in Proc : q # p => pc'[q] = pc[q]
BY DEF StartTypeOK, Goto

\* A step after which the server threads that ran still run.
LEMMA Listeners ==
    ASSUME StartInv, listening' = listening, \A q \in Proc : pc[q] \in Spawned => pc'[q] \in Spawned
    PROVE  \A s \in listening' : pc'[s[1]] \in Spawned
<1>1. \A s \in listening : s[1] \in Proc /\ pc[s[1]] \in Spawned
  BY DEF StartInv, StartTypeOK, AusfFirst
<1> QED BY <1>1

\* A program that is gone, for a reason of its own.
LEMMA Ends ==
    ASSUME StartInv, NEW p \in Proc, NEW reason \in Reasons, Exit(p, reason),
           UNCHANGED <<consul, crashes, amfVars>>
    PROVE  StartInv'
<1>1. /\ pc' \in [Proc -> Steps] /\ why' \in [Proc -> Reasons]
      /\ pc'[p] = "exited" /\ why'[p] = reason
      /\ \A q \in Proc : q # p => pc'[q] = pc[q] /\ why'[q] = why[q]
  BY DEF Exit, StartInv, StartTypeOK, Steps
<1>2. /\ listening' \subseteq listening /\ \A s \in listening' : s[1] # p
      /\ p # "ausf" => mysql' = mysql
      /\ mysql' \in BOOLEAN
  BY DEF Exit, Gone, StartInv, StartTypeOK
<1>3. StartTypeOK'
  BY <1>1, <1>2 DEF StartInv, StartTypeOK, consul, amfVars
<1>5. RegisteredWhileUp' /\ PeersKnown'
  BY <1>1 DEF StartInv, RegisteredWhileUp, PeersKnown, Started, Spawned, consul,
              amfVars, Proc
<1>6. OwnAddresses' /\ Dialling'
  BY <1>1 DEF StartInv, OwnAddresses, Dialling, consul, amfVars, Proc
<1>7. AusfFirst'
  <2>1. \A s \in listening' : s[1] \in Proc \ {p} /\ pc[s[1]] \in Spawned
    BY <1>2 DEF StartInv, StartTypeOK, AusfFirst
  <2>2. \A s \in listening' : pc'[s[1]] \in Spawned
    BY <1>1, <2>1
  <2> QED BY <1>1, <1>2, <2>2 DEF StartInv, AusfFirst, amfVars, Proc
<1> QED BY <1>3, <1>5, <1>6, <1>7 DEF StartInv

LEMMA LaunchSafe ==
    ASSUME StartInv, NEW p \in Proc, Launch(p)
    PROVE  StartInv'
<1>0. StartTypeOK /\ "dereg" \in Steps /\ 0 \in 0 .. AmfThreads
  BY StartupAssumption DEF StartInv, Steps
<1>1. /\ pc[p] = "off" /\ pc' \in [Proc -> Steps] /\ why' = why /\ pc'[p] = "dereg"
      /\ \A q \in Proc : q # p => pc'[q] = pc[q]
  BY <1>0, Moves DEF Launch
<1>2. /\ p = "amf" => /\ found' = [q \in {"ausf", "smf"} |-> NoAddress] /\ dialled' = 0
                      /\ request' = [w \in Worker |-> "none"] /\ orphaned' = FALSE
      /\ p # "amf" => UNCHANGED <<found, dialled, request, orphaned>>
      /\ UNCHANGED <<registry, consulUp, outages, crashes, listening, mysql>>
  BY DEF Launch, amfVars, consul
<1>3. /\ found' \in [{"ausf", "smf"} -> {Addr(q) : q \in Proc} \cup {NoAddress}]
      /\ dialled' \in 0 .. AmfThreads /\ request' \in [Worker -> {"none", "autn", "done"}]
      /\ orphaned' \in BOOLEAN
  BY <1>0, <1>2 DEF StartTypeOK
<1>4. StartTypeOK'
  BY <1>0, <1>1, <1>2, <1>3 DEF StartTypeOK
<1>5. RegisteredWhileUp' /\ PeersKnown'
  BY <1>1, <1>2 DEF StartInv, RegisteredWhileUp, PeersKnown,
                    Started, Spawned, Proc
<1>6. OwnAddresses' /\ Dialling'
  BY <1>1, <1>2 DEF StartInv, OwnAddresses, Dialling, Proc
<1>7. AusfFirst'
  <2>1. \A q \in Proc : pc[q] \in Spawned => pc'[q] \in Spawned
    BY <1>1, <1>2 DEF Spawned, Proc
  <2>2. \A s \in listening' : pc'[s[1]] \in Spawned
    BY <1>1, <1>2, <2>1, Listeners
  <2> QED BY <1>1, <1>2, <2>2 DEF StartInv, AusfFirst, Proc
<1> QED BY <1>4, <1>5, <1>6, <1>7 DEF StartInv

LEMMA DeregisterSafe ==
    ASSUME StartInv, NEW p \in Proc, deregisterService(p)
    PROVE  StartInv'
<1>0. StartTypeOK /\ "register" \in Steps
  BY DEF StartInv, Steps
<1>1. /\ pc[p] = "dereg" /\ pc' \in [Proc -> Steps] /\ why' = why /\ pc'[p] = "register"
      /\ \A q \in Proc : q # p => pc'[q] = pc[q]
  BY <1>0, Moves DEF deregisterService
<1>2. /\ \A q \in Proc : q # p => registry'[q] = registry[q]
      /\ registry'[p] \in {registry[p], NoAddress}
      /\ registry' \in [Proc -> {Addr(q) : q \in Proc} \cup {NoAddress}]
      /\ UNCHANGED <<consulUp, outages, crashes, listening, mysql, found, dialled, request, orphaned>>
  BY <1>0 DEF deregisterService, amfVars, StartTypeOK
<1>3. StartTypeOK'
  BY <1>0, <1>1, <1>2 DEF StartTypeOK
<1>4. RegisteredWhileUp' /\ PeersKnown'
  BY <1>1, <1>2 DEF StartInv, RegisteredWhileUp, PeersKnown,
                    Started, Spawned, Proc
<1>5. OwnAddresses' /\ Dialling'
  BY <1>1, <1>2 DEF StartInv, OwnAddresses, Dialling, Proc
<1>6. AusfFirst'
  <2>1. \A q \in Proc : pc[q] \in Spawned => pc'[q] \in Spawned
    BY <1>1, <1>2 DEF Spawned, Proc
  <2>2. \A s \in listening' : pc'[s[1]] \in Spawned
    BY <1>1, <1>2, <2>1, Listeners
  <2> QED BY <1>1, <1>2, <2>2 DEF StartInv, AusfFirst, Proc
<1> QED BY <1>3, <1>4, <1>5, <1>6 DEF StartInv

LEMMA RegisterSafe ==
    ASSUME StartInv, NEW p \in Proc, serviceRegister(p)
    PROVE  StartInv'
<1>0. StartTypeOK
  BY DEF StartInv
<1>1. CASE ~ consulUp
  <2>1. pc[p] = "register" /\ Exit(p, "consul") /\ UNCHANGED <<consul, crashes, amfVars>>
    BY <1>1 DEF serviceRegister, consul
  <2> QED BY <2>1, Ends DEF Reasons
<1>2. CASE consulUp
  <2>1. PICK l : l = (IF p = "amf" THEN "fetch" ELSE "spawn")
    OBVIOUS
  <2>2. l \in Steps /\ Goto(p, l) /\ l \in {"fetch", "spawn"}
    BY <1>2, <2>1 DEF serviceRegister, Steps
  <2>3. /\ pc[p] = "register" /\ pc' \in [Proc -> Steps] /\ why' = why /\ pc'[p] = l
        /\ \A q \in Proc : q # p => pc'[q] = pc[q]
    BY <1>0, <2>2, Moves DEF serviceRegister
  <2>4. /\ registry' = [registry EXCEPT ![p] = Addr(p)]
        /\ UNCHANGED <<consulUp, outages, crashes, listening, mysql, found, dialled, request, orphaned>>
    BY <1>2 DEF serviceRegister, amfVars
  <2>5. /\ registry' \in [Proc -> {Addr(q) : q \in Proc} \cup {NoAddress}]
        /\ registry'[p] = Addr(p)
        /\ \A q \in Proc : q # p => registry'[q] = registry[q]
    BY <1>0, <2>4 DEF StartTypeOK
  <2>6. StartTypeOK'
    BY <1>0, <2>3, <2>4, <2>5 DEF StartTypeOK
  <2>7. RegisteredWhileUp' /\ PeersKnown'
    BY <2>2, <2>3, <2>4, <2>5 DEF StartInv, RegisteredWhileUp, PeersKnown, Proc
  <2>8. OwnAddresses'
    BY <2>4, <2>5 DEF StartInv, OwnAddresses
  <2>9. Dialling' /\ AusfFirst'
    <3>1. \A q \in Proc : pc[q] \in Spawned => pc'[q] \in Spawned
      BY <2>2, <2>3, <2>4 DEF Spawned, Proc
    <3>2. \A s \in listening' : pc'[s[1]] \in Spawned
      BY <2>2, <2>3, <2>4, <3>1, Listeners
    <3> QED BY <2>2, <2>3, <2>4, <3>2 DEF StartInv, Dialling, AusfFirst, Proc
  <2> QED BY <2>6, <2>7, <2>8, <2>9 DEF StartInv
<1> QED BY <1>1, <1>2

\* What Consul says of a peer is the peer's address or nothing.
LEMMA FetchSafe ==
    ASSUME StartInv, Fetch \/ Refetch
    PROVE  StartInv'
<1>0. StartTypeOK /\ "amf" \in Proc
  BY DEF StartInv, Proc
<1>1. \A q \in {"ausf", "smf"} : Service(q) \in {Addr(q), NoAddress}
  BY DEF Service, StartInv, OwnAddresses, Proc
<1>2. PICK l \in {"refetch", "spawn"} : Goto("amf", l) /\ l \in Steps
  BY DEF Fetch, Refetch, Steps
<1>3. /\ pc["amf"] \in {"fetch", "refetch"}
      /\ pc' \in [Proc -> Steps] /\ why' = why /\ pc'["amf"] = l
      /\ \A q \in Proc : q # "amf" => pc'[q] = pc[q]
  BY <1>0, <1>2, Moves DEF Fetch, Refetch
<1>4. UNCHANGED <<registry, consulUp, outages, crashes, listening, mysql, dialled, request, orphaned>>
  BY DEF Fetch, Refetch, consul
<1>5. /\ found' \in [{"ausf", "smf"} -> {Addr(q) : q \in Proc} \cup {NoAddress}]
      /\ \A q \in {"ausf", "smf"} : found'[q] \in {Addr(q), NoAddress}
  BY <1>0, <1>1 DEF Fetch, Refetch, StartTypeOK, StartInv, OwnAddresses, Proc
<1>6. StartTypeOK'
  BY <1>0, <1>3, <1>4, <1>5 DEF StartTypeOK
<1>7. RegisteredWhileUp' /\ PeersKnown'
  BY <1>3, <1>4 DEF StartInv, RegisteredWhileUp, PeersKnown,
                    Started, Proc
<1>8. OwnAddresses'
  BY <1>4, <1>5 DEF StartInv, OwnAddresses
<1>9. Dialling' /\ AusfFirst'
  <2>1. \A q \in Proc : pc[q] \in Spawned => pc'[q] \in Spawned
    BY <1>3, <1>4 DEF Spawned, Proc
  <2>2. \A s \in listening' : pc'[s[1]] \in Spawned
    BY <1>3, <1>4, <2>1, Listeners
  <2> QED BY <1>3, <1>4, <2>2 DEF StartInv, Dialling, AusfFirst, Proc
<1> QED BY <1>6, <1>7, <1>8, <1>9 DEF StartInv

LEMMA SpawnSafe ==
    ASSUME StartInv, NEW p \in Proc, SpawnServers(p)
    PROVE  StartInv'
<1>0. StartTypeOK
  BY DEF StartInv
<1>1. PICK l : l = (CASE p = "ausf" -> "mysql" [] p = "amf" -> "conn" [] p = "smf" -> "up")
  OBVIOUS
<1>2. /\ l \in Steps
      /\ p = "ausf" => l = "mysql"
      /\ p = "amf" => l = "conn"
      /\ l \in Spawned
  BY <1>1 DEF Steps, Proc, Spawned
<1>3. /\ pc[p] = "spawn" /\ pc' \in [Proc -> Steps] /\ why' = why /\ pc'[p] = l
      /\ \A q \in Proc : q # p => pc'[q] = pc[q]
  <2>1. Goto(p, l)
    BY <1>1 DEF SpawnServers
  <2> QED BY <1>0, <1>2, <2>1, Moves DEF SpawnServers
<1>4. UNCHANGED <<registry, consulUp, outages, crashes, listening, mysql, found, dialled, request, orphaned>>
  BY DEF SpawnServers, consul, amfVars
<1>5. StartTypeOK'
  BY <1>0, <1>3, <1>4 DEF StartTypeOK
<1>6. RegisteredWhileUp' /\ PeersKnown'
  BY <1>2, <1>3, <1>4 DEF StartInv, RegisteredWhileUp,
                          PeersKnown, Started, Proc
<1>7. OwnAddresses'
  BY <1>4 DEF StartInv, OwnAddresses
<1>8. Dialling' /\ AusfFirst'
  <2>1. \A q \in Proc : pc[q] \in Spawned => pc'[q] \in Spawned
    BY <1>2, <1>3, <1>4, StartupAssumption DEF Spawned, Proc
  <2>2. \A s \in listening' : pc'[s[1]] \in Spawned
    BY <1>2, <1>3, <1>4, StartupAssumption, <2>1, Listeners
  <2> QED BY <1>2, <1>3, <1>4, StartupAssumption, <2>2 DEF StartInv, Dialling, AusfFirst, Proc
<1> QED BY <1>5, <1>6, <1>7, <1>8 DEF StartInv

\* A thread has its port, or the program ends.
LEMMA ServerSafe ==
    ASSUME StartInv, NEW p \in Proc, NEW w \in ServerThread(p), Server(p, w)
    PROVE  StartInv'
<1>1. PICK g \in Groups(p) : RunServer(p, g, w)
  BY DEF Server
<1>2. GrpcPort(g, w) \in Nat
  <2>1. g \in Nat /\ w \in Nat
    BY DEF Groups, ServerThread
  <2> QED BY <2>1 DEF GrpcPort
<1>3. CASE ~ (GrpcPort(g, w) <= LastPort)
  <2>1. Exit(p, "port") /\ UNCHANGED <<consul, crashes, amfVars>>
    BY <1>1, <1>3 DEF RunServer
  <2> QED BY <2>1, Ends DEF Reasons
<1>4. CASE GrpcPort(g, w) <= LastPort
  <2>1. /\ listening' = listening \cup {<<p, GrpcPort(g, w)>>} /\ UNCHANGED <<pc, why, mysql>>
        /\ UNCHANGED <<registry, consulUp, outages, crashes, found, dialled, request, orphaned>>
        /\ pc[p] \in Spawned
    BY <1>1, <1>4 DEF RunServer, consul, amfVars
  <2>2. StartTypeOK'
    BY <1>2, <1>4, <2>1, StartupAssumption DEF StartInv, StartTypeOK
  <2>3. \A s \in listening' : pc'[s[1]] \in Spawned
    BY <2>1 DEF StartInv, AusfFirst
  <2> QED BY <2>1, <2>2, <2>3 DEF StartInv, RegisteredWhileUp, PeersKnown, OwnAddresses, Dialling,
                                  AusfFirst
<1> QED BY <1>3, <1>4

LEMMA DatabaseSafe ==
    ASSUME StartInv, handle_mysql_conn
    PROVE  StartInv'
<1>0. StartTypeOK /\ "ausf" \in Proc /\ pc["ausf"] = "mysql"
  BY DEF StartInv, Proc, handle_mysql_conn
<1>1. CASE ~ MysqlUp
  <2>1. Exit("ausf", "mysql_conn") /\ UNCHANGED <<consul, crashes, amfVars>>
    BY <1>1 DEF handle_mysql_conn
  <2> QED BY <1>0, <2>1, Ends DEF Reasons
<1>2. CASE MysqlUp
  <2>1. /\ mysql' = TRUE
        /\ UNCHANGED <<registry, consulUp, outages, crashes, listening, found, dialled, request, orphaned>>
    BY <1>2 DEF handle_mysql_conn, consul, amfVars
  <2>2. /\ pc' \in [Proc -> Steps] /\ why' = why /\ pc'["ausf"] = "up"
        /\ \A q \in Proc : q # "ausf" => pc'[q] = pc[q]
    BY <1>0, <1>2, Moves DEF handle_mysql_conn, Steps
  <2>3. StartTypeOK'
    BY <1>0, <2>1, <2>2 DEF StartTypeOK
  <2>4. RegisteredWhileUp' /\ PeersKnown'
    BY <1>0, <2>1, <2>2 DEF StartInv, RegisteredWhileUp,
                            PeersKnown, Started, Spawned, Proc
  <2>5. OwnAddresses'
    BY <2>1 DEF StartInv, OwnAddresses
  <2>6. Dialling' /\ AusfFirst'
    <3>1. \A q \in Proc : pc[q] \in Spawned => pc'[q] \in Spawned
      BY <2>1, <2>2 DEF Spawned, Proc
    <3>2. \A s \in listening' : pc'[s[1]] \in Spawned
      BY <2>1, <2>2, <3>1, Listeners
    <3> QED BY <2>1, <2>2, <3>2 DEF StartInv, Dialling, AusfFirst, Proc
  <2> QED BY <2>3, <2>4, <2>5, <2>6 DEF StartInv
<1> QED BY <1>1, <1>2

\* A connection is made only while the AUSF listens on port 6000, and the last
\* one opens the AMF.
LEMMA ConnSafe ==
    ASSUME StartInv, conn
    PROVE  StartInv'
<1>0. StartTypeOK /\ "amf" \in Proc /\ pc["amf"] = "conn"
  BY DEF StartInv, Proc, conn
<1>1. CASE \E q \in {"ausf", "smf"} : found[q] = NoAddress
  <2>1. Exit("amf", "address") /\ UNCHANGED <<consul, crashes, amfVars>>
    BY <1>1 DEF conn, amfVars
  <2> QED BY <1>0, <2>1, Ends DEF Reasons
<1>2. CASE ~ \E q \in {"ausf", "smf"} : found[q] = NoAddress
  <2>1. /\ pc["ausf"] = "up" /\ dialled' = dialled + 1
        /\ IF dialled + 1 >= AmfThreads THEN Goto("amf", "up") ELSE UNCHANGED <<pc, why>>
        /\ UNCHANGED <<registry, consulUp, outages, crashes, listening, mysql, found, request, orphaned>>
    BY <1>2 DEF conn, consul
  <2>2. dialled < AmfThreads /\ dialled \in Nat /\ AmfThreads \in Nat
    BY <1>0, StartupAssumption DEF StartInv, Dialling, StartTypeOK
  <2>3. dialled' \in 0 .. AmfThreads /\ (~ (dialled + 1 >= AmfThreads) => dialled' < AmfThreads)
    BY <2>1, <2>2
  <2>4. \A q \in {"ausf", "smf"} : found[q] = Addr(q)
    BY <1>2 DEF StartInv, OwnAddresses
  <2>5. /\ pc' \in [Proc -> Steps] /\ why' = why
        /\ pc'["amf"] = "up" \/ (pc'["amf"] = "conn" /\ dialled' < AmfThreads)
        /\ \A q \in Proc : q # "amf" => pc'[q] = pc[q]
    <3>1. CASE dialled + 1 >= AmfThreads
      BY <1>0, <2>1, <3>1, Moves DEF Steps
    <3>2. CASE ~ (dialled + 1 >= AmfThreads)
      BY <1>0, <2>1, <2>3, <3>2 DEF StartTypeOK
    <3> QED BY <3>1, <3>2
  <2>6. StartTypeOK'
    BY <1>0, <2>1, <2>3, <2>5 DEF StartTypeOK
  <2>7. RegisteredWhileUp'
    BY <1>0, <2>1, <2>5 DEF StartInv, RegisteredWhileUp,
                            Started, Spawned, Proc
  <2>8. PeersKnown' /\ OwnAddresses'
    BY <2>1, <2>4 DEF StartInv, PeersKnown, OwnAddresses
  <2>9. Dialling' /\ AusfFirst'
    <3>1. \A q \in Proc : pc[q] \in Spawned => pc'[q] \in Spawned
      BY <2>1, <2>5 DEF Spawned, Proc
    <3>2. \A s \in listening' : pc'[s[1]] \in Spawned
      BY <2>1, <2>5, <3>1, Listeners
    <3> QED BY <2>1, <2>2, <2>5, <3>2 DEF StartInv, Dialling, AusfFirst, Proc
  <2> QED BY <2>6, <2>7, <2>8, <2>9 DEF StartInv
<1> QED BY <1>1, <1>2

\* A request ends at most the AUSF.
LEMMA RequestSafe ==
    ASSUME StartInv, NEW w \in Worker, handle_ue(w) \/ AmfAusfInteraction(w)
    PROVE  StartInv'
<1>0. StartTypeOK /\ "ausf" \in Proc
  BY DEF StartInv, Proc
<1>1. /\ UNCHANGED <<registry, consulUp, outages, crashes, found, dialled, orphaned>>
      /\ request' \in [Worker -> {"none", "autn", "done"}]
  BY <1>0 DEF handle_ue, AmfAusfInteraction, consul, StartTypeOK
<1>2. CASE UNCHANGED <<pc, why, listening, mysql>>
  <2>1. StartTypeOK'
    BY <1>0, <1>1, <1>2 DEF StartTypeOK
  <2> QED BY <1>1, <1>2, <2>1 DEF StartInv, RegisteredWhileUp, PeersKnown, OwnAddresses, Dialling,
                                  AusfFirst
<1>3. CASE Exit("ausf", "mysql_query")
  <2>1. /\ pc' \in [Proc -> Steps] /\ why' \in [Proc -> Reasons] /\ pc'["ausf"] = "exited"
        /\ \A q \in Proc : q # "ausf" => pc'[q] = pc[q]
    BY <1>0, <1>3 DEF Exit, StartTypeOK, Steps, Reasons
  <2>2. listening' \subseteq listening /\ (\A s \in listening' : s[1] # "ausf") /\ mysql' = FALSE
    BY <1>3 DEF Exit, Gone
  <2>3. StartTypeOK'
    BY <1>0, <1>1, <2>1, <2>2 DEF StartTypeOK
  <2>4. RegisteredWhileUp' /\ PeersKnown' /\ OwnAddresses' /\ Dialling'
    BY <1>1, <2>1 DEF StartInv, RegisteredWhileUp, PeersKnown, OwnAddresses, Dialling, Started,
                      Spawned, Proc
  <2>5. \A s \in listening' : s[1] \in Proc \ {"ausf"} /\ pc[s[1]] \in Spawned
    BY <1>0, <2>2 DEF StartInv, StartTypeOK, AusfFirst
  <2>6. \A s \in listening' : pc'[s[1]] \in Spawned
    BY <2>1, <2>5
  <2>7. AusfFirst'
    BY <1>1, <2>1, <2>6 DEF StartInv, AusfFirst, Proc
  <2> QED BY <2>3, <2>4, <2>7 DEF StartInv
<1> QED BY <1>2, <1>3 DEF handle_ue, AmfAusfInteraction

\* The programs that are killed keep neither sockets nor requests, and an AMF
\* that stays is the AUSF's orphan.
LEMMA CrashSafe ==
    ASSUME StartInv, NEW p \in Proc, Crash(p)
    PROVE  StartInv'
<1>0. StartTypeOK /\ "off" \in Steps
  BY DEF StartInv, Steps
<1>1. /\ pc' \in [Proc -> Steps] /\ why' = why /\ pc'[p] = "off"
      /\ \A q \in Proc : q # p => pc'[q] = pc[q]
  BY <1>0, Moves DEF Crash
<1>2. /\ listening' \subseteq listening /\ \A s \in listening' : s[1] # p
      /\ p # "ausf" => mysql' = mysql
      /\ mysql' \in BOOLEAN
  BY <1>0 DEF Crash, Gone, StartTypeOK
<1>3. UNCHANGED <<registry, consulUp, outages, found, dialled>>
  BY DEF Crash, consul
<1>4. crashes' \in 0 .. MaxCrash
  BY <1>0, StartupAssumption DEF Crash, StartTypeOK
<1>5. /\ request' \in [Worker -> {"none", "autn", "done"}]
      /\ orphaned' \in BOOLEAN
      /\ orphaned => orphaned'
      /\ p = "ausf" /\ dialled > 0 => orphaned'
  BY <1>0 DEF Crash, StartTypeOK
<1>6. StartTypeOK'
  BY <1>0, <1>1, <1>2, <1>3, <1>4, <1>5 DEF StartTypeOK
<1>7. RegisteredWhileUp' /\ PeersKnown'
  BY <1>1, <1>3 DEF StartInv, RegisteredWhileUp, PeersKnown, Started, Spawned, Proc
<1>8. OwnAddresses' /\ Dialling'
  BY <1>1, <1>3 DEF StartInv, OwnAddresses, Dialling, Proc
<1>9. \A s \in listening' : s[1] \in Proc \ {p} /\ pc[s[1]] \in Spawned
  BY <1>0, <1>2 DEF StartInv, StartTypeOK, AusfFirst
<1>10. \A s \in listening' : pc'[s[1]] \in Spawned
  BY <1>1, <1>9
<1>11. AusfFirst'
  BY <1>1, <1>2, <1>3, <1>5, <1>10 DEF StartInv, AusfFirst, Proc
<1> QED BY <1>6, <1>7, <1>8, <1>11 DEF StartInv

LEMMA OutageSafe ==
    ASSUME StartInv, ConsulChanges
    PROVE  StartInv'
<1>1. UNCHANGED <<pc, why, registry, crashes, listening, mysql, found, dialled, request, orphaned>>
  BY DEF ConsulChanges, amfVars
<1>2. consulUp' \in BOOLEAN
  BY DEF ConsulChanges
<1>3. outages' \in 0 .. MaxOutage
  BY StartupAssumption DEF ConsulChanges, StartInv, StartTypeOK
<1>4. StartTypeOK'
  BY <1>1, <1>2, <1>3 DEF StartInv, StartTypeOK
<1> QED BY <1>1, <1>4 DEF StartInv, RegisteredWhileUp,
                          PeersKnown, OwnAddresses, Dialling, AusfFirst

\* Whatever the order of the start and whatever is killed, the AMF takes UEs
\* only while the AUSF it connected to has its database, and Consul and the AMF
\* hold no address but a program's own.
THEOREM StartInvariant == StartSpec => []StartInv
<1>1. StartInit => StartInv
  BY StartInitSafe
<1>2. StartInv /\ [StartNext]_startVars => StartInv'
  <2> SUFFICES ASSUME StartInv, [StartNext]_startVars PROVE StartInv'
    OBVIOUS
  <2>0. "ausf" \in Proc /\ "smf" \in Proc /\ "amf" \in Proc
    BY DEF Proc
  <2>1. ASSUME NEW p \in Proc, Launch(p) PROVE StartInv'
    BY <2>1, LaunchSafe
  <2>2. ASSUME NEW p \in Proc, Crash(p) PROVE StartInv'
    BY <2>2, CrashSafe
  <2>3. ASSUME NEW p \in Proc, NEW w \in ServerThread(p), Server(p, w) PROVE StartInv'
    BY <2>3, ServerSafe
  <2>4. ASSUME NEW w \in Worker, handle_ue(w) \/ AmfAusfInteraction(w) PROVE StartInv'
    BY <2>4, RequestSafe
  <2>5. ASSUME NEW p \in Proc, deregisterService(p) \/ serviceRegister(p) \/ SpawnServers(p)
        PROVE  StartInv'
    BY <2>5, DeregisterSafe, RegisterSafe, SpawnSafe
  <2>6. CASE Ausf
    BY <2>0, <2>5, <2>6, DatabaseSafe DEF Ausf
  <2>7. CASE Smf
    BY <2>0, <2>5, <2>7 DEF Smf
  <2>8. CASE Amf
    BY <2>0, <2>5, <2>8, FetchSafe, ConnSafe DEF Amf
  <2>9. CASE ConsulChanges
    BY <2>9, OutageSafe
  <2>10. CASE UNCHANGED startVars
    BY <2>10 DEF startVars, StartInv, StartTypeOK, RegisteredWhileUp, PeersKnown, OwnAddresses, Dialling, AusfFirst
  <2> QED BY <2>1, <2>2, <2>3, <2>4, <2>6, <2>7, <2>8, <2>9, <2>10 DEF StartNext
<1> QED BY <1>1, <1>2, PTL DEF StartSpec

\* The AUSF's gRPC servers, which run before its database is connected, get a
\* request that early only from an AMF that has outlived the AUSF it connected
\* to; a registered program is in Consul under its own address; and an AMF that
\* takes UEs knows both peers.
THEOREM StartsSafelyAlways == StartSpec => []StartsSafely
<1> QED BY NoneEarly, StartInvariant, PTL

-----------------------------------------------------------------------------
(***************************************************************************)
(* The stream: its bytes are the frames of the packets that were sent.     *)
(***************************************************************************)
Byte == {"len", "data"} \X Nat \X Nat

\* The frame of a packet, byte by byte.
FrameLen(m) == IntSize + size[m]
FrameByte(m, k) == IF k <= IntSize THEN <<"len", size[m], k>> ELSE <<"data", m, k - IntSize>>
FrameOf(m, f) ==
    /\ f \in Seq(Byte) /\ Len(f) = FrameLen(m)
    /\ \A k \in 1 .. FrameLen(m) : f[k] = FrameByte(m, k)

\* s is the frames of the packets w; that of w[nth] is behind place off[nth].
Framed(s, off, w) ==
    /\ s \in Seq(Byte) /\ off \in [1 .. (Len(w) + 1) -> Nat]
    /\ off[1] = 0 /\ off[Len(w) + 1] = Len(s)
    /\ \A nth \in 1 .. Len(w) :
        /\ off[nth + 1] = off[nth] + FrameLen(w[nth]) /\ off[nth + 1] <= Len(s)
        /\ \A k \in 1 .. FrameLen(w[nth]) : s[off[nth] + k] = FrameByte(w[nth], k)

\* b is the part of s behind place p.
Part(b, s, p) ==
    /\ b \in Seq(Byte) /\ p + Len(b) <= Len(s)
    /\ \A j \in 1 .. Len(b) : b[j] = s[p + j]

\* What the SMT solver needs of concatenation, as one fact.
Joined(d, a, b) ==
    /\ d \in Seq(Byte) /\ Len(d) = Len(a) + Len(b)
    /\ \A nth \in 1 .. Len(a) : d[nth] = a[nth]
    /\ \A nth \in 1 .. Len(b) : d[Len(a) + nth] = b[nth]

LEMMA Joining == \A a, b \in Seq(Byte) : \A d : d = a \o b => Joined(d, a, b)
<1> SUFFICES ASSUME NEW a \in Seq(Byte), NEW b \in Seq(Byte) PROVE Joined(a \o b, a, b)
    OBVIOUS
<1> QED BY DEF Joined

LEMMA FrameSizes ==
    ASSUME NEW m \in Packets
    PROVE  /\ size[m] \in 1 .. (MaxSize + IntSize) /\ size[m] \in Nat /\ size[m] >= 1 /\ m \in Nat
           /\ IntSize \in Nat /\ IntSize >= 1 /\ FrameLen(m) = IntSize + size[m] /\ FrameLen(m) \in Nat
<1>1. size[m] \in 1 .. MaxSize /\ MaxSize \in Nat /\ IntSize \in Nat /\ IntSize >= 1 /\ m \in Nat
    BY PktStreamAssumption
<1> QED BY <1>1 DEF FrameLen

\* The bytes of a frame.
LEMMA FrameIs ==
    ASSUME NEW m \in Packets, NEW f, f = prepend_len(m)
    PROVE  FrameOf(m, f)
<1>1. size[m] \in Nat /\ size[m] >= 1 /\ IntSize \in Nat /\ IntSize >= 1 /\ m \in Nat
    BY FrameSizes
<1>2. PICK n \in Nat, l \in Nat : n = size[m] /\ l = IntSize
    BY <1>1
<1>3. PICK a, b : /\ a = LenBytes(size[m]) /\ b = Bytes(m) /\ f = a \o b
    BY DEF prepend_len
<1>4. a \in Seq(Byte) /\ Len(a) = l /\ \A k \in 1 .. l : a[k] = <<"len", n, k>>
    <2>1. a = [k \in 1 .. l |-> <<"len", n, k>>]
        BY <1>2, <1>3 DEF LenBytes
    <2>2. \A k \in 1 .. l : <<"len", n, k>> \in Byte
        BY DEF Byte
    <2> QED BY <2>1, <2>2
<1>5. b \in Seq(Byte) /\ Len(b) = n /\ \A k \in 1 .. n : b[k] = <<"data", m, k>>
    <2>1. b = [k \in 1 .. n |-> <<"data", m, k>>]
        BY <1>2, <1>3 DEF Bytes
    <2>2. \A k \in 1 .. n : <<"data", m, k>> \in Byte
        BY <1>1 DEF Byte
    <2> QED BY <2>1, <2>2
<1>6. Joined(f, a, b)
    BY ONLY <1>3, <1>4, <1>5, Joining
<1>7. f \in Seq(Byte) /\ Len(f) = FrameLen(m)
    BY <1>2, <1>4, <1>5, <1>6 DEF Joined, FrameLen
<1>8. ASSUME NEW k \in 1 .. FrameLen(m) PROVE f[k] = FrameByte(m, k)
    <2>0. k \in 1 .. (l + n)
        BY <1>2 DEF FrameLen
    <2>1. CASE k <= l
        <3>1. k \in 1 .. l
            BY <2>0, <2>1
        <3>2. f[k] = <<"len", n, k>>
            BY <1>4, <1>6, <3>1 DEF Joined
        <3>3. FrameByte(m, k) = <<"len", n, k>>
            BY <1>2, <2>1 DEF FrameByte
        <3> QED BY <3>2, <3>3
    <2>2. CASE ~ (k <= l)
        <3>1. PICK j \in 1 .. n : k = l + j /\ j = k - l
            BY <2>0, <2>2
        <3>2. f[k] = <<"data", m, j>>
            BY <1>4, <1>5, <1>6, <3>1 DEF Joined
        <3>3. FrameByte(m, k) = <<"data", m, j>>
            BY <1>2, <2>2, <3>1 DEF FrameByte
        <3> QED BY <3>2, <3>3
    <2> QED BY <2>1, <2>2
<1> QED BY <1>7, <1>8 DEF FrameOf

\* A part that is split, and two that are joined.
SplitAt(x, y, b, k) == x = SubSeq(b, 1, k) /\ y = SubSeq(b, k + 1, Len(b))

LEMMA PartSplit ==
    ASSUME NEW s \in Seq(Byte), NEW b, NEW p \in Nat, Part(b, s, p), NEW k \in 0 .. Len(b),
           NEW x, NEW y, SplitAt(x, y, b, k)
    PROVE  /\ Part(x, s, p) /\ Len(x) = k
           /\ Part(y, s, p + k) /\ Len(y) = Len(b) - k
<1>1. b \in Seq(Byte) /\ p + Len(b) <= Len(s) /\ \A j \in 1 .. Len(b) : b[j] = s[p + j]
    BY DEF Part
<1>2. PICK l \in Nat, n \in Nat : l = Len(b) /\ n = Len(s)
    BY <1>1
<1>3. k \in 0 .. l /\ p + l <= n /\ k \in Nat /\ k <= l
    BY <1>1, <1>2
<1>4. x \in Seq(Byte) /\ Len(x) = k /\ \A j \in 1 .. k : x[j] = b[j]
    BY <1>1, <1>2, <1>3 DEF SplitAt
<1>5. y \in Seq(Byte) /\ Len(y) = l - k /\ \A j \in 1 .. (l - k) : y[j] = b[k + j]
    <2>1. b \in Seq(Byte) /\ k \in 0 .. Len(b) /\ y = SubSeq(b, k + 1, Len(b))
        BY <1>1 DEF SplitAt
    <2>2. y \in Seq(Byte) /\ Len(y) = Len(b) - k /\ \A j \in 1 .. (Len(b) - k) : y[j] = b[k + j]
        BY ONLY <2>1
    <2> QED BY <1>2, <2>2
<1>6. Part(x, s, p)
    <2>1. p + Len(x) <= Len(s)
        BY <1>2, <1>3, <1>4
    <2>2. ASSUME NEW j \in 1 .. Len(x) PROVE x[j] = s[p + j]
        <3>1. j \in 1 .. k /\ j \in 1 .. Len(b)
            BY <1>2, <1>3, <1>4
        <3> QED BY <1>1, <1>4, <3>1
    <2> QED BY <1>4, <2>1, <2>2 DEF Part
<1>7. Part(y, s, p + k)
    <2>1. p + k + Len(y) <= Len(s)
        <3>1. p + k + (l - k) <= n
            BY ONLY <1>3, p \in Nat, l \in Nat, n \in Nat
        <3> QED BY <1>2, <1>5, <3>1
    <2>2. ASSUME NEW j \in 1 .. Len(y) PROVE y[j] = s[p + k + j]
        <3>1. j \in 1 .. (l - k) /\ k + j \in 1 .. Len(b) /\ p + (k + j) = p + k + j
            BY <1>2, <1>3, <1>5
        <3>2. y[j] = b[k + j] /\ b[k + j] = s[p + (k + j)]
            BY <1>1, <1>5, <3>1
        <3> QED BY <3>1, <3>2
    <2> QED BY <1>5, <2>1, <2>2 DEF Part
<1> QED BY <1>2, <1>4, <1>5, <1>6, <1>7

LEMMA PartJoin ==
    ASSUME NEW s \in Seq(Byte), NEW a, NEW b, NEW p \in Nat, Part(a, s, p), Part(b, s, p + Len(a)),
           NEW d, Joined(d, a, b)
    PROVE  Part(d, s, p) /\ Len(d) = Len(a) + Len(b)
<1>1. a \in Seq(Byte) /\ \A j \in 1 .. Len(a) : a[j] = s[p + j]
    BY DEF Part
<1>2. b \in Seq(Byte) /\ p + Len(a) + Len(b) <= Len(s) /\ \A j \in 1 .. Len(b) : b[j] = s[p + Len(a) + j]
    BY DEF Part
<1>3. Joined(d, a, b)
    OBVIOUS
<1>4. PICK k \in Nat, l \in Nat, n \in Nat : k = Len(a) /\ l = Len(b) /\ n = Len(s)
    BY <1>1, <1>2
<1>5. d \in Seq(Byte) /\ Len(d) = k + l
    BY <1>3, <1>4 DEF Joined
<1>6. p + Len(d) <= Len(s)
    BY <1>2, <1>4, <1>5
<1>7. ASSUME NEW j \in 1 .. Len(d) PROVE d[j] = s[p + j]
    <2>1. CASE j \in 1 .. k
        BY <1>1, <1>3, <1>4, <2>1 DEF Joined
    <2>2. CASE j \notin 1 .. k
        <3>1. PICK nth \in 1 .. l : j = k + nth /\ p + k + nth = p + j
            <4>1. j - k \in 1 .. l /\ j = k + (j - k) /\ p + k + (j - k) = p + j
                BY <1>5, <2>2
            <4> QED BY <4>1
        <3>2. d[k + nth] = b[nth]
            BY <1>3, <1>4, <3>1 DEF Joined
        <3>3. b[nth] = s[p + k + nth]
            BY <1>2, <1>4, <3>1
        <3> QED BY <3>1, <3>2, <3>3
    <2> QED BY <2>1, <2>2
<1> QED BY <1>4, <1>5, <1>6, <1>7 DEF Part

\* t is s with more behind it.
Longer(t, s) == t \in Seq(Byte) /\ Len(t) >= Len(s) /\ \A nth \in 1 .. Len(s) : t[nth] = s[nth]

LEMMA PartStays ==
    ASSUME NEW s \in Seq(Byte), NEW t, Longer(t, s), NEW b, NEW p \in Nat, Part(b, s, p)
    PROVE  Part(b, t, p)
<1>1. b \in Seq(Byte) /\ p + Len(b) <= Len(s) /\ \A j \in 1 .. Len(b) : b[j] = s[p + j]
    BY DEF Part
<1>2. t \in Seq(Byte) /\ Len(t) >= Len(s) /\ \A nth \in 1 .. Len(s) : t[nth] = s[nth]
    BY DEF Longer
<1>3. PICK k \in Nat, l \in Nat, n \in Nat : k = Len(b) /\ l = Len(s) /\ n = Len(t)
    BY <1>1, <1>2
<1>4. p + Len(b) <= Len(t)
    BY <1>1, <1>2, <1>3
<1>5. ASSUME NEW j \in 1 .. Len(b) PROVE b[j] = t[p + j]
    <2>1. p + j \in 1 .. Len(s)
        BY <1>1, <1>3
    <2> QED BY <1>1, <1>2, <2>1
<1> QED BY <1>1, <1>4, <1>5 DEF Part

\* A frame is put behind the others.
OneMore(v, w, m) == Len(v) = Len(w) + 1 /\ v[Len(w) + 1] = m /\ \A nth \in 1 .. Len(w) : v[nth] = w[nth]

LEMMA Appending == \A w \in Seq(Packets), m \in Packets : \A v : v = Append(w, m) => OneMore(v, w, m)
<1> SUFFICES ASSUME NEW w \in Seq(Packets), NEW m \in Packets PROVE OneMore(Append(w, m), w, m)
    OBVIOUS
<1> QED BY DEF OneMore

LEMMA FrameAdded ==
    ASSUME NEW s, NEW off, NEW w \in Seq(Packets), Framed(s, off, w), NEW m \in Packets,
           NEW f, FrameOf(m, f), NEW t, Joined(t, s, f), NEW v, OneMore(v, w, m)
    PROVE  /\ Longer(t, s) /\ Part(f, t, Len(s)) /\ Len(t) = Len(s) + Len(f)
           /\ \E g : Framed(t, g, v) /\ \A nth \in 1 .. (Len(w) + 1) : g[nth] = off[nth]
<1>1. /\ s \in Seq(Byte) /\ off \in [1 .. (Len(w) + 1) -> Nat] /\ off[1] = 0 /\ off[Len(w) + 1] = Len(s)
      /\ \A nth \in 1 .. Len(w) :
            /\ off[nth + 1] = off[nth] + FrameLen(w[nth]) /\ off[nth + 1] <= Len(s)
            /\ \A k \in 1 .. FrameLen(w[nth]) : s[off[nth] + k] = FrameByte(w[nth], k)
    BY DEF Framed
<1>2. f \in Seq(Byte) /\ Len(f) = FrameLen(m) /\ \A k \in 1 .. FrameLen(m) : f[k] = FrameByte(m, k)
    BY DEF FrameOf
<1>3. Joined(t, s, f)
    OBVIOUS
<1>4. PICK n \in Nat, l \in Nat, k \in Nat : n = Len(w) /\ l = Len(s) /\ k = Len(f)
    BY <1>1, <1>2
<1>5. /\ t \in Seq(Byte) /\ Len(t) = l + k
      /\ \A nth \in 1 .. l : t[nth] = s[nth]
      /\ \A nth \in 1 .. k : t[l + nth] = f[nth]
    BY <1>3, <1>4 DEF Joined
<1>6. Longer(t, s)
    BY <1>4, <1>5 DEF Longer
<1>7. Part(f, t, Len(s))
    BY <1>2, <1>4, <1>5 DEF Part
<1>8. Len(v) = n + 1 /\ v[n + 1] = m /\ \A nth \in 1 .. n : v[nth] = w[nth]
    BY <1>4 DEF OneMore
<1>9. PICK g : g = [nth \in 1 .. (n + 2) |-> IF nth = n + 2 THEN l + k ELSE off[nth]]
    OBVIOUS
<1>10. g[n + 2] = l + k /\ \A nth \in 1 .. (n + 1) : g[nth] = off[nth]
    BY <1>9
<1>11. \A nth \in 1 .. (n + 1) : off[nth] \in Nat
    BY <1>1, <1>4
<1>12. g \in [1 .. (n + 2) -> Nat]
    <2>1. ASSUME NEW nth \in 1 .. (n + 2) PROVE (IF nth = n + 2 THEN l + k ELSE off[nth]) \in Nat
        BY <1>11
    <2> QED BY <1>9, <2>1
<1>13. g[1] = 0
    <2>1. 1 \in 1 .. (n + 1)
        OBVIOUS
    <2> QED BY <1>1, <1>10, <2>1
<1>14. ASSUME NEW nth \in 1 .. (n + 1)
       PROVE  /\ g[nth + 1] = g[nth] + FrameLen(v[nth]) /\ g[nth + 1] <= l + k
              /\ \A j \in 1 .. FrameLen(v[nth]) : t[g[nth] + j] = FrameByte(v[nth], j)
    <2>1. CASE nth \in 1 .. n
        <3>1. nth + 1 \in 1 .. (n + 1) /\ nth \in 1 .. (n + 1) /\ nth \in 1 .. Len(w)
            BY <1>4, <2>1
        <3>2. g[nth + 1] = off[nth + 1] /\ g[nth] = off[nth] /\ v[nth] = w[nth]
            BY <1>8, <1>10, <2>1, <3>1
        <3>3. PICK a \in Nat, b \in Nat, c \in Nat : a = off[nth] /\ b = off[nth + 1] /\ c = FrameLen(w[nth])
            <4>1. off[nth] \in Nat /\ off[nth + 1] \in Nat
                BY <1>11, <3>1
            <4>2. FrameLen(w[nth]) \in Nat
                <5>1. w[nth] \in Packets
                    BY <3>1
                <5> QED BY ONLY <5>1, FrameSizes
            <4> QED BY <4>1, <4>2
        <3>4. b = a + c /\ b <= l /\ \A j \in 1 .. c : s[a + j] = FrameByte(w[nth], j)
            BY <1>1, <1>4, <3>1, <3>3
        <3>5. \A j \in 1 .. c : a + j \in 1 .. l
            BY ONLY <3>4, a \in Nat, b \in Nat, c \in Nat, l \in Nat
        <3>6. \A j \in 1 .. c : t[a + j] = FrameByte(w[nth], j)
            BY <1>5, <3>4, <3>5
        <3>7. b <= l + k
            BY <3>4
        <3> QED BY <3>2, <3>3, <3>4, <3>6, <3>7
    <2>2. CASE nth = n + 1
        <3>1. g[nth] = l /\ g[nth + 1] = l + k /\ v[nth] = m
            <4>1. n + 1 \in 1 .. (n + 1) /\ (n + 1) + 1 = n + 2
                OBVIOUS
            <4> QED BY <1>1, <1>4, <1>8, <1>10, <2>2, <4>1
        <3>2. k = FrameLen(m)
            BY <1>2, <1>4
        <3>3. \A j \in 1 .. k : t[l + j] = FrameByte(m, j)
            BY <1>2, <1>5, <3>2
        <3>4. g[nth + 1] = g[nth] + FrameLen(v[nth]) /\ g[nth + 1] <= l + k
            <4>1. l + k <= l + k
                OBVIOUS
            <4> QED BY ONLY <3>1, <3>2, <4>1, Zenon
        <3>5. \A j \in 1 .. FrameLen(v[nth]) : t[g[nth] + j] = FrameByte(v[nth], j)
            BY ONLY <3>1, <3>2, <3>3, Zenon
        <3> QED BY ONLY <3>4, <3>5
    <2>3. nth \in 1 .. n \/ nth = n + 1
        OBVIOUS
    <2> QED BY <2>1, <2>2, <2>3
<1>15. Framed(t, g, v)
    <2>1. Len(v) + 1 = n + 2
        BY <1>8
    <2> QED BY <1>5, <1>8, <1>10, <1>12, <1>13, <1>14, <2>1 DEF Framed
<1> QED BY <1>4, <1>5, <1>6, <1>7, <1>10, <1>15

StreamTypes ==
    /\ sent \in Seq(Packets) /\ rcvd \in Seq(Packets) /\ cut \in {0, 1}
    /\ Len(rcvd) + cut <= Len(sent)
    /\ rpc \in {"len", "body", "eof"} /\ fd \in {"open", "closed"}
    /\ wbuf \in Seq(Byte)
    /\ wpkt = NoPkt => wbuf = <<>>
    /\ fd = "closed" => wbuf = <<>> /\ wpkt = NoPkt
    /\ fd = "open" => cut = 0 /\ rpc # "eof"

\* What the reader was asked for is what comes next.
ReaderOK ==
    /\ rpc = "len" => need = IntSize
    /\ rpc = "body" => Len(rcvd) < Len(sent) /\ need = size[sent[Len(rcvd) + 1]]

\* Packets were returned as they were sent.
InOrder == \A nth \in 1 .. Len(rcvd) : rcvd[nth] = sent[nth]

\* The place in the stream behind what read_stream() has returned.
ReadUpTo(off) == off[Len(rcvd) + 1] + (IF rpc = "body" THEN IntSize ELSE 0)

\* The reader's bytes, those of the connection and the writer's follow each
\* other to the end of the stream, or to where the end of the connection cut it.
InStep(s, c) ==
    /\ Part(rbuf, s, c)
    /\ Part(chan, s, c + Len(rbuf))
    /\ Part(wbuf, s, c + Len(rbuf) + Len(chan))
    /\ cut = 0 => c + Len(rbuf) + Len(chan) + Len(wbuf) = Len(s)
    /\ cut = 1 => c + Len(rbuf) + Len(chan) < Len(s)

\* While no packet was begun again in its middle.
FramesInv ==
    /\ StreamTypes
    /\ ReaderOK
    /\ InOrder
    /\ rpc # "eof" => \E s, off : Framed(s, off, sent) /\ InStep(s, ReadUpTo(off))

StreamInv ==
    /\ spoilt \in BOOLEAN /\ rcvd \in Seq(Nat)
    /\ spoilt \/ FramesInv

\* Nothing is behind the stream: a whole length or body is of a packet that
\* was sent, and one that was cut is never complete.
LEMMA InsideStream ==
    ASSUME NEW s, NEW off, NEW w \in Seq(Packets), Framed(s, off, w), NEW r \in 0 .. Len(w),
           NEW e \in Nat, e > 0, off[r + 1] + e <= Len(s)
    PROVE  /\ r < Len(w) /\ off[r + 1] \in Nat /\ w[r + 1] \in Packets
           /\ off[r + 2] = off[r + 1] + FrameLen(w[r + 1]) /\ off[r + 2] \in Nat
           /\ \A k \in 1 .. FrameLen(w[r + 1]) : s[off[r + 1] + k] = FrameByte(w[r + 1], k)
<1>1. /\ s \in Seq(Byte) /\ off \in [1 .. (Len(w) + 1) -> Nat] /\ off[Len(w) + 1] = Len(s)
      /\ \A nth \in 1 .. Len(w) :
            /\ off[nth + 1] = off[nth] + FrameLen(w[nth]) /\ off[nth + 1] <= Len(s)
            /\ \A k \in 1 .. FrameLen(w[nth]) : s[off[nth] + k] = FrameByte(w[nth], k)
    BY DEF Framed
<1>2. PICK n \in Nat, l \in Nat : n = Len(w) /\ l = Len(s)
    BY <1>1
<1>3. r \in Nat /\ r <= n /\ r + 1 \in 1 .. (n + 1)
    BY <1>2
<1>4. off[r + 1] \in Nat
    BY <1>1, <1>2, <1>3
<1>5. r # n
    <2> SUFFICES ASSUME r = n PROVE FALSE
        OBVIOUS
    <2>1. off[r + 1] = l /\ off[r + 1] + e <= l
        BY <1>1, <1>2
    <2>2. l + e <= l
        BY <2>1
    <2> QED BY ONLY <2>2, l \in Nat, e \in Nat, e > 0
<1>6. r < n /\ r + 1 \in 1 .. n /\ r + 2 \in 1 .. (n + 1) /\ (r + 1) + 1 = r + 2
    BY <1>3, <1>5
<1>7. w[r + 1] \in Packets
    BY <1>2, <1>6
<1>8. off[r + 2] \in Nat
    BY <1>1, <1>2, <1>6
<1> QED BY <1>1, <1>2, <1>4, <1>6, <1>7, <1>8

LEMMA StreamStarts == StreamInit => FramesInv
<1> SUFFICES ASSUME StreamInit PROVE FramesInv
    OBVIOUS
<1>1. /\ wbuf = <<>> /\ wpkt = NoPkt /\ chan = <<>> /\ fd = "open" /\ rpc = "len" /\ rbuf = <<>>
      /\ need = IntSize /\ rcvd = <<>> /\ sent = <<>> /\ cut = 0
    BY DEF StreamInit
<1>2. StreamTypes
    BY <1>1 DEF StreamTypes
<1>3. ReaderOK /\ InOrder
    BY <1>1 DEF ReaderOK, InOrder
<1>4. PICK off : off = [nth \in 1 .. 1 |-> 0]
    OBVIOUS
<1>5. off \in [1 .. 1 -> Nat] /\ off[1] = 0
    BY <1>4
<1>6. Framed(<<>>, off, sent)
    BY <1>1, <1>5 DEF Framed
<1>7. ReadUpTo(off) = 0
    BY <1>1, <1>5 DEF ReadUpTo
<1>8. InStep(<<>>, 0)
    BY <1>1 DEF InStep, Part
<1> QED BY <1>2, <1>3, <1>6, <1>7, <1>8 DEF FramesInv

\* An empty part may stand anywhere.
LEMMA PartEmpty ==
    ASSUME NEW s \in Seq(Byte), NEW p \in Nat, p <= Len(s)
    PROVE  Part(<<>>, s, p)
BY DEF Part

\* The numbers of a state that is in step.
LEMMA InStepSizes ==
    ASSUME NEW s, NEW off, StreamTypes, rpc # "eof", Framed(s, off, sent), InStep(s, ReadUpTo(off))
    PROVE  /\ s \in Seq(Byte) /\ Len(s) \in Nat
           /\ rbuf \in Seq(Byte) /\ chan \in Seq(Byte) /\ wbuf \in Seq(Byte)
           /\ Len(rbuf) \in Nat /\ Len(chan) \in Nat /\ Len(wbuf) \in Nat
           /\ Len(rcvd) \in Nat /\ Len(sent) \in Nat /\ Len(rcvd) \in 0 .. Len(sent)
           /\ off[Len(rcvd) + 1] \in Nat /\ ReadUpTo(off) \in Nat /\ off[Len(rcvd) + 1] <= ReadUpTo(off)
           /\ IntSize \in Nat /\ IntSize >= 1
<1>1. s \in Seq(Byte) /\ off \in [1 .. (Len(sent) + 1) -> Nat]
    BY DEF Framed
<1>2. rbuf \in Seq(Byte) /\ chan \in Seq(Byte) /\ wbuf \in Seq(Byte)
    BY DEF InStep, Part
<1>3. sent \in Seq(Packets) /\ rcvd \in Seq(Packets) /\ cut \in {0, 1} /\ Len(rcvd) + cut <= Len(sent)
    BY DEF StreamTypes
<1>4. Len(rcvd) \in Nat /\ Len(sent) \in Nat /\ Len(rcvd) \in 0 .. Len(sent)
    BY ONLY <1>3
<1>5. Len(rcvd) + 1 \in 1 .. (Len(sent) + 1)
    BY ONLY <1>4
<1>6. off[Len(rcvd) + 1] \in Nat
    BY ONLY <1>1, <1>5
<1>7. IntSize \in Nat /\ IntSize >= 1
    BY PktStreamAssumption
<1>8. PICK a \in Nat : a = off[Len(rcvd) + 1]
    BY <1>6
<1>9. ReadUpTo(off) \in Nat /\ a <= ReadUpTo(off)
    BY <1>7, <1>8 DEF ReadUpTo
<1>10. Len(s) \in Nat /\ Len(rbuf) \in Nat /\ Len(chan) \in Nat /\ Len(wbuf) \in Nat
    BY ONLY <1>1, <1>2
<1> QED BY <1>1, <1>2, <1>4, <1>6, <1>7, <1>8, <1>9, <1>10

\* A packet is given to snd(): the stream grows by its frame.
LEMMA SndKeeps == ASSUME FramesInv, NEW m \in Packets, snd(m) PROVE FramesInv'
<1>1. /\ fd = "open" /\ wpkt = NoPkt /\ wpkt' = <<m>> /\ wbuf' = prepend_len(m)
      /\ sent' = Append(sent, m) /\ chan' = chan /\ fd' = fd /\ rpc' = rpc /\ rbuf' = rbuf
      /\ need' = need /\ rcvd' = rcvd /\ cut' = cut
    BY DEF snd, reader
<1>2. StreamTypes /\ ReaderOK /\ InOrder /\ cut = 0 /\ rpc # "eof" /\ wbuf = <<>>
    BY <1>1 DEF FramesInv, StreamTypes
<1>3. PICK s, off : Framed(s, off, sent) /\ InStep(s, ReadUpTo(off))
    BY <1>2 DEF FramesInv
<1>4. /\ s \in Seq(Byte) /\ Len(s) \in Nat
      /\ Len(rbuf) \in Nat /\ Len(chan) \in Nat
      /\ Len(rcvd) \in Nat /\ Len(sent) \in Nat /\ Len(rcvd) \in 0 .. Len(sent)
      /\ ReadUpTo(off) \in Nat
    BY ONLY <1>2, <1>3, InStepSizes
<1>5. sent \in Seq(Packets) /\ m \in Packets /\ rcvd \in Seq(Packets)
    BY <1>2 DEF StreamTypes
<1>6. PICK f : f = prepend_len(m) /\ f = wbuf'
    BY <1>1
<1>7. FrameOf(m, f)
    BY ONLY <1>5, <1>6, FrameIs
<1>8. PICK t, v : t = s \o f /\ v = Append(sent, m) /\ v = sent'
    BY <1>1
<1>9. /\ Longer(t, s) /\ Part(f, t, Len(s)) /\ Len(t) = Len(s) + Len(f)
      /\ \E g : Framed(t, g, v) /\ \A nth \in 1 .. (Len(sent) + 1) : g[nth] = off[nth]
    <2>1. f \in Seq(Byte)
        BY <1>7 DEF FrameOf
    <2>2. Joined(t, s, f)
        BY ONLY <1>4, <1>8, <2>1, Joining
    <2>3. OneMore(v, sent, m)
        BY ONLY <1>5, <1>8, Appending
    <2> QED BY ONLY <1>3, <1>5, <1>7, <2>2, <2>3, FrameAdded
<1>10. PICK g : Framed(t, g, v) /\ \A nth \in 1 .. (Len(sent) + 1) : g[nth] = off[nth]
    BY <1>9
<1>11. g[Len(rcvd) + 1] = off[Len(rcvd) + 1]
    <2>1. Len(rcvd) + 1 \in 1 .. (Len(sent) + 1)
        BY ONLY <1>4
    <2> QED BY <1>10, <2>1
<1>12. PICK c \in Nat : c = ReadUpTo(off) /\ c = ReadUpTo(g)'
    <2>1. ReadUpTo(g)' = ReadUpTo(off)
        BY <1>1, <1>11 DEF ReadUpTo
    <2> QED BY <1>4, <2>1
<1>13. /\ Part(rbuf, s, c) /\ Part(chan, s, c + Len(rbuf))
       /\ c + Len(rbuf) + Len(chan) = Len(s)
    <2>1. c + Len(rbuf) + Len(chan) + Len(wbuf) = Len(s) /\ Len(wbuf) = 0
        BY <1>2, <1>3, <1>12 DEF InStep
    <2>2. c + Len(rbuf) + Len(chan) = Len(s)
        BY ONLY <1>4, <2>1, c \in Nat
    <2> QED BY <1>3, <1>12, <2>2 DEF InStep
<1>14. Part(rbuf, t, c)
    BY ONLY <1>4, <1>9, <1>13, c \in Nat, PartStays
<1>15. Part(chan, t, c + Len(rbuf))
    <2>1. c + Len(rbuf) \in Nat
        BY <1>4
    <2> QED BY ONLY <1>4, <1>9, <1>13, <2>1, PartStays
<1>16. InStep(t, c)'
    <2>1. rbuf' = rbuf /\ chan' = chan /\ wbuf' = f /\ cut' = 0
        BY <1>1, <1>2, <1>6
    <2>2. Part(f, t, c + Len(rbuf) + Len(chan)) /\ c + Len(rbuf) + Len(chan) + Len(f) = Len(t)
        BY <1>9, <1>13
    <2> QED BY <1>14, <1>15, <2>1, <2>2 DEF InStep
<1>17. StreamTypes'
    <2>1. sent' \in Seq(Packets) /\ Len(sent') = Len(sent) + 1
        BY <1>1, <1>5
    <2>2. wbuf' \in Seq(Byte)
        BY <1>6, <1>7 DEF FrameOf
    <2>3. wpkt' # NoPkt
        BY <1>1 DEF NoPkt
    <2>4. Len(rcvd') + cut' <= Len(sent')
        BY <1>1, <1>2, <1>4, <2>1
    <2> QED BY <1>1, <1>2, <1>5, <2>1, <2>2, <2>3, <2>4 DEF StreamTypes
<1>18. \A nth \in 1 .. Len(sent) : sent'[nth] = sent[nth]
    BY <1>1, <1>5
<1>19. InOrder'
    <2>1. \A nth \in 1 .. Len(rcvd) : nth \in 1 .. Len(sent)
        BY <1>4
    <2> QED BY <1>1, <1>2, <1>18, <2>1 DEF InOrder
<1>20. ReaderOK'
    <2>1. Len(sent') = Len(sent) + 1
        BY <1>1, <1>5
    <2>2. Len(rcvd) < Len(sent) => Len(rcvd) + 1 \in 1 .. Len(sent) /\ Len(rcvd') < Len(sent')
        BY <1>1, <1>4, <2>1
    <2> QED BY <1>1, <1>2, <1>18, <2>2 DEF ReaderOK
<1>21. Framed(t, g, sent')
    BY <1>8, <1>10
<1> QED BY <1>12, <1>16, <1>17, <1>19, <1>20, <1>21 DEF FramesInv

\* Some of the writer's bytes go to the connection.
LEMMA WriteKeeps == ASSUME FramesInv, write_stream PROVE FramesInv'
<1>1. /\ wbuf # <<>> /\ fd' = fd /\ rpc' = rpc /\ rbuf' = rbuf /\ need' = need /\ rcvd' = rcvd
      /\ sent' = sent /\ cut' = cut
    BY DEF write_stream, reader
<1>2. PICK k \in 1 .. Len(wbuf) :
        /\ chan' = chan \o SubSeq(wbuf, 1, k) /\ wbuf' = SubSeq(wbuf, k + 1, Len(wbuf))
        /\ wpkt' = wpkt
    BY DEF write_stream
<1>3. /\ StreamTypes /\ ReaderOK /\ InOrder /\ fd = "open" /\ cut = 0 /\ rpc # "eof" /\ wpkt # NoPkt
      /\ wbuf \in Seq(Byte)
    BY <1>1 DEF FramesInv, StreamTypes
<1>4. PICK s, off : Framed(s, off, sent) /\ InStep(s, ReadUpTo(off))
    BY <1>3 DEF FramesInv
<1>5. /\ s \in Seq(Byte) /\ Len(s) \in Nat /\ chan \in Seq(Byte)
      /\ Len(rbuf) \in Nat /\ Len(chan) \in Nat /\ Len(wbuf) \in Nat /\ ReadUpTo(off) \in Nat
    BY ONLY <1>3, <1>4, InStepSizes
<1>6. PICK c \in Nat : c = ReadUpTo(off) /\ c = ReadUpTo(off)'
    <2>1. ReadUpTo(off)' = ReadUpTo(off)
        BY <1>1 DEF ReadUpTo
    <2> QED BY <1>5, <2>1
<1>7. /\ Part(rbuf, s, c) /\ Part(chan, s, c + Len(rbuf)) /\ Part(wbuf, s, c + Len(rbuf) + Len(chan))
      /\ c + Len(rbuf) + Len(chan) + Len(wbuf) = Len(s)
    BY <1>3, <1>4, <1>6 DEF InStep
<1>8. PICK x, y : x = SubSeq(wbuf, 1, k) /\ y = SubSeq(wbuf, k + 1, Len(wbuf))
    OBVIOUS
<1>9. PICK p \in Nat, q \in Nat : p = c + Len(rbuf) /\ q = p + Len(chan)
    BY <1>5
<1>10. /\ Part(x, s, q) /\ Len(x) = k
       /\ Part(y, s, q + k) /\ Len(y) = Len(wbuf) - k
    <2>1. k \in 0 .. Len(wbuf) /\ q \in Nat /\ Part(wbuf, s, q)
        BY <1>5, <1>7, <1>9
    <2>2. SplitAt(x, y, wbuf, k)
        BY <1>8 DEF SplitAt
    <2> QED BY ONLY <1>5, <2>1, <2>2, PartSplit
<1>11. PICK d : d = chan \o x /\ d = chan'
    BY <1>2, <1>8
<1>12. Part(d, s, p) /\ Len(d) = Len(chan) + Len(x)
    <2>1. Part(chan, s, p) /\ Part(x, s, p + Len(chan)) /\ p \in Nat
        BY <1>7, <1>9, <1>10
    <2>2. x \in Seq(Byte)
        BY <1>10 DEF Part
    <2>3. Joined(d, chan, x)
        BY ONLY <1>5, <1>11, <2>2, Joining
    <2> QED BY ONLY <1>5, <2>1, <2>3, PartJoin
<1>13. p + Len(d) = q + k /\ q + k + Len(y) = Len(s)
    <2>1. q + Len(wbuf) = Len(s)
        BY <1>7, <1>9
    <2>2. Len(d) = Len(chan) + k
        BY <1>10, <1>12
    <2>3. PICK a \in Nat, b \in Nat, n \in Nat : a = Len(chan) /\ b = Len(wbuf) /\ n = Len(s)
        BY <1>5
    <2>4. q = p + a /\ Len(d) = a + k /\ Len(y) = b - k /\ q + b = n /\ k \in 1 .. b
        BY <1>9, <1>10, <2>1, <2>2, <2>3
    <2>5. p + (a + k) = q + k /\ q + k + (b - k) = n
        BY ONLY <2>4, a \in Nat, b \in Nat, n \in Nat, p \in Nat, q \in Nat
    <2> QED BY <2>3, <2>4, <2>5
<1>14. InStep(s, c)'
    <2>1. rbuf' = rbuf /\ chan' = d /\ wbuf' = y /\ cut' = 0
        BY <1>1, <1>2, <1>3, <1>8, <1>11
    <2>2. Part(d, s, c + Len(rbuf)) /\ Part(y, s, c + Len(rbuf) + Len(d))
        BY <1>9, <1>10, <1>12, <1>13
    <2>3. c + Len(rbuf) + Len(d) + Len(y) = Len(s)
        BY <1>9, <1>13
    <2> QED BY <1>7, <2>1, <2>2, <2>3 DEF InStep
<1>15. y \in Seq(Byte) /\ (k = Len(wbuf) => y = <<>>)
    <2>1. y \in Seq(Byte)
        BY <1>10 DEF Part
    <2>2. k = Len(wbuf) => Len(y) = 0
        BY ONLY <1>5, <1>10
    <2> QED BY ONLY <2>1, <2>2
<1>16. StreamTypes'
    BY <1>1, <1>2, <1>3, <1>8, <1>15 DEF StreamTypes
<1>17. ReaderOK' /\ InOrder'
    BY <1>1, <1>3 DEF ReaderOK, InOrder
<1>18. Framed(s, off, sent')
    BY <1>1, <1>4
<1> QED BY <1>6, <1>14, <1>16, <1>17, <1>18 DEF FramesInv

\* A write that failed before it wrote anything is begun again where it was.
LEMMA RetryKeeps == ASSUME FramesInv, RetryEperm, ~ spoilt' PROVE FramesInv'
<1>1. /\ wbuf' = wbuf /\ wpkt' = wpkt /\ chan' = chan /\ fd' = fd /\ rpc' = rpc /\ rbuf' = rbuf
      /\ need' = need /\ rcvd' = rcvd /\ sent' = sent /\ cut' = cut
    BY DEF RetryEperm, reader
<1> QED BY <1>1 DEF FramesInv, StreamTypes, ReaderOK, InOrder, ReadUpTo, InStep

LEMMA ReturnKeeps == ASSUME FramesInv, SndReturns PROVE FramesInv'
<1>1. /\ wbuf = <<>> /\ wbuf' = wbuf /\ wpkt' = NoPkt /\ chan' = chan /\ fd' = fd /\ rpc' = rpc
      /\ rbuf' = rbuf /\ need' = need /\ rcvd' = rcvd /\ sent' = sent /\ cut' = cut
    BY DEF SndReturns, reader
<1> QED BY <1>1 DEF FramesInv, StreamTypes, ReaderOK, InOrder, ReadUpTo, InStep

\* The end of the connection: what the writer held is not sent.
LEMMA CloseKeeps == ASSUME FramesInv, CloseFd PROVE FramesInv'
<1>1. /\ fd = "open" /\ fd' = "closed" /\ wbuf' = <<>> /\ wpkt' = NoPkt
      /\ cut' = IF wbuf = <<>> THEN 0 ELSE 1
      /\ chan' = chan /\ rpc' = rpc /\ rbuf' = rbuf /\ need' = need /\ rcvd' = rcvd /\ sent' = sent
    BY DEF CloseFd, reader
<1>2. StreamTypes /\ ReaderOK /\ InOrder /\ cut = 0 /\ rpc # "eof" /\ wbuf \in Seq(Byte)
    BY <1>1 DEF FramesInv, StreamTypes
<1>3. PICK s, off : Framed(s, off, sent) /\ InStep(s, ReadUpTo(off))
    BY <1>2 DEF FramesInv
<1>4. /\ s \in Seq(Byte) /\ Len(s) \in Nat
      /\ Len(rbuf) \in Nat /\ Len(chan) \in Nat /\ Len(wbuf) \in Nat
      /\ Len(rcvd) \in Nat /\ Len(sent) \in Nat /\ Len(rcvd) \in 0 .. Len(sent)
      /\ off[Len(rcvd) + 1] \in Nat /\ ReadUpTo(off) \in Nat /\ off[Len(rcvd) + 1] <= ReadUpTo(off)
    BY ONLY <1>2, <1>3, InStepSizes
<1>5. PICK c \in Nat : c = ReadUpTo(off) /\ c = ReadUpTo(off)'
    <2>1. ReadUpTo(off)' = ReadUpTo(off)
        BY <1>1 DEF ReadUpTo
    <2> QED BY <1>4, <2>1
<1>6. /\ Part(rbuf, s, c) /\ Part(chan, s, c + Len(rbuf))
      /\ c + Len(rbuf) + Len(chan) + Len(wbuf) = Len(s)
    BY <1>2, <1>3, <1>5 DEF InStep
<1>7. PICK q \in Nat : q = c + Len(rbuf) + Len(chan)
    BY <1>4
<1>8. q + Len(wbuf) = Len(s) /\ q <= Len(s)
    <2>1. q + Len(wbuf) = Len(s)
        BY <1>6, <1>7
    <2> QED BY ONLY <1>4, <2>1, q \in Nat
<1>9. Part(<<>>, s, q)
    BY ONLY <1>4, <1>8, q \in Nat, PartEmpty
<1>10. wbuf # <<>> => Len(wbuf) > 0
    BY ONLY <1>2
<1>11. (cut' = 0 => q + 0 = Len(s)) /\ (cut' = 1 => q < Len(s)) /\ cut' \in {0, 1}
    <2>1. CASE wbuf = <<>>
        BY <1>1, <1>4, <1>8, <2>1
    <2>2. CASE wbuf # <<>>
        <3>1. cut' = 1
            BY <1>1, <2>2
        <3>2. q < Len(s)
            BY ONLY <1>4, <1>8, <1>10, <2>2, q \in Nat
        <3> QED BY <3>1, <3>2
    <2> QED BY <2>1, <2>2
<1>12. InStep(s, c)'
    <2>1. rbuf' = rbuf /\ chan' = chan /\ wbuf' = <<>> /\ Len(<<>>) = 0
        BY <1>1
    <2> QED BY <1>6, <1>7, <1>9, <1>11, <2>1 DEF InStep
<1>13. Len(rcvd) + cut' <= Len(sent)
    <2>1. CASE cut' = 0
        BY <1>4, <2>1
    <2>2. CASE cut' = 1
        <3>1. PICK a \in Nat : a = off[Len(rcvd) + 1] /\ a <= c
            BY <1>4, <1>5
        <3>2. q < Len(s) /\ c <= q
            BY <1>4, <1>7, <1>11, <2>2
        <3>3. off[Len(rcvd) + 1] + 1 <= Len(s)
            BY ONLY <1>4, <3>1, <3>2, c \in Nat, q \in Nat
        <3>4. sent \in Seq(Packets) /\ 1 \in Nat /\ 1 > 0
            BY <1>2 DEF StreamTypes
        <3>5. Len(rcvd) < Len(sent)
            BY ONLY <1>3, <1>4, <3>3, <3>4, InsideStream
        <3> QED BY <1>4, <2>2, <3>5
    <2> QED BY <1>11, <2>1, <2>2
<1>14. StreamTypes'
    BY <1>1, <1>2, <1>11, <1>13 DEF StreamTypes
<1>15. ReaderOK' /\ InOrder'
    BY <1>1, <1>2 DEF ReaderOK, InOrder
<1>16. Framed(s, off, sent')
    BY <1>1, <1>3
<1> QED BY <1>5, <1>12, <1>14, <1>15, <1>16 DEF FramesInv

LEMMA EofKeeps == ASSUME FramesInv, ReadEof PROVE FramesInv'
<1>1. /\ fd = "closed" /\ rpc' = "eof" /\ rbuf' = rbuf /\ need' = need /\ rcvd' = rcvd
      /\ chan' = chan /\ fd' = fd /\ wbuf' = wbuf /\ wpkt' = wpkt /\ sent' = sent /\ cut' = cut
    BY DEF ReadEof, writer
<1> QED BY <1>1 DEF FramesInv, StreamTypes, ReaderOK, InOrder

\* The bytes of a length are the length, and those of a body the packet.
LEMMA LengthRead ==
    ASSUME NEW m \in Packets, NEW b \in Seq(Byte), Len(b) = IntSize,
           \A k \in 1 .. IntSize : b[k] = FrameByte(m, k)
    PROVE  \A n : n \in Ints(b) => n = size[m]
<1>1. size[m] \in 1 .. (MaxSize + IntSize) /\ IntSize \in Nat /\ IntSize >= 1
    BY FrameSizes
<1>2. \A k \in 1 .. IntSize : b[k] = <<"len", size[m], k>>
    BY <1>1 DEF FrameByte
<1>3. b = LenBytes(size[m])
    <2>1. b = [k \in 1 .. IntSize |-> b[k]]
        BY ONLY b \in Seq(Byte), Len(b) = IntSize
    <2>2. LenBytes(size[m]) = [k \in 1 .. IntSize |-> <<"len", size[m], k>>]
        BY DEF LenBytes
    <2>3. [k \in 1 .. IntSize |-> b[k]] = [k \in 1 .. IntSize |-> <<"len", size[m], k>>]
        BY ONLY <1>2
    <2> QED BY ONLY <2>1, <2>2, <2>3, Zenon
<1>4. ASSUME NEW n \in 1 .. (MaxSize + IntSize), b = LenBytes(n) PROVE n = size[m]
    <2>1. 1 \in 1 .. IntSize
        BY <1>1
    <2>2. LenBytes(n)[1] = <<"len", n, 1>> /\ LenBytes(size[m])[1] = <<"len", size[m], 1>>
        BY <2>1 DEF LenBytes
    <2>3. <<"len", n, 1>> = <<"len", size[m], 1>>
        BY <1>3, <1>4, <2>2
    <2> QED BY ONLY <2>3
<1>5. \E n \in 1 .. (MaxSize + IntSize) : b = LenBytes(n)
    BY <1>1, <1>3
<1>6. Ints(b) = {n \in 1 .. (MaxSize + IntSize) : b = LenBytes(n)}
    BY <1>5, Zenon DEF Ints
<1> QED BY <1>4, <1>6

LEMMA BodyRead ==
    ASSUME NEW m \in Packets, NEW b \in Seq(Byte), Len(b) = size[m],
           \A k \in 1 .. size[m] : b[k] = FrameByte(m, IntSize + k)
    PROVE  PacketOf(b) = m
<1>1. size[m] \in Nat /\ size[m] >= 1 /\ IntSize \in Nat
    BY FrameSizes
<1>2. \A k \in 1 .. size[m] : b[k] = <<"data", m, k>>
    <2> SUFFICES ASSUME NEW k \in 1 .. size[m] PROVE b[k] = <<"data", m, k>>
        OBVIOUS
    <2>1. ~ (IntSize + k <= IntSize) /\ (IntSize + k) - IntSize = k
        BY ONLY <1>1, k \in 1 .. size[m]
    <2> QED BY <2>1 DEF FrameByte
<1>3. b = Bytes(m)
    <2>1. b = [k \in 1 .. size[m] |-> b[k]]
        BY ONLY b \in Seq(Byte), Len(b) = size[m]
    <2>2. Bytes(m) = [k \in 1 .. size[m] |-> <<"data", m, k>>]
        BY DEF Bytes
    <2>3. [k \in 1 .. size[m] |-> b[k]] = [k \in 1 .. size[m] |-> <<"data", m, k>>]
        BY ONLY <1>2
    <2> QED BY ONLY <2>1, <2>2, <2>3, Zenon
<1>4. ASSUME NEW q \in Packets, b = Bytes(q) PROVE q = m
    <2>1. 1 \in 1 .. size[m] /\ 1 \in 1 .. size[q]
        <3>1. size[q] \in Nat /\ size[q] >= 1
            BY FrameSizes
        <3> QED BY <1>1, <3>1
    <2>2. Bytes(q)[1] = <<"data", q, 1>> /\ Bytes(m)[1] = <<"data", m, 1>>
        BY <2>1 DEF Bytes
    <2>3. <<"data", q, 1>> = <<"data", m, 1>>
        BY <1>3, <1>4, <2>2
    <2> QED BY ONLY <2>3
<1>5. \E q \in Packets : b = Bytes(q)
    BY <1>3
<1>6. PacketOf(b) = CHOOSE q \in Packets : b = Bytes(q)
    BY <1>5, Zenon DEF PacketOf
<1>7. PICK q : q = CHOOSE p \in Packets : b = Bytes(p)
    OBVIOUS
<1>8. q \in Packets /\ b = Bytes(q)
    BY <1>5, <1>7, Zenon
<1> QED BY <1>4, <1>6, <1>7, <1>8

\* A round of read_stream(): the bytes that are complete are the length or the
\* body of the next packet that was sent.
LEMMA ReadKeeps == ASSUME FramesInv, read_stream PROVE FramesInv'
<1>1. /\ rpc # "eof" /\ fd' = fd /\ wbuf' = wbuf /\ wpkt' = wpkt /\ sent' = sent /\ cut' = cut
    BY DEF read_stream, writer
<1>0. PICK k \in 1 .. Len(chan) : \E d :
        /\ d = rbuf \o SubSeq(chan, 1, k) /\ chan' = SubSeq(chan, k + 1, Len(chan))
        /\ \/ Len(d) < need /\ rbuf' = d /\ rpc' = rpc /\ need' = need /\ rcvd' = rcvd
           \/ /\ Len(d) = need /\ rpc = "len" /\ rpc' = "body" /\ need' \in Ints(d)
              /\ rbuf' = <<>> /\ rcvd' = rcvd
           \/ /\ Len(d) = need /\ rpc = "body" /\ rpc' = "len" /\ need' = IntSize
              /\ rbuf' = <<>> /\ rcvd' = Append(rcvd, PacketOf(d))
    BY DEF read_stream
<1>2. PICK b :
        /\ b = rbuf \o SubSeq(chan, 1, k) /\ chan' = SubSeq(chan, k + 1, Len(chan))
        /\ \/ Len(b) < need /\ rbuf' = b /\ rpc' = rpc /\ need' = need /\ rcvd' = rcvd
           \/ /\ Len(b) = need /\ rpc = "len" /\ rpc' = "body" /\ need' \in Ints(b)
              /\ rbuf' = <<>> /\ rcvd' = rcvd
           \/ /\ Len(b) = need /\ rpc = "body" /\ rpc' = "len" /\ need' = IntSize
              /\ rbuf' = <<>> /\ rcvd' = Append(rcvd, PacketOf(b))
    BY <1>0
<1>3. StreamTypes /\ ReaderOK /\ InOrder
    BY DEF FramesInv
<1>4. PICK s, off : Framed(s, off, sent) /\ InStep(s, ReadUpTo(off))
    BY <1>1 DEF FramesInv
<1>5. /\ s \in Seq(Byte) /\ Len(s) \in Nat
      /\ rbuf \in Seq(Byte) /\ chan \in Seq(Byte) /\ wbuf \in Seq(Byte)
      /\ Len(rbuf) \in Nat /\ Len(chan) \in Nat /\ Len(wbuf) \in Nat
      /\ Len(rcvd) \in Nat /\ Len(sent) \in Nat /\ Len(rcvd) \in 0 .. Len(sent)
      /\ off[Len(rcvd) + 1] \in Nat /\ ReadUpTo(off) \in Nat /\ off[Len(rcvd) + 1] <= ReadUpTo(off)
      /\ IntSize \in Nat /\ IntSize >= 1
    BY ONLY <1>1, <1>3, <1>4, InStepSizes
<1>6. PICK c \in Nat : c = ReadUpTo(off)
    BY <1>5
<1>7. /\ Part(rbuf, s, c) /\ Part(chan, s, c + Len(rbuf)) /\ Part(wbuf, s, c + Len(rbuf) + Len(chan))
      /\ cut = 0 => c + Len(rbuf) + Len(chan) + Len(wbuf) = Len(s)
      /\ cut = 1 => c + Len(rbuf) + Len(chan) < Len(s)
    BY <1>4, <1>6 DEF InStep
<1>8. PICK x, y : x = SubSeq(chan, 1, k) /\ y = SubSeq(chan, k + 1, Len(chan))
    OBVIOUS
<1>9. PICK p \in Nat : p = c + Len(rbuf)
    BY <1>5
<1>10. Part(x, s, p) /\ Len(x) = k /\ Part(y, s, p + k) /\ Len(y) = Len(chan) - k
    <2>1. k \in 0 .. Len(chan) /\ p \in Nat /\ Part(chan, s, p)
        BY <1>5, <1>7, <1>9
    <2>2. SplitAt(x, y, chan, k)
        BY <1>8 DEF SplitAt
    <2> QED BY ONLY <1>5, <2>1, <2>2, PartSplit
<1>11. Part(b, s, c) /\ Len(b) = Len(rbuf) + Len(x)
    <2>1. Part(rbuf, s, c) /\ Part(x, s, c + Len(rbuf)) /\ c \in Nat
        BY <1>7, <1>9, <1>10
    <2>2. x \in Seq(Byte)
        BY <1>10 DEF Part
    <2>3. b = rbuf \o x
        BY <1>2, <1>8
    <2>4. Joined(b, rbuf, x)
        BY ONLY <1>5, <2>2, <2>3, Joining
    <2> QED BY ONLY <1>5, <2>1, <2>4, PartJoin
<1>12. /\ b \in Seq(Byte) /\ c + Len(b) <= Len(s) /\ (\A j \in 1 .. Len(b) : b[j] = s[c + j])
       /\ Len(b) \in Nat /\ Len(b) > 0 /\ c + Len(b) \in Nat
    <2>1. b \in Seq(Byte) /\ c + Len(b) <= Len(s) /\ \A j \in 1 .. Len(b) : b[j] = s[c + j]
        BY <1>11 DEF Part
    <2>2. Len(b) = Len(rbuf) + k /\ k \in Nat /\ k >= 1
        BY <1>5, <1>10, <1>11
    <2>3. Len(b) \in Nat /\ Len(b) > 0
        BY ONLY <1>5, <2>2
    <2> QED BY <2>1, <2>3
<1>13. /\ Part(y, s, c + Len(b)) /\ Len(b) + Len(y) = Len(rbuf) + Len(chan)
       /\ c + Len(b) + Len(y) = c + Len(rbuf) + Len(chan)
    <2>1. PICK u \in Nat, v \in Nat : u = Len(rbuf) /\ v = Len(chan)
        BY <1>5
    <2>2. Len(b) = u + k /\ Len(y) = v - k /\ p = c + u /\ k \in 1 .. v
        BY <1>9, <1>10, <1>11, <2>1
    <2>3. c + (u + k) = p + k /\ (u + k) + (v - k) = u + v /\ c + (u + k) + (v - k) = c + u + v
        BY ONLY <2>2, u \in Nat, v \in Nat, c \in Nat, p \in Nat
    <2> QED BY <1>10, <2>1, <2>2, <2>3
<1>14. \A z \in Nat : \A d : Part(d, s, z) => d \in Seq(Byte)
    BY DEF Part
<1>15. PICK e \in Nat, h \in Nat : e = c + Len(b) /\ h = c + Len(b) + Len(y)
    <2>1. Len(y) \in Nat
        BY <1>13 DEF Part
    <2> QED BY <1>12, <2>1
<1>16. /\ Part(y, s, e) /\ Part(wbuf, s, h) /\ e <= Len(s)
       /\ cut = 0 => h + Len(wbuf) = Len(s)
       /\ cut = 1 => h < Len(s)
    BY <1>7, <1>12, <1>13, <1>15
<1>17. chan' = y
    BY <1>2, <1>8
<1>18. CASE Len(b) < need /\ rbuf' = b /\ rpc' = rpc /\ need' = need /\ rcvd' = rcvd
    <2>1. ReadUpTo(off)' = c
        BY <1>6, <1>18 DEF ReadUpTo
    <2>2. InStep(s, c)'
        BY <1>1, <1>11, <1>15, <1>16, <1>17, <1>18 DEF InStep
    <2>3. StreamTypes' /\ ReaderOK' /\ InOrder'
        BY <1>1, <1>3, <1>18 DEF StreamTypes, ReaderOK, InOrder
    <2> QED BY <1>1, <1>4, <2>1, <2>2, <2>3 DEF FramesInv
<1>19. Part(<<>>, s, e) /\ Len(<<>>) = 0 /\ e + 0 = e
    BY <1>5, <1>16, PartEmpty
<1>20. sent \in Seq(Packets) /\ rcvd \in Seq(Packets)
    BY <1>3 DEF StreamTypes
<1>21. PICK r \in Nat, a \in Nat : r = Len(rcvd) /\ a = off[r + 1] /\ r \in 0 .. Len(sent)
    BY <1>5
<1>22. a <= c /\ c + Len(b) <= Len(s) /\ a + Len(b) <= Len(s)
    <2>1. a <= c
        BY <1>5, <1>6, <1>21
    <2> QED BY ONLY <1>5, <1>12, <2>1, a \in Nat, c \in Nat
<1>23. /\ r < Len(sent) /\ sent[r + 1] \in Packets
       /\ off[r + 2] = off[r + 1] + FrameLen(sent[r + 1]) /\ off[r + 2] \in Nat
       /\ \A nth \in 1 .. FrameLen(sent[r + 1]) : s[off[r + 1] + nth] = FrameByte(sent[r + 1], nth)
    <2>1. off[r + 1] + Len(b) <= Len(s)
        BY <1>21, <1>22
    <2> QED BY ONLY <1>4, <1>12, <1>20, <1>21, <2>1, InsideStream, SMTT(30)
<1>24. PICK m \in Packets : m = sent[r + 1]
    BY <1>23
<1>25. /\ size[m] \in Nat /\ size[m] >= 1 /\ FrameLen(m) = IntSize + size[m] /\ off[r + 2] = a + (IntSize + size[m])
       /\ \A nth \in 1 .. (IntSize + size[m]) : s[a + nth] = FrameByte(m, nth)
    <2>1. size[m] \in Nat /\ size[m] >= 1 /\ FrameLen(m) = IntSize + size[m]
        BY FrameSizes
    <2> QED BY <1>21, <1>23, <1>24, <2>1
<1>26. CASE /\ Len(b) = need /\ rpc = "len" /\ rpc' = "body" /\ need' \in Ints(b)
            /\ rbuf' = <<>> /\ rcvd' = rcvd
    <2>1. Len(b) = IntSize /\ c = a
        BY <1>3, <1>5, <1>6, <1>21, <1>26 DEF ReaderOK, ReadUpTo
    <2>2. ReadUpTo(off)' = e
        BY <1>15, <1>21, <1>26, <2>1 DEF ReadUpTo
    <2>3. InStep(s, e)'
        BY <1>1, <1>13, <1>15, <1>16, <1>17, <1>19, <1>26 DEF InStep
    <2>4. \A nth \in 1 .. IntSize : b[nth] = FrameByte(m, nth)
        <3>1. \A nth \in 1 .. IntSize : nth \in 1 .. (IntSize + size[m])
            BY ONLY <1>5, <1>25
        <3> QED BY <1>12, <1>25, <2>1, <3>1
    <2>5. need' = size[m]
        BY <1>12, <1>26, <2>1, <2>4, LengthRead
    <2>6. StreamTypes' /\ InOrder'
        BY <1>1, <1>3, <1>26 DEF StreamTypes, InOrder
    <2>7. ReaderOK'
        BY <1>1, <1>21, <1>23, <1>24, <1>26, <2>5 DEF ReaderOK
    <2> QED BY <1>1, <1>4, <2>2, <2>3, <2>6, <2>7 DEF FramesInv
<1>27. CASE /\ Len(b) = need /\ rpc = "body" /\ rpc' = "len" /\ need' = IntSize
            /\ rbuf' = <<>> /\ rcvd' = Append(rcvd, PacketOf(b))
    <2>1. Len(b) = size[m] /\ c = a + IntSize
        BY <1>3, <1>5, <1>6, <1>21, <1>24, <1>27 DEF ReaderOK, ReadUpTo
    <2>2. \A nth \in 1 .. size[m] : b[nth] = FrameByte(m, IntSize + nth)
        <3> SUFFICES ASSUME NEW nth \in 1 .. size[m] PROVE b[nth] = FrameByte(m, IntSize + nth)
            OBVIOUS
        <3>1. IntSize + nth \in 1 .. (IntSize + size[m]) /\ a + (IntSize + nth) = c + nth
            BY ONLY <1>5, <1>25, <2>1, nth \in 1 .. size[m], a \in Nat
        <3>2. b[nth] = s[c + nth]
            BY <1>12, <2>1
        <3> QED BY <1>25, <3>1, <3>2
    <2>3. PacketOf(b) = m
        BY ONLY <1>12, <2>1, <2>2, m \in Packets, BodyRead
    <2>4. rcvd' = Append(rcvd, m) /\ rcvd' = Append(rcvd, sent[r + 1])
        BY <1>24, <1>27, <2>3
    <2>5. rcvd' \in Seq(Packets) /\ OneMore(rcvd', rcvd, m)
        <3>1. PICK v : v = rcvd' /\ v = Append(rcvd, m)
            BY <2>4
        <3>2. OneMore(v, rcvd, m)
            BY ONLY <1>20, <3>1, m \in Packets, Appending
        <3>3. v \in Seq(Packets)
            BY ONLY <1>20, <3>1, m \in Packets
        <3> QED BY <3>1, <3>2, <3>3
    <2>6. Len(rcvd') = r + 1 /\ rcvd'[r + 1] = m /\ \A nth \in 1 .. r : rcvd'[nth] = rcvd[nth]
        BY <1>21, <2>5 DEF OneMore
    <2>7. e = off[r + 2] /\ (r + 1) + 1 = r + 2
        <3>1. PICK n \in Nat, l \in Nat : n = size[m] /\ l = IntSize
            BY <1>5, <1>25
        <3>2. e = (a + l) + n /\ off[r + 2] = a + (l + n)
            BY <1>15, <1>25, <2>1, <3>1
        <3>3. (a + l) + n = a + (l + n) /\ (r + 1) + 1 = r + 2
            BY ONLY a \in Nat, l \in Nat, n \in Nat, r \in Nat
        <3> QED BY ONLY <3>2, <3>3
    <2>8. ReadUpTo(off)' = e
        BY <1>15, <1>27, <2>6, <2>7 DEF ReadUpTo
    <2>9. InStep(s, e)'
        BY <1>1, <1>13, <1>15, <1>16, <1>17, <1>19, <1>27 DEF InStep
    <2>10. Len(rcvd') + cut' <= Len(sent')
        <3>1. CASE cut = 0
            BY <1>1, <1>5, <1>21, <1>23, <2>6, <3>1
        <3>2. CASE cut = 1
            <4>1. e < Len(s) /\ off[r + 2] + 1 <= Len(s)
                <5>1. e <= h /\ h < Len(s)
                    BY <1>13, <1>15, <1>16, <3>2 DEF Part
                <5> QED BY <1>5, <2>7, <5>1
            <4>2. r + 1 \in 0 .. Len(sent) /\ off[(r + 1) + 1] + 1 <= Len(s) /\ 1 \in Nat /\ 1 > 0
                BY <1>5, <1>23, <2>7, <4>1
            <4>3. r + 1 < Len(sent)
                BY ONLY <1>4, <1>20, <4>2, InsideStream
            <4> QED BY <1>1, <1>5, <2>6, <3>2, <4>3
        <3>3. cut \in {0, 1}
            BY <1>3 DEF StreamTypes
        <3> QED BY <3>1, <3>2, <3>3
    <2>11. StreamTypes'
        BY <1>1, <1>3, <1>27, <2>5, <2>10 DEF StreamTypes
    <2>12. InOrder'
        <3>1. \A nth \in 1 .. r : rcvd[nth] = sent[nth]
            BY <1>3, <1>21 DEF InOrder
        <3>2. \A nth \in 1 .. (r + 1) : nth \in 1 .. r \/ nth = r + 1
            OBVIOUS
        <3> QED BY <1>1, <1>24, <2>6, <3>1, <3>2 DEF InOrder
    <2>13. ReaderOK'
        BY <1>27 DEF ReaderOK
    <2> QED BY <1>1, <1>4, <2>8, <2>9, <2>11, <2>12, <2>13 DEF FramesInv
<1> QED BY <1>2, <1>18, <1>26, <1>27

LEMMA StreamStutters == ASSUME FramesInv, UNCHANGED streamVars PROVE FramesInv'
<1>1. /\ wbuf' = wbuf /\ wpkt' = wpkt /\ chan' = chan /\ fd' = fd /\ rpc' = rpc /\ rbuf' = rbuf
      /\ need' = need /\ rcvd' = rcvd /\ sent' = sent /\ cut' = cut
    BY DEF streamVars
<1> QED BY <1>1 DEF FramesInv, StreamTypes, ReaderOK, InOrder, ReadUpTo, InStep

\* What rcv() returned stays, and a stream that is spoilt remains so.
LEMMA Returned ==
    ASSUME StreamInv, [StreamNext]_streamVars
    PROVE  /\ rcvd' = rcvd \/ \E p \in Nat : rcvd' = Append(rcvd, p)
           /\ rcvd' \in Seq(Nat) /\ spoilt' \in BOOLEAN /\ (spoilt => spoilt')
           /\ RetryEperm \/ spoilt' = spoilt
<1>1. /\ spoilt' \in BOOLEAN /\ (spoilt => spoilt')
      /\ RetryEperm \/ spoilt' = spoilt
    BY DEF StreamNext, streamVars, StreamInv, snd, write_stream, SndReturns, RetryEperm, CloseFd,
           read_stream, ReadEof, writer
<1>2. rcvd' = rcvd \/ \E p \in Nat : rcvd' = Append(rcvd, p)
    <2>1. CASE read_stream
        <3>1. \A b : PacketOf(b) \in Nat
            <4> SUFFICES ASSUME NEW b PROVE PacketOf(b) \in Nat
                OBVIOUS
            <4>1. CASE \E m \in Packets : b = Bytes(m)
                <5>1. PICK q : q = CHOOSE m \in Packets : b = Bytes(m)
                    OBVIOUS
                <5>2. q \in Packets
                    BY <4>1, <5>1, Zenon
                <5>3. PacketOf(b) = q
                    BY <4>1, <5>1, Zenon DEF PacketOf
                <5> QED BY <5>2, <5>3, PktStreamAssumption
            <4>2. CASE ~ \E m \in Packets : b = Bytes(m)
                <5>1. PacketOf(b) = Garbled
                    BY <4>2, Zenon DEF PacketOf
                <5> QED BY <5>1 DEF Garbled
            <4> QED BY <4>1, <4>2
        <3>2. rcvd' = rcvd \/ \E b : rcvd' = Append(rcvd, PacketOf(b))
            BY <2>1, Zenon DEF read_stream
        <3> QED BY <3>1, <3>2, Zenon
    <2>2. CASE ~ read_stream
        BY <2>2 DEF StreamNext, streamVars, snd, write_stream, SndReturns, RetryEperm, CloseFd,
                    ReadEof, reader
    <2> QED BY <2>1, <2>2
<1>3. rcvd \in Seq(Nat)
    BY DEF StreamInv
<1>4. rcvd' \in Seq(Nat)
    BY ONLY <1>2, <1>3
<1> QED BY <1>1, <1>2, <1>4

\* A step of a stream that is not spoilt.
LEMMA FramesKept ==
    ASSUME FramesInv, [StreamNext]_streamVars, ~ spoilt'
    PROVE  FramesInv'
<1>1. ASSUME NEW m \in Packets, snd(m) PROVE FramesInv'
    BY ONLY FramesInv, m \in Packets, <1>1, SndKeeps
<1>2. CASE write_stream
    BY ONLY FramesInv, <1>2, WriteKeeps
<1>3. CASE RetryEperm
    BY ONLY FramesInv, <1>3, ~ spoilt', RetryKeeps
<1>4. CASE CloseFd
    BY ONLY FramesInv, <1>4, CloseKeeps
<1>5. CASE read_stream
    BY ONLY FramesInv, <1>5, ReadKeeps
<1>6. CASE ReadEof
    BY ONLY FramesInv, <1>6, EofKeeps
<1>7. CASE UNCHANGED streamVars
    BY ONLY FramesInv, <1>7, StreamStutters
<1>8. CASE SndReturns
    BY ONLY FramesInv, <1>8, ReturnKeeps
<1> QED BY <1>1, <1>2, <1>3, <1>4, <1>5, <1>6, <1>7, <1>8 DEF StreamNext

\* As long as no packet was begun again in its middle, the bytes read, in the
\* connection and still to write are, in this order, the frames of the packets
\* given to snd(), whatever part each read() and write() transferred; and rcv()
\* returned the packets that were given to snd().
THEOREM StreamInvariant == StreamInit /\ [][StreamNext]_streamVars => []StreamInv
<1>1. StreamInit => StreamInv
    <2>1. StreamInit => rcvd = <<>> /\ spoilt = FALSE
        BY DEF StreamInit
    <2>2. <<>> \in Seq(Nat)
        OBVIOUS
    <2> QED BY <2>1, <2>2, StreamStarts DEF StreamInv
<1>2. StreamInv /\ [StreamNext]_streamVars => StreamInv'
    <2> SUFFICES ASSUME StreamInv, [StreamNext]_streamVars PROVE StreamInv'
        OBVIOUS
    <2>1. rcvd' \in Seq(Nat) /\ spoilt' \in BOOLEAN /\ (spoilt => spoilt')
        BY Returned
    <2>2. ASSUME ~ spoilt' PROVE FramesInv'
        BY <2>1, <2>2, FramesKept DEF StreamInv
    <2> QED BY <2>1, <2>2 DEF StreamInv
<1> QED BY <1>1, <1>2, PTL

\* What rcv() has returned is what snd() was given, from the first packet on:
\* none is lost, doubled, garbled or out of order, whatever part of a frame
\* each read() and write() transferred, as long as snd() did not begin a packet
\* again of which something had been written.
THEOREM ReceivedInOrder == StreamInit /\ [][StreamNext]_streamVars => [](~ spoilt => InOrder)
<1>1. StreamInv => (~ spoilt => InOrder)
    BY DEF StreamInv, FramesInv
<1> QED BY <1>1, StreamInvariant, PTL

-----------------------------------------------------------------------------
\* The step simulation.  What is undelivered is a slice of what was sent.
LEMMA SliceIs ==
    ASSUME NEW v \in Seq(Packets), NEW r \in Nat, NEW n \in Nat, r <= n, n <= Len(v)
    PROVE  /\ SubSeq(v, r + 1, n) \in Seq(Packets) /\ Len(SubSeq(v, r + 1, n)) = n - r
           /\ \A nth \in 1 .. (n - r) : SubSeq(v, r + 1, n)[nth] = v[r + nth]
OBVIOUS

LEMMA SliceGrows ==
    ASSUME NEW v \in Seq(Packets), NEW m \in Packets, NEW r \in Nat, r <= Len(v)
    PROVE  SubSeq(Append(v, m), r + 1, Len(v) + 1) = Append(SubSeq(v, r + 1, Len(v)), m)
<1>1. Len(v) \in Nat /\ Append(v, m) \in Seq(Packets) /\ Len(Append(v, m)) = Len(v) + 1
    OBVIOUS
<1>2. PICK a, b : a = SubSeq(Append(v, m), r + 1, Len(v) + 1) /\ b = SubSeq(v, r + 1, Len(v))
    OBVIOUS
<1>3. /\ a \in Seq(Packets) /\ Len(a) = (Len(v) + 1) - r
      /\ \A nth \in 1 .. ((Len(v) + 1) - r) : a[nth] = Append(v, m)[r + nth]
    <2>0. PICK n \in Nat : n = Len(v) + 1
        BY <1>1
    <2>1. PICK w : w = Append(v, m) /\ w \in Seq(Packets) /\ Len(w) = n
        BY <1>1, <2>0
    <2>2. r <= n /\ n <= Len(w)
        BY <1>1, <2>0, <2>1
    <2>3. /\ SubSeq(w, r + 1, n) \in Seq(Packets) /\ Len(SubSeq(w, r + 1, n)) = n - r
          /\ \A nth \in 1 .. (n - r) : SubSeq(w, r + 1, n)[nth] = w[r + nth]
        BY ONLY <2>1, <2>2, r \in Nat, SliceIs
    <2> QED BY <1>2, <2>0, <2>1, <2>3
<1>4. b \in Seq(Packets) /\ Len(b) = Len(v) - r /\ \A nth \in 1 .. (Len(v) - r) : b[nth] = v[r + nth]
    BY <1>1, <1>2
<1>5. PICK d : d = Append(b, m)
    OBVIOUS
<1>6. /\ d \in Seq(Packets) /\ Len(d) = Len(b) + 1 /\ d[Len(b) + 1] = m
      /\ \A nth \in 1 .. Len(b) : d[nth] = b[nth]
    BY <1>4, <1>5
<1>7. \A nth \in 1 .. Len(a) : a[nth] = d[nth]
    <2> SUFFICES ASSUME NEW nth \in 1 .. Len(a) PROVE a[nth] = d[nth]
        OBVIOUS
    <2>1. CASE nth \in 1 .. (Len(v) - r)
        <3>1. r + nth \in 1 .. Len(v) /\ nth \in 1 .. ((Len(v) + 1) - r) /\ nth \in 1 .. Len(b)
            BY <1>1, <1>3, <1>4, <2>1
        <3>2. Append(v, m)[r + nth] = v[r + nth]
            BY <3>1
        <3> QED BY <1>3, <1>4, <1>6, <2>1, <3>1, <3>2
    <2>2. CASE nth = (Len(v) + 1) - r
        <3>1. r + nth = Len(v) + 1 /\ nth = Len(b) + 1
            BY <1>1, <1>4, <2>2
        <3>2. Append(v, m)[Len(v) + 1] = m
            OBVIOUS
        <3> QED BY <1>3, <1>6, <2>2, <3>1, <3>2
    <2> QED BY <1>1, <1>3, <2>1, <2>2, SMTT(30)
<1>8. Len(a) = Len(d)
    BY <1>1, <1>3, <1>4, <1>6
<1>9. a = d
    BY ONLY <1>3, <1>6, <1>7, <1>8
<1> QED BY <1>2, <1>5, <1>9

LEMMA SliceEnds ==
    ASSUME NEW v \in Seq(Packets), NEW r \in Nat, NEW n \in Nat, r <= n, n <= Len(v), NEW k \in Nat, k <= n - r
    PROVE  /\ SubSeq(v, r + 1, n) \in Seq(Packets) /\ Len(SubSeq(v, r + 1, n)) = n - r
           /\ SubSeq(SubSeq(v, r + 1, n), 1, k) = SubSeq(v, r + 1, r + k)
<1>1. PICK a, b, d : a = SubSeq(v, r + 1, n) /\ b = SubSeq(a, 1, k) /\ d = SubSeq(v, r + 1, r + k)
    OBVIOUS
<1>2. a \in Seq(Packets) /\ Len(a) = n - r /\ \A nth \in 1 .. (n - r) : a[nth] = v[r + nth]
    BY <1>1
<1>3. b \in Seq(Packets) /\ Len(b) = k /\ \A nth \in 1 .. k : b[nth] = a[nth]
    BY <1>1, <1>2
<1>4. d \in Seq(Packets) /\ Len(d) = k /\ \A nth \in 1 .. k : d[nth] = v[r + nth]
    BY <1>1
<1>5. \A nth \in 1 .. k : b[nth] = d[nth]
    <2>1. \A nth \in 1 .. k : nth \in 1 .. (n - r)
        OBVIOUS
    <2> QED BY ONLY <1>2, <1>3, <1>4, <2>1
<1>6. b = d
    BY ONLY <1>3, <1>4, <1>5, SMTT(30)
<1> QED BY <1>1, <1>2, <1>6

LEMMA SliceHead ==
    ASSUME NEW v \in Seq(Packets), NEW r \in Nat, NEW n \in Nat, r < n, n <= Len(v)
    PROVE  /\ SubSeq(v, r + 1, n) # <<>> /\ Head(SubSeq(v, r + 1, n)) = v[r + 1]
           /\ Tail(SubSeq(v, r + 1, n)) = SubSeq(v, (r + 1) + 1, n)
<1>1. PICK a, b, d : a = SubSeq(v, r + 1, n) /\ b = Tail(a) /\ d = SubSeq(v, (r + 1) + 1, n)
    OBVIOUS
<1>2. a \in Seq(Packets) /\ Len(a) = n - r /\ \A nth \in 1 .. (n - r) : a[nth] = v[r + nth]
    BY <1>1
<1>3. a # <<>> /\ Head(a) = a[1] /\ 1 \in 1 .. (n - r)
    BY <1>2
<1>4. b \in Seq(Packets) /\ Len(b) = (n - r) - 1 /\ \A nth \in 1 .. ((n - r) - 1) : b[nth] = a[nth + 1]
    BY <1>1, <1>2, <1>3
<1>5. d \in Seq(Packets) /\ Len(d) = n - (r + 1) /\ \A nth \in 1 .. (n - (r + 1)) : d[nth] = v[(r + 1) + nth]
    BY <1>1
<1>6. \A nth \in 1 .. Len(b) : b[nth] = d[nth]
    <2> SUFFICES ASSUME NEW nth \in 1 .. Len(b) PROVE b[nth] = d[nth]
        OBVIOUS
    <2>1. nth + 1 \in 1 .. (n - r) /\ nth \in 1 .. ((n - r) - 1) /\ nth \in 1 .. (n - (r + 1))
          /\ r + (nth + 1) = (r + 1) + nth
        BY <1>4
    <2> QED BY <1>2, <1>4, <1>5, <2>1
<1>7. b = d
    <2>1. b \in Seq(Packets) /\ d \in Seq(Packets) /\ Len(b) = Len(d)
        BY <1>4, <1>5
    <2> QED BY ONLY <1>6, <2>1
<1> QED BY <1>1, <1>2, <1>3, <1>7

\* Numbers that every state of the stream has.
LEMMA SliceBounds ==
    ASSUME FramesInv
    PROVE  /\ sent \in Seq(Packets) /\ rcvd \in Seq(Packets)
           /\ Len(sent) \in Nat /\ Len(rcvd) \in Nat /\ cut \in {0, 1}
           /\ Len(sent) - cut \in Nat /\ Len(rcvd) <= Len(sent) - cut /\ Len(sent) - cut <= Len(sent)
<1>1. sent \in Seq(Packets) /\ rcvd \in Seq(Packets) /\ cut \in {0, 1} /\ Len(rcvd) + cut <= Len(sent)
    BY DEF FramesInv, StreamTypes
<1>2. Len(sent) \in Nat /\ Len(rcvd) \in Nat
    BY ONLY <1>1
<1> QED BY ONLY <1>1, <1>2

\* snd() takes one more packet.
LEMMA SndSends ==
    ASSUME FramesInv, NEW m \in Packets, snd(m)
    PROVE  Channel!Send
<1>1. /\ fd = "open" /\ sent' = Append(sent, m) /\ rcvd' = rcvd /\ fd' = fd /\ cut' = cut
      /\ spoilt' = spoilt
    BY DEF snd, reader
<1>2. sent \in Seq(Packets) /\ Len(sent) \in Nat /\ Len(rcvd) \in Nat /\ Len(rcvd) <= Len(sent)
    BY SliceBounds
<1>3. cut = 0
    BY <1>1 DEF FramesInv, StreamTypes
<1>4. Undelivered = SubSeq(sent, Len(rcvd) + 1, Len(sent))
    <2>1. Len(sent) - cut = Len(sent)
        BY <1>2, <1>3
    <2> QED BY <2>1 DEF Undelivered
<1>5. Undelivered' = SubSeq(Append(sent, m), Len(rcvd) + 1, Len(sent) + 1)
    <2>1. Len(sent') - cut' = Len(sent) + 1
        BY <1>1, <1>2, <1>3
    <2> QED BY <1>1, <2>1 DEF Undelivered
<1>6. SubSeq(Append(sent, m), Len(rcvd) + 1, Len(sent) + 1)
        = Append(SubSeq(sent, Len(rcvd) + 1, Len(sent)), m)
    BY ONLY <1>2, m \in Packets, SliceGrows
<1>7. Undelivered' = Append(Undelivered, m)
    BY ONLY <1>4, <1>5, <1>6
<1> QED BY <1>1, <1>7 DEF Channel!Send

\* The end of the connection cuts the packet in the writer, if there is one.
LEMMA CloseCuts == ASSUME FramesInv, CloseFd PROVE Channel!Cut
<1>1. fd = "open" /\ fd' = "closed" /\ sent' = sent /\ rcvd' = rcvd /\ spoilt' = spoilt
    BY DEF CloseFd, reader
<1>2. /\ sent \in Seq(Packets) /\ Len(sent) \in Nat /\ Len(rcvd) \in Nat
      /\ Len(rcvd) <= Len(sent) /\ cut = 0
    <2>1. cut = 0
        BY <1>1 DEF FramesInv, StreamTypes
    <2> QED BY <2>1, SliceBounds
<1>3. FramesInv'
    BY ONLY FramesInv, CloseFd, CloseKeeps
<1>4. cut' \in {0, 1} /\ Len(rcvd) + cut' <= Len(sent)
    BY <1>1, <1>3 DEF FramesInv, StreamTypes
<1>5. PICK n, r, z : n = Len(sent) /\ r = Len(rcvd) /\ z = cut'
    OBVIOUS
<1>6. n \in Nat /\ r \in Nat /\ z \in Nat /\ r + z <= n
    BY <1>2, <1>4, <1>5
<1>7. PICK k \in Nat : k = (n - z) - r
    BY ONLY <1>6
<1>8. k <= n - r /\ r + k = n - z /\ r <= n /\ k \in 0 .. (n - r)
    BY ONLY <1>6, <1>7, k \in Nat
<1>9. /\ Len(SubSeq(sent, r + 1, n)) = n - r
      /\ SubSeq(SubSeq(sent, r + 1, n), 1, k) = SubSeq(sent, r + 1, r + k)
    <2>1. sent \in Seq(Packets) /\ n <= Len(sent)
        BY <1>2, <1>5
    <2> QED BY ONLY <1>6, <1>8, <2>1, k \in Nat, SliceEnds
<1>10. Undelivered = SubSeq(sent, r + 1, n)
    <2>1. Len(sent) - cut = n
        BY <1>2, <1>5
    <2> QED BY <1>5, <2>1 DEF Undelivered
<1>11. Undelivered' = SubSeq(sent, r + 1, r + k)
    <2>1. Len(sent') - cut' = r + k
        BY <1>1, <1>5, <1>8
    <2> QED BY <1>1, <1>5, <2>1 DEF Undelivered
<1>12. k \in 0 .. Len(Undelivered) /\ Undelivered' = SubSeq(Undelivered, 1, k)
    BY ONLY <1>8, <1>9, <1>10, <1>11
<1> QED BY <1>1, <1>12 DEF Channel!Cut

\* The round that completes a body returns the packet that is next; the others
\* return none.
LEMMA ReadDelivers ==
    ASSUME FramesInv, read_stream
    PROVE  Channel!Deliver \/ UNCHANGED Channel!channelVars
<1>1. /\ fd' = fd /\ sent' = sent /\ cut' = cut /\ spoilt' = spoilt
      /\ rcvd' = rcvd \/ \E p : rcvd' = Append(rcvd, p)
    BY DEF read_stream, writer
<1>2. CASE rcvd' = rcvd
    BY <1>1, <1>2 DEF Undelivered, Channel!channelVars
<1>3. CASE \E p : rcvd' = Append(rcvd, p)
    <2>1. PICK p : rcvd' = Append(rcvd, p)
        BY <1>3
    <2>2. /\ sent \in Seq(Packets) /\ rcvd \in Seq(Packets) /\ Len(rcvd) \in Nat
          /\ Len(sent) - cut \in Nat /\ Len(sent) - cut <= Len(sent)
        BY SliceBounds
    <2>3. Len(rcvd') = Len(rcvd) + 1 /\ rcvd'[Len(rcvd) + 1] = p
        BY <2>1, <2>2
    <2>4. FramesInv'
        BY ONLY FramesInv, read_stream, ReadKeeps
    <2>5. InOrder' /\ Len(rcvd') + cut' <= Len(sent') /\ cut' \in {0, 1}
        BY <2>4 DEF FramesInv, StreamTypes
    <2>6. p = sent[Len(rcvd) + 1]
        <3>1. Len(rcvd) + 1 \in 1 .. Len(rcvd')
            BY <2>2, <2>3
        <3> QED BY <1>1, <2>3, <2>5, <3>1 DEF InOrder
    <2>7. PICK r \in Nat, n \in Nat : r = Len(rcvd) /\ n = Len(sent) - cut
        BY <2>2
    <2>8. r < n /\ n <= Len(sent)
        <3>1. Len(sent) \in Nat
            BY <2>2
        <3> QED BY <1>1, <2>2, <2>3, <2>5, <2>7, <3>1
    <2>9. /\ SubSeq(sent, r + 1, n) # <<>> /\ Head(SubSeq(sent, r + 1, n)) = sent[r + 1]
          /\ Tail(SubSeq(sent, r + 1, n)) = SubSeq(sent, (r + 1) + 1, n)
        BY ONLY <2>2, <2>8, r \in Nat, n \in Nat, SliceHead
    <2>10. Undelivered = SubSeq(sent, r + 1, n) /\ Undelivered' = SubSeq(sent, (r + 1) + 1, n)
        BY <1>1, <2>3, <2>7 DEF Undelivered
    <2>11. Channel!Deliver
        BY <1>1, <2>1, <2>6, <2>7, <2>9, <2>10 DEF Channel!Deliver
    <2> QED BY <2>11
<1> QED BY <1>1, <1>2, <1>3

\* What is left of the promise when the stream is spoilt.
LEMMA SpoiltSteps ==
    ASSUME StreamInv, [StreamNext]_streamVars, spoilt
    PROVE  Channel!Unreliable
<1>1. /\ rcvd' = rcvd \/ \E p \in Nat : rcvd' = Append(rcvd, p)
      /\ spoilt' /\ rcvd \in Seq(Nat)
    BY Returned DEF StreamInv
<1>2. fd' = "open" => fd = "open"
    BY DEF StreamNext, streamVars, snd, write_stream, SndReturns, RetryEperm, CloseFd, read_stream,
           ReadEof
<1>3. ASSUME NEW w \in Seq(Nat)
      PROVE  SubSeq(w, 1, Len(w)) = w
    OBVIOUS
<1>4. ASSUME NEW w \in Seq(Nat), NEW p \in Nat, NEW v, v = Append(w, p)
      PROVE  Len(v) = Len(w) + 1 /\ SubSeq(v, 1, Len(w)) = w
    <2>1. PICK n \in Nat : n = Len(w)
        OBVIOUS
    <2>2. v \in Seq(Nat) /\ Len(v) = n + 1 /\ \A nth \in 1 .. n : v[nth] = w[nth]
        BY <1>4, <2>1
    <2>3. PICK u : u = SubSeq(v, 1, n)
        OBVIOUS
    <2>4. u \in Seq(Nat) /\ Len(u) = n /\ \A nth \in 1 .. n : u[nth] = v[nth]
        BY ONLY <2>2, <2>3, n \in Nat
    <2>5. u = w
        <3>1. Len(u) = Len(w) /\ \A nth \in 1 .. Len(u) : u[nth] = w[nth]
            BY <2>1, <2>2, <2>4
        <3> QED BY ONLY <2>4, <3>1, w \in Seq(Nat)
    <2> QED BY <2>1, <2>2, <2>3, <2>5
<1>5. Len(rcvd') \in {Len(rcvd), Len(rcvd) + 1} /\ SubSeq(rcvd', 1, Len(rcvd)) = rcvd
    BY ONLY <1>1, <1>3, <1>4
<1> QED BY <1>1, <1>2, <1>5, spoilt DEF Channel!Unreliable

\* And a step of a stream that is not.
LEMMA SoundSteps ==
    ASSUME FramesInv, [StreamNext]_streamVars, spoilt \in BOOLEAN, ~ spoilt, spoilt' \in BOOLEAN
    PROVE  Channel!ChannelNext \/ UNCHANGED Channel!channelVars
<1>1. ASSUME NEW m \in Packets, snd(m) PROVE Channel!Send
    BY ONLY FramesInv, m \in Packets, <1>1, SndSends
<1>2. CASE write_stream
    BY <1>2 DEF write_stream, reader, Undelivered, Channel!channelVars
<1>3. CASE RetryEperm
    <2>1. UNCHANGED <<Undelivered, rcvd, fd>>
        BY <1>3 DEF RetryEperm, reader, Undelivered
    <2>2. CASE spoilt'
        <3>1. spoilt' = TRUE
            BY <2>2
        <3>2. Channel!Spoil
            BY <2>1, <3>1, ~ spoilt DEF Channel!Spoil
        <3> QED BY <3>2 DEF Channel!ChannelNext
    <2>3. CASE ~ spoilt'
        <3>1. spoilt' = spoilt
            BY <2>3, Zenon
        <3> QED BY <2>1, <3>1 DEF Channel!channelVars
    <2> QED BY <2>2, <2>3
<1>4. CASE CloseFd
    <2>1. Channel!Cut
        BY ONLY FramesInv, <1>4, CloseCuts
    <2> QED BY <2>1 DEF Channel!ChannelNext
<1>5. CASE read_stream
    <2>1. Channel!Deliver \/ UNCHANGED Channel!channelVars
        BY ONLY FramesInv, <1>5, ReadDelivers
    <2> QED BY <2>1 DEF Channel!ChannelNext
<1>6. CASE ReadEof
    BY <1>6 DEF ReadEof, writer, Undelivered, Channel!channelVars
<1>7. CASE UNCHANGED streamVars
    BY <1>7 DEF streamVars, Undelivered, Channel!channelVars
<1>8. CASE SndReturns
    BY <1>8 DEF SndReturns, reader, Undelivered, Channel!channelVars
<1> QED BY <1>1, <1>2, <1>3, <1>4, <1>5, <1>6, <1>7, <1>8 DEF StreamNext, Channel!ChannelNext

\* Every step of the stream, with its partial reads and writes, its retries and
\* its end in the middle of a frame, is a step of the channel of packets or
\* leaves it as it is: snd() sends, the read that completes a body delivers,
\* close() cuts what the writer still held, and a packet that is begun again in
\* its middle spoils the channel.
THEOREM StreamKeepsChannel == StreamInit /\ [][StreamNext]_streamVars => KeepsChannel
<1>1. StreamInit => Channel!ChannelInit
    <2> SUFFICES ASSUME StreamInit PROVE Channel!ChannelInit
        OBVIOUS
    <2>1. sent = <<>> /\ rcvd = <<>> /\ cut = 0 /\ fd = "open" /\ spoilt = FALSE
        BY DEF StreamInit
    <2>2. SubSeq(<<>>, 0 + 1, 0 - 0) = <<>>
        OBVIOUS
    <2>3. Undelivered = <<>>
        BY <2>1, <2>2 DEF Undelivered
    <2> QED BY <2>1, <2>3 DEF Channel!ChannelInit
<1>2. StreamInv /\ [StreamNext]_streamVars => [Channel!ChannelNext]_(Channel!channelVars)
    <2> SUFFICES ASSUME StreamInv, [StreamNext]_streamVars
                 PROVE  Channel!ChannelNext \/ UNCHANGED Channel!channelVars
        OBVIOUS
    <2>1. CASE spoilt
        BY <2>1, SpoiltSteps DEF Channel!ChannelNext
    <2>2. CASE ~ spoilt
        BY <2>2, SoundSteps, Returned DEF StreamInv
    <2> QED BY <2>1, <2>2
<1> QED BY <1>1, <1>2, StreamInvariant, PTL DEF KeepsChannel
=============================================================================
