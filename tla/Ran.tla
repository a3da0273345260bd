-------------------------------- MODULE Ran --------------------------------
(***************************************************************************)
(* The RAN simulator: one thread per UE runs simulate() of                 *)
(* ran_simulator.cpp, which calls the methods of class Ran one after the   *)
(* other over its own connection to the AMF.  RanRestart is the operator   *)
(* stopping the simulator and starting it again.                           *)
(***************************************************************************)
EXTENDS Links

CONSTANT MaxAttach  \* bound on the attach rounds of a UE thread

ASSUME RanAssumption == MaxAttach \in Nat

VARIABLES
    run,       \* the simulator process that is running
    ran_pc,    \* where the UE thread of c is in simulate()
    ran_ctx,   \* its ran_ctx
    rounds,    \* attach rounds it has begun
    uplink_info  \* TrafficMonitor of the process: UE address -> uplink tunnel

ranVars == <<run, ran_pc, ran_ctx, rounds, uplink_info>>

RanPc == {"start", "loop", "autn", "security", "session", "data", "detach", "dead"}

RanCtx == [mme_id : MmeId, guti : GutiSet, ul : TeidSet, ip : ImsiSet, emm_state : {0, 1}]

\* Value of uplink_info for an address that has no entry: above every tunnel id.
NoTunnel == TEID_RANGE

RanTypeOK ==
    /\ run \in 1 .. MaxRuns
    /\ ran_pc \in [Conn -> RanPc]
    /\ ran_ctx \in [Conn -> RanCtx]
    /\ rounds \in [Conn -> 0 .. MaxAttach]
    /\ uplink_info \in [ImsiSet -> TeidSet \cup {NoTunnel}]

RanInit ==
    /\ run = 1
    /\ ran_pc = [c \in Conn |-> "start"]
    /\ ran_ctx = [c \in Conn |-> [mme_id |-> 0, guti |-> 0, ul |-> 0, ip |-> 0, emm_state |-> 0]]
    /\ rounds = [c \in Conn |-> 0]
    /\ uplink_info = [a \in ImsiSet |-> NoTunnel]

-----------------------------------------------------------------------------
\* simulate(): Ran::init and Ran::conn_mme.
conn_mme(c) ==
    /\ c[2] = run
    /\ ran_pc[c] = "start"
    /\ "amf" \notin exited
    /\ conn' = [conn EXCEPT ![c] = "open"]
    /\ ran_pc' = [ran_pc EXCEPT ![c] = "loop"]
    /\ UNCHANGED <<run, ran_ctx, rounds, uplink_info, up, down, rpc, calls, n4req, n4rsp, exited>>

initial_attach(c) ==
    /\ ran_pc[c] = "loop"
    /\ rounds[c] < MaxAttach
    /\ rounds' = [rounds EXCEPT ![c] = @ + 1]
    /\ ClientSnd(c, [S1ap(1, 0) EXCEPT !.imsi = Imsi(UeOf(c))])
    /\ ran_pc' = [ran_pc EXCEPT ![c] = "autn"]
    /\ UNCHANGED <<run, ran_ctx, uplink_info, down, conn, rpc, calls, n4req, n4rsp, exited>>

\* mme_client.rcv(): the next packet, whatever its type.
Rcv(c) ==
    /\ down[c] # <<>>
    /\ down' = [down EXCEPT ![c] = Tail(@)]

\* An authentication mismatch only prints: both branches answer.
authenticate(c) ==
    /\ ran_pc[c] = "autn"
    /\ Rcv(c)
    /\ LET id == Head(down[c]).id IN
        /\ ran_ctx' = [ran_ctx EXCEPT ![c].mme_id = id]
        /\ ClientSnd(c, S1ap(2, id))
    /\ ran_pc' = [ran_pc EXCEPT ![c] = "security"]
    /\ UNCHANGED <<run, rounds, uplink_info, conn, rpc, calls, n4req, n4rsp, exited>>

set_security(c) ==
    /\ ran_pc[c] = "security"
    /\ Rcv(c)
    /\ ClientSnd(c, S1ap(3, ran_ctx[c].mme_id))
    /\ ran_pc' = [ran_pc EXCEPT ![c] = "session"]
    /\ UNCHANGED <<run, ran_ctx, rounds, uplink_info, conn, rpc, calls, n4req, n4rsp, exited>>

\* The accept carries res = true always; the downlink tunnel is the uplink one.
set_eps_session(c) ==
    /\ ran_pc[c] = "session"
    /\ Rcv(c)
    /\ LET m == Head(down[c]) IN
        /\ ran_ctx' = [ran_ctx EXCEPT ![c] = [@ EXCEPT !.guti = m.guti, !.ul = m.teid,
                                                       !.ip = m.ip, !.emm_state = 1]]
        /\ uplink_info' = [uplink_info EXCEPT ![m.ip] = m.teid]
        /\ ClientSnd(c, [S1ap(4, ran_ctx[c].mme_id) EXCEPT !.teid = m.teid])
    /\ ran_pc' = [ran_pc EXCEPT ![c] = "data"]
    /\ UNCHANGED <<run, rounds, conn, rpc, calls, n4req, n4rsp, exited>>

\* transfer_data() ends, then Ran::detach sends its request.
detach_req(c) ==
    /\ ran_pc[c] = "data"
    /\ ClientSnd(c, [S1ap(5, ran_ctx[c].mme_id) EXCEPT !.guti = ran_ctx[c].guti])
    /\ ran_pc' = [ran_pc EXCEPT ![c] = "detach"]
    /\ UNCHANGED <<run, ran_ctx, rounds, uplink_info, down, conn, rpc, calls, n4req, n4rsp, exited>>

detach_rsp(c) ==
    /\ ran_pc[c] = "detach"
    /\ Rcv(c)
    /\ ran_pc' = [ran_pc EXCEPT ![c] = "loop"]
    /\ UNCHANGED <<run, ran_ctx, rounds, uplink_info, up, conn, rpc, calls, n4req, n4rsp, exited>>

\* The simulator process is stopped, with every thread where it is, and a new
\* one started.  What the AMF has not read stays in its receive buffer.
RanRestart ==
    /\ run < MaxRuns
    /\ run' = run + 1
    /\ ran_pc' = [c \in Conn |-> IF c[2] = run THEN "dead" ELSE ran_pc[c]]
    /\ conn' = [c \in Conn |-> IF c[2] = run /\ conn[c] = "open" THEN "closed" ELSE conn[c]]
    /\ down' = [c \in Conn |-> IF c[2] = run THEN <<>> ELSE down[c]]
    /\ uplink_info' = [a \in ImsiSet |-> NoTunnel]
    /\ UNCHANGED <<ran_ctx, rounds, up, rpc, calls, n4req, n4rsp, exited>>

RanThread(c) ==
    \/ conn_mme(c) \/ initial_attach(c) \/ authenticate(c) \/ set_security(c)
    \/ set_eps_session(c) \/ detach_req(c) \/ detach_rsp(c)
=============================================================================
