------------------------------- MODULE Links -------------------------------
(***************************************************************************)
(* What the network functions share: the connections between the RAN       *)
(* simulator and the AMF, the gRPC calls of the AMF's worker threads, the  *)
(* N4 datagrams between SMF and UPF, and the processes that have exited.   *)
(***************************************************************************)
EXTENDS Telecom, Sequences, FiniteSets

CONSTANTS
    RanNum,      \* numbers of the UE threads of the RAN simulator
    MaxRuns,     \* how many times the simulator process is started
    NWorkers,    \* worker threads of the AMF (and gRPC ports of its servers)
    MaxUeCount,  \* bound on the UE identifiers the AMF hands out
    MaxCalls     \* bound on the calls one worker makes to the SMF

ASSUME LinksAssumption ==
    /\ RanNum \subseteq 0 .. (TEID_RANGE - 1)
    /\ RanNum # {}
    /\ MaxRuns \in Nat \ {0}
    /\ NWorkers \in Nat \ {0}
    /\ MaxUeCount \in Nat
    /\ MaxCalls \in Nat \ {0}

Worker == 0 .. (NWorkers - 1)

\* One connection per UE thread and run of the simulator process.
Conn    == RanNum \X (1 .. MaxRuns)
UeOf(c) == c[1]

\* Zero is "not found", the value of a default-constructed field.
ImsiSet == {Imsi(n) : n \in RanNum} \cup {0}
GutiSet == {Guti(n) : n \in RanNum} \cup {0}
TeidSet == {Teid(n) : n \in RanNum} \cup {0}
MmeId   == 0 .. MaxUeCount

VARIABLES
    up,      \* up[c]: packets from the RAN thread of c to the AMF (a TCP stream)
    down,    \* down[c]: packets from the AMF to the RAN thread of c
    conn,    \* conn[c]: the RAN's end of the connection
    rpc,     \* rpc[w]: the gRPC call of AMF worker w
    calls,   \* calls[w]: N4 sockets the SMF has created for worker w's calls
    n4req,   \* datagrams on their way to the UPF's N4 socket
    n4rsp,   \* datagrams in the receive buffers of the SMF's N4 sockets
    exited   \* processes that left through handle_type1_error

linkVars == <<up, down, conn, rpc, calls, n4req, n4rsp, exited>>

Process == {"amf", "smf", "upf"}

(***************************************************************************)
(* S1AP packets: the header's message type and the AMF's UE identifier,    *)
(* and what the body carries that another component stores.                *)
(***************************************************************************)
S1apMsg == [type : 1 .. 5, id : MmeId, imsi : ImsiSet, guti : GutiSet,
            teid : TeidSet, ip : ImsiSet]

\* An address is written as the IMSI it is provisioned for, zero if empty.
S1ap(type, id) ==
    [type |-> type, id |-> id, imsi |-> 0, guti |-> 0, teid |-> 0, ip |-> 0]

\* Mutant of ServerSnd: the packet is written again after a complete write.
SndTwice(c, m) ==
    down' = IF conn[c] = "open" THEN [down EXCEPT ![c] = @ \o <<m, m>>] ELSE down

\* A write on a connection whose peer is gone only prints (handle_type2_error).
ServerSnd(c, m) ==
    down' = IF conn[c] = "open" THEN [down EXCEPT ![c] = Append(@, m)] ELSE down

ClientSnd(c, m) == up' = [up EXCEPT ![c] = Append(@, m)]

(***************************************************************************)
(* A gRPC call: "req" when the client has called, "busy" while the server  *)
(* handles it, "rep" when the client's call has returned.                  *)
(***************************************************************************)
AusfOp == {"autn", "loc"}
SmfOp  == {"create", "modify", "detach"}

RpcSlot == [st : {"idle", "req", "busy", "rep"}, op : AusfOp \cup SmfOp \cup {"none"},
            guti : GutiSet, imsi : ImsiSet, teid : TeidSet,
            ul : TeidSet, ip : ImsiSet, res : BOOLEAN]

NoCall == [st |-> "idle", op |-> "none", guti |-> 0, imsi |-> 0, teid |-> 0,
           ul |-> 0, ip |-> 0, res |-> FALSE]

\* The client's request: the identifiers it fills in.
Call(op, guti, imsi, teid) ==
    [NoCall EXCEPT !.st = "req", !.op = op, !.guti = guti, !.imsi = imsi, !.teid = teid]

(***************************************************************************)
(* N4.  A socket is created by each call the SMF serves, so a response     *)
(* that comes after the caller gave up finds the socket closed.            *)
(***************************************************************************)
Sock  == Worker \X (1 .. MaxCalls)

\* The socket of worker w's latest call, and whether it is still open.
SockOf(w) == <<w, calls[w]>>
Open(s)   == /\ s = SockOf(s[1])
             /\ rpc[s[1]].st = "busy"
             /\ rpc[s[1]].op \in SmfOp

N4Req == [op : SmfOp, sock : Sock, teid : TeidSet, imsi : ImsiSet, dl : TeidSet]
N4Rsp == [sock : Sock, teid : TeidSet, ip : ImsiSet, ul : TeidSet, res : BOOLEAN]

LinksTypeOK ==
    /\ up \in [Conn -> Seq(S1apMsg)]
    /\ down \in [Conn -> Seq(S1apMsg)]
    /\ conn \in [Conn -> {"new", "open", "closed"}]
    /\ rpc \in [Worker -> RpcSlot]
    /\ calls \in [Worker -> 0 .. MaxCalls]
    /\ n4req \subseteq N4Req
    /\ n4rsp \subseteq N4Rsp
    /\ exited \subseteq Process

LinksInit ==
    /\ up = [c \in Conn |-> <<>>]
    /\ down = [c \in Conn |-> <<>>]
    /\ conn = [c \in Conn |-> "new"]
    /\ rpc = [w \in Worker |-> NoCall]
    /\ calls = [w \in Worker |-> 0]
    /\ n4req = {}
    /\ n4rsp = {}
    /\ exited = {}
=============================================================================
