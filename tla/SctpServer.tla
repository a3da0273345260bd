----------------------------- MODULE SctpServer -----------------------------
(***************************************************************************)
(* The AMF's server for RAN connections (sctp_server.cpp, over TCP): the   *)
(* accepting thread deals connections to the workers in turn, and a worker *)
(* handles one packet at a time of the connections it owns.                *)
(***************************************************************************)
EXTENDS Links

VARIABLES
    turn,   \* the worker the next connection goes to
    owner   \* owner[c]: the worker that serves connection c

sctpVars == <<turn, owner>>

NoWorker  == NWorkers      \* not accepted yet
NoLonger  == NWorkers + 1  \* closed by its worker

SctpTypeOK ==
    /\ turn \in Worker
    /\ owner \in [Conn -> Worker \cup {NoWorker, NoLonger}]

SctpInit ==
    /\ turn = 0
    /\ owner = [c \in Conn |-> NoWorker]

\* Mutant of accept_clients: the turn does not wrap around.
AcceptNoWrap(c) ==
    /\ "amf" \notin exited
    /\ conn[c] # "new"
    /\ owner[c] = NoWorker
    /\ owner' = [owner EXCEPT ![c] = turn]
    /\ turn' = turn + 1
    /\ UNCHANGED linkVars

accept_clients(c) ==
    /\ "amf" \notin exited
    /\ conn[c] # "new"
    /\ owner[c] = NoWorker
    /\ owner' = [owner EXCEPT ![c] = turn]
    /\ turn' = (turn + 1) % NWorkers
    /\ UNCHANGED linkVars

\* worker_func() calls the handler for a connection of w that has a packet,
\* and the handler's server.rcv() takes the packet.
ServerRcv(w, c) ==
    /\ owner[c] = w
    /\ up[c] # <<>>
    /\ up' = [up EXCEPT ![c] = Tail(@)]

\* The RAN closed its end: rcv() returns an empty packet (or an error that
\* loses what was unread), the handler 0, and the worker closes c.
CloseConn(w, c) ==
    /\ owner[c] = w
    /\ conn[c] = "closed"
    /\ owner' = [owner EXCEPT ![c] = NoLonger]
    /\ up' = [up EXCEPT ![c] = <<>>]
=============================================================================
