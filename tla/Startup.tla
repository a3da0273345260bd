------------------------------ MODULE Startup ------------------------------
(***************************************************************************)
(* How AUSF, SMF and AMF start (the constructors Ausf, Smf and Amf and the *)
(* main programs): registration with Consul, discovery of the peers, the   *)
(* gRPC servers with one port per worker, the database, and the first      *)
(* requests.  A process may be killed and started again, and Consul may be *)
(* out of reach.                                                           *)
(***************************************************************************)
EXTENDS Naturals, FiniteSets

CONSTANTS
    AmfThreads, AusfThreads, SmfThreads,  \* first argument of each program
    LastPort,      \* 65535
    MaxCrash,      \* bound on the kills
    MaxOutage,     \* bound on the outages of Consul
    MysqlUp        \* the database accepts the connection

Proc == {"ausf", "smf", "amf"}

ASSUME StartupAssumption ==
    /\ {AusfThreads, SmfThreads, LastPort, MaxCrash, MaxOutage} \subseteq Nat
    /\ AmfThreads \in Nat \ {0}
    /\ MysqlUp \in BOOLEAN

Threads(p) == CASE p = "amf" -> AmfThreads [] p = "ausf" -> AusfThreads [] p = "smf" -> SmfThreads
Worker     == 0 .. (AmfThreads - 1)       \* the AMF's
ServerThread(p) == 0 .. (Threads(p) - 1)
NoAddress  == "none"      \* the empty string
Addr(p)    == p           \* the address of p's container

\* The gRPC servers of a program: RunServer, RunServer1 and RunServer2 of the SMF.
Groups(p)  == IF p = "smf" THEN {5005, 5006, 5007} ELSE {5005}

\* "0.0.0.0:5005" + to_string(worker_id).
GrpcPort(g, w) == IF w < 10 THEN g * 10 + w ELSE g * 100 + w

VARIABLES
    pc,           \* pc[p]: where the start of p is
    why,          \* why[p]: what ended p
    registry,     \* Consul: service -> address
    consulUp, outages, crashes,
    listening,    \* <<p, port>>: the gRPC servers that run
    mysql,        \* the AUSF's connection to the database
    found,        \* found[q]: g_ausf_ip_addr and smf_amf_ip_addr of the AMF
    dialled,      \* loop variable of the AMF's run()
    request,      \* request[w]: what AMF worker w does
    orphaned      \* history: the AUSF was killed since the AMF connected to it

startVars == <<pc, why, registry, consulUp, outages, crashes, listening, mysql, found, dialled,
               request, orphaned>>
consul    == <<registry, consulUp, outages>>
amfVars   == <<found, dialled, request, orphaned>>

Steps     == {"off", "dereg", "register", "fetch", "refetch", "spawn", "mysql", "conn", "up", "exited"}
Reasons   == {"none", "consul", "address", "port", "mysql_conn", "mysql_query"}
Spawned   == {"mysql", "conn", "up"}       \* main() has started the server threads
Started   == {"fetch", "refetch", "spawn"} \cup Spawned    \* and here p has registered

StartTypeOK ==
    /\ pc \in [Proc -> Steps] /\ why \in [Proc -> Reasons]
    /\ registry \in [Proc -> {Addr(p) : p \in Proc} \cup {NoAddress}]
    /\ consulUp \in BOOLEAN /\ outages \in 0 .. MaxOutage /\ crashes \in 0 .. MaxCrash
    /\ listening \subseteq Proc \X (0 .. LastPort)
    /\ mysql \in BOOLEAN
    /\ found \in [{"ausf", "smf"} -> {Addr(p) : p \in Proc} \cup {NoAddress}]
    /\ dialled \in 0 .. AmfThreads
    /\ request \in [Worker -> {"none", "autn", "done"}]
    /\ orphaned \in BOOLEAN

StartInit ==
    /\ pc = [p \in Proc |-> "off"] /\ why = [p \in Proc |-> "none"]
    /\ registry = [p \in Proc |-> NoAddress]
    /\ consulUp = TRUE /\ outages = 0 /\ crashes = 0
    /\ listening = {}
    /\ mysql = FALSE
    /\ found = [q \in {"ausf", "smf"} |-> NoAddress]
    /\ dialled = 0
    /\ request = [w \in Worker |-> "none"]
    /\ orphaned = FALSE

Goto(p, l) == pc' = [pc EXCEPT ![p] = l] /\ UNCHANGED why

\* The process is gone, and with it its sockets; its entry in Consul stays.
Gone(p) ==
    /\ listening' = {s \in listening : s[1] # p}
    /\ mysql' = (mysql /\ p # "ausf")

\* handle_type1_error(), exit() or a crash.
Exit(p, reason) ==
    /\ pc' = [pc EXCEPT ![p] = "exited"]
    /\ why' = [why EXCEPT ![p] = reason]
    /\ Gone(p)

-----------------------------------------------------------------------------
(***************************************************************************)
(* The constructors.                                                       *)
(***************************************************************************)
\* The operator starts a program, or starts it again.
Launch(p) ==
    /\ pc[p] = "off"
    /\ Goto(p, "dereg")
    /\ IF p = "amf"
       THEN /\ found' = [q \in {"ausf", "smf"} |-> NoAddress]
            /\ dialled' = 0
            /\ request' = [w \in Worker |-> "none"]
            /\ orphaned' = FALSE
       ELSE UNCHANGED amfVars
    /\ UNCHANGED <<consul, crashes, listening, mysql>>

\* A failure is only a warning.
deregisterService(p) ==
    /\ pc[p] = "dereg"
    /\ registry' = IF consulUp THEN [registry EXCEPT ![p] = NoAddress] ELSE registry
    /\ Goto(p, "register")
    /\ UNCHANGED <<consulUp, outages, crashes, listening, mysql, amfVars>>

\* A failure ends the program.
serviceRegister(p) ==
    /\ pc[p] = "register"
    /\ IF consulUp
       THEN /\ registry' = [registry EXCEPT ![p] = Addr(p)]
            /\ Goto(p, IF p = "amf" THEN "fetch" ELSE "spawn")
            /\ UNCHANGED <<listening, mysql>>
       ELSE Exit(p, "consul") /\ UNCHANGED registry
    /\ UNCHANGED <<consulUp, outages, crashes, amfVars>>

\* What /v1/agent/services says; nothing, if Consul does not answer.
Service(q) == IF consulUp THEN registry[q] ELSE NoAddress

\* Amf::Amf(): both peers.
Fetch ==
    /\ pc["amf"] = "fetch"
    /\ found' = [q \in {"ausf", "smf"} |-> Service(q)]
    /\ Goto("amf", "refetch")
    /\ UNCHANGED <<consul, crashes, listening, mysql, dialled, request, orphaned>>

\* main(): the AUSF once more.
Refetch ==
    /\ pc["amf"] = "refetch"
    /\ found' = [found EXCEPT !["ausf"] = Service("ausf")]
    /\ Goto("amf", "spawn")
    /\ UNCHANGED <<consul, crashes, listening, mysql, dialled, request, orphaned>>

-----------------------------------------------------------------------------
(***************************************************************************)
(* main().                                                                 *)
(***************************************************************************)
\* The threads of the gRPC servers are created; run() goes on at once.
SpawnServers(p) ==
    /\ pc[p] = "spawn"
    /\ Goto(p, CASE p = "ausf" -> "mysql" [] p = "amf" -> "conn" [] p = "smf" -> "up")
    /\ UNCHANGED <<consul, crashes, listening, mysql, amfVars>>

\* A thread builds its server.  Without a port BuildAndStart() returns a null
\* pointer, and Wait() through it ends the program.
RunServer(p, g, w) ==
    /\ pc[p] \in Spawned
    /\ LET port == GrpcPort(g, w)
       IN  /\ <<p, port>> \notin listening
           /\ IF port <= LastPort
              THEN listening' = listening \cup {<<p, port>>} /\ UNCHANGED <<pc, why, mysql>>
              ELSE Exit(p, "port")
    /\ UNCHANGED <<consul, crashes, amfVars>>

\* The AUSF's run(): the database first, then the server on port 6000.
handle_mysql_conn ==
    /\ pc["ausf"] = "mysql"
    /\ IF MysqlUp
       THEN mysql' = TRUE /\ Goto("ausf", "up") /\ UNCHANGED listening
       ELSE Exit("ausf", "mysql_conn")
    /\ UNCHANGED <<consul, crashes, amfVars>>

\* Mutants of conn: the AMF does not wait for the AUSF, or gives up.
NoConn ==
    /\ pc["amf"] = "conn"
    /\ dialled' = AmfThreads /\ Goto("amf", "up")
    /\ UNCHANGED <<consul, crashes, listening, mysql, found, request, orphaned>>

ConnOnce ==
    /\ pc["amf"] = "conn"
    /\ IF \E q \in {"ausf", "smf"} : found[q] = NoAddress
       THEN Exit("amf", "address") /\ UNCHANGED dialled
       ELSE IF pc["ausf"] = "up"
       THEN /\ dialled' = dialled + 1
            /\ IF dialled + 1 >= AmfThreads THEN Goto("amf", "up") ELSE UNCHANGED <<pc, why>>
            /\ UNCHANGED <<listening, mysql>>
       ELSE Exit("amf", "address") /\ UNCHANGED dialled
    /\ UNCHANGED <<consul, crashes, found, request, orphaned>>

\* The AMF's run(): every worker's connections.  An empty address ends the
\* program; a refused connection is tried again until the AUSF listens.
conn ==
    /\ pc["amf"] = "conn"
    /\ IF \E q \in {"ausf", "smf"} : found[q] = NoAddress
       THEN Exit("amf", "address") /\ UNCHANGED dialled
       ELSE /\ pc["ausf"] = "up"
            /\ dialled' = dialled + 1
            /\ IF dialled + 1 >= AmfThreads THEN Goto("amf", "up") ELSE UNCHANGED <<pc, why>>
            /\ UNCHANGED <<listening, mysql>>
    /\ UNCHANGED <<consul, crashes, found, request, orphaned>>

-----------------------------------------------------------------------------
(***************************************************************************)
(* The first requests.                                                     *)
(***************************************************************************)
handle_ue(w) ==
    /\ pc["amf"] = "up" /\ request[w] = "none"
    /\ request' = [request EXCEPT ![w] = "autn"]
    /\ UNCHANGED <<pc, why, consul, crashes, listening, mysql, found, dialled, orphaned>>

\* AmfAusfInteraction: the call fails if no server listens on the port, and
\* the handler queries the database, which ends the AUSF if it is not connected.
AmfAusfInteraction(w) ==
    /\ pc["amf"] = "up" /\ request[w] = "autn"
    /\ request' = [request EXCEPT ![w] = "done"]
    /\ IF <<"ausf", GrpcPort(5005, w)>> \in listening /\ ~mysql
       THEN Exit("ausf", "mysql_query")
       ELSE UNCHANGED <<pc, why, listening, mysql>>
    /\ UNCHANGED <<consul, crashes, found, dialled, orphaned>>

-----------------------------------------------------------------------------
\* A program is killed; one that ended by itself is made ready to start again.
Crash(p) ==
    /\ pc[p] # "off" /\ crashes < MaxCrash
    /\ crashes' = crashes + 1
    /\ Goto(p, "off")
    /\ Gone(p)
    /\ request' = IF p = "amf" THEN [w \in Worker |-> "none"] ELSE request
    /\ orphaned' = (orphaned \/ (p = "ausf" /\ dialled > 0))
    /\ UNCHANGED <<consul, found, dialled>>

ConsulChanges ==
    /\ IF consulUp THEN outages < MaxOutage /\ outages' = outages + 1 ELSE UNCHANGED outages
    /\ consulUp' = ~consulUp
    /\ UNCHANGED <<pc, why, registry, crashes, listening, mysql, amfVars>>

\* A program, from its constructor to the end of run().
Ausf == deregisterService("ausf") \/ serviceRegister("ausf") \/ SpawnServers("ausf") \/ handle_mysql_conn
Smf  == deregisterService("smf") \/ serviceRegister("smf") \/ SpawnServers("smf")
Amf  == \/ deregisterService("amf") \/ serviceRegister("amf") \/ Fetch \/ Refetch
        \/ SpawnServers("amf") \/ conn

Server(p, w) == \E g \in Groups(p) : RunServer(p, g, w)

StartNext ==
    \/ \E p \in Proc : Launch(p) \/ Crash(p) \/ \E w \in ServerThread(p) : Server(p, w)
    \/ \E w \in Worker : handle_ue(w) \/ AmfAusfInteraction(w)
    \/ Ausf \/ Smf \/ Amf \/ ConsulChanges

StartSpec == StartInit /\ [][StartNext]_startVars

\* The operator starts all programs; their threads run.
StartFair ==
    /\ \A p \in Proc : WF_startVars(Launch(p))
    /\ WF_startVars(Ausf) /\ WF_startVars(Smf) /\ WF_startVars(Amf)
    /\ \A p \in Proc : \A w \in ServerThread(p) : WF_startVars(Server(p, w))

-----------------------------------------------------------------------------
(***************************************************************************)
(* Properties.                                                             *)
(***************************************************************************)
\* The AUSF's gRPC servers run before its database is connected.  No request
\* reaches them that early from an AMF that was started after the AUSF, because
\* the AMF takes UEs only after it connected to port 6000, which the AUSF opens
\* last.  An AMF that outlives its AUSF does not connect again: its next request
\* may find the new AUSF without a database, and end it.
NoEarlyQuery ==
    pc["amf"] = "up" /\ ~mysql
        /\ (\E w \in Worker : request[w] = "autn" /\ <<"ausf", GrpcPort(5005, w)>> \in listening)
    => orphaned

\* A program that has registered and still runs is in Consul under its own
\* address, whatever was left there by an earlier instance and whenever Consul
\* was out of reach.
RegisteredWhileUp == \A p \in Proc : pc[p] \in Started => registry[p] = Addr(p)

\* An AMF that takes UEs knows the addresses of both peers; a discovery that
\* came too early ends it before it listens.
PeersKnown == pc["amf"] = "up" => \A q \in {"ausf", "smf"} : found[q] = Addr(q)

\* The ports the AMF's workers dial.
Dialled == {<<"ausf", GrpcPort(5005, w)>> : w \in Worker}
           \cup {<<"smf", GrpcPort(g, w)>> : g \in {5005, 5006, 5007}, w \in Worker}

\* Whatever the order in which the programs are started, killed and started
\* again, the AUSF included, and whenever Consul is out of reach.
StartsSafely == StartTypeOK /\ NoEarlyQuery /\ RegisteredWhileUp /\ PeersKnown

\* The README's order: the AMF is started when its peers have registered.
StartedInOrder ==
    /\ [](crashes = 0 /\ outages = 0)
    /\ [](pc["amf"] # "off" => registry["ausf"] # NoAddress /\ registry["smf"] # NoAddress)
    /\ <>(pc["amf"] # "off")

\* Started in the order of the README, the core comes up: the AMF takes UEs and
\* every port its workers dial is served.
CoreComesUp == StartedInOrder => <>(pc["amf"] = "up" /\ Dialled \subseteq listening)
=============================================================================
