# SBA-gRPC-5G: TLA+ models of the core, its load balancer and its Consul client

The repository is a 5G core in C++: a RAN simulator, an AMF, an AUSF, an SMF
and a UPF, which talk S1AP over TCP, gRPC, and GTP-like datagrams over UDP; a
load balancer in Go; `ppconsul`, the client library through which the programs
reach Consul; and demonstrations of gRPC.  This directory holds TLA+ modules of
them, the TLC configurations that check these on small instances, and TLAPS
proofs for every instance.

## The system

| Component | State | Operations | Talks to |
|---|---|---|---|
| RAN simulator (`ran.cpp`, `ran_simulator.cpp`) | one thread and one `RanContext` per UE; `TrafficMonitor` | `simulate()`: connect, attach, authenticate, set security, set session, transfer data, detach, again | AMF over one TCP connection per UE |
| S1AP server (`sctp_server.cpp`) | which worker owns which connection | `accept_clients`, `worker_func`, `snd`, `rcv` | used by the AMF |
| AMF (`amf.cpp`, `amf_server.cpp`) | `ue_count`, `s1amf_id`, `ue_ctx`, two mutexes | `handle_ue` and a handler per message type 1 to 5 (7 to 10: handover) | RAN; AUSF and SMF by blocking gRPC calls, one port per worker |
| AUSF (`ausf.cpp`) | database tables behind one mutex | `handle_autninfo_req`, `handle_location_update` | AMF, MySQL |
| SMF (`smf.cpp`) | `ue_ctx`, one mutex | `handle_create_session`, `handle_modify_bearer`, `handle_detach` | AMF; UPF over a new UDP socket per call, five-second receive time-out |
| UPF (`upf.cpp`) | `s11_id`, `s1_id`, `sgi_id`, `ue_ctx`, a mutex each | create, modify, detach, indirect tunnels; user data | SMF, RAN, sink |
| Streams and packets (`network.cpp`, `packet.cpp`, `security.cpp`) | a buffer with two lengths; fixed keys | length-prefixed reads and writes, `append_item`, `extract_item`, headers, encryption, HMAC | RAN, AMF, UPF |
| User plane (`ran.cpp`, `upf.cpp`, `sink.cpp`, `tun.cpp`) | `uplink_info`, the UPF's tables | forwarding between tun devices and GTP sockets | RAN, UPF, sink |
| Load balancer (`grpclb`) | cache of services, a refresh loop each | `Servers`, `Reset`, `Close`; `Resolve` of the discovery | Consul |
| Consul client (`ppconsul`) | a libcurl handle per client | agent, key-value store; JSON and Base64 below them | Consul |
| Demonstrations (`greeter_async_*.cc`, `client.cpp`, `server.cpp`, `grpc.classes.cpp`) | a `CallData` per call; counters | asynchronous server and client; rounds of timed calls | balancer, each other |

What is hard in it, and what makes it correct:

* Handlers of several UEs run at once and touch shared tables in several
  critical sections.  A detach is answered *before* the tables are cleaned, in
  the AMF and in the UPF, so the UE's next attach races the clean-up.  The AMF
  has to find the guti of every packet, the UPF the IMSI of every tunnel: when
  they do not, `handle_type1_error` ends the process, and with it the sessions
  of all UEs.
* Nobody looks at message types on the RAN's side, so correctness rests on
  answers and requests staying in step.
* A gRPC call that fails returns a packet whose reply fields were never
  initialised; an N4 response that is lost leaves a packet of zeros, and zero
  is also UE 0's tunnel.
* In the load balancer two requests that miss the cache both start a refresh
  goroutine; the loser has to close its own and wait for it, while `Reset` may
  be closing the cached ones and the goroutines may be asking Consul.
* A handover changes a UE's tunnels in three exchanges between two RANs, the AMF
  and the UPF, over datagrams that nobody repeats and that go to a port where the
  UPF does not listen, and gives the indirect tunnel the number of a neighbour's.
* A stream cuts packets anywhere; a message is a sequence of items whose types
  only the two ends' code agree on.
* User packets look tables up in several steps while sessions come and go, and
  a UE may be back while its last session is still being removed.
* libcurl keeps every option of a request that threw; an answer of Consul may be
  lost after its store was changed.
* Counters are added to with and without the mutex that is there for them.
* The simulator may be stopped and started with packets unread and handlers
  under way; every attach of a UE has the same guti.

`PROJECT.json` lists each hazard at its line, with the properties against it.

## Modules

| Module | Models | State and actions |
|---|---|---|
| `Telecom` | `telecom.cpp` | identifier arithmetic; the numbers of digits are constants, so that TLC's integers suffice |
| `Links` | sockets, `GreeterClient`, `Packet` | TCP streams `up`, `down`; gRPC calls `rpc[w]`; N4 datagrams `n4req`, `n4rsp`; processes that `exited` |
| `Ran` | `Ran`, `simulate()` | an action per method; `detach` is two (request, response); `RanRestart` |
| `SctpServer` | `sctp_server.cpp` | `turn`, `owner`; `accept_clients`, `ServerRcv`, `CloseConn` |
| `Amf` | `amf.cpp`, `amf_server.cpp` | the two tables, a program counter and the handler's locals per worker; each handler cut where another thread sees the difference: at a critical section on shared data, at a remote call, at a send |
| `Ausf` | `ausf.cpp` | rows of the location table; an action per query under the mutex |
| `Smf` | `smf.cpp` | context table; request, receive, time-out |
| `Upf` | `upf.cpp` | the four tables, a program counter and locals per N4 thread; one action per critical section |
| `Core5G` | all of them | the composition, N4 loss and time-out, the properties |
| `MCCore5G` | | `Core5G` for TLC, symmetry of UPF threads |
| `Core5GProofs`, `IdentityProofs`, `SessionProofs` | | theorems of `Core5G`: types, identifiers, sessions |
| `GrpcLb` | `grpclb/balancer` | cache, services with their loops, a program counter and locals per request and for `Reset`; one action per critical section, channel operation or query of Consul |
| `MCGrpcLb`, `LbProofs` | | `GrpcLb` for TLC, its theorems |
| `UeIds` | `ue_count`, `s1amf_id` | the AMF's identifiers with their width as a constant, up to and over the wrap |
| `Handover` | types 7 to 10 of `ran.cpp`, `amf.cpp`, types 4 to 6 of `upf.cpp` | source and target RAN per UE, the AMF's connections, `s1_id`, `ho_ue_ctx`, downlinks; the ports of AMF and UPF; an action per critical section, connection, send and receive; loss and time-out, early ones too |
| `HandoverProofs` | | its theorems |
| `RanSched` | `ran_simulator.cpp` | clock, a program counter per thread, mutex, totals, main's create and join loops |
| `RegMetrics` | | abstract: threads add registrations to a total, each at once |
| `PktStream` | `network.cpp`, `sctp_client.cpp`, `sctp_server.cpp` | bytes in the writer's buffer, the connection and the reader's; partial `read` and `write`, `EPERM` at any byte, end of file; `sent`, `cut` and `spoilt` are history |
| `MsgChannel` | | abstract: whole packets arrive in order, and do, until one is begun again |
| `NasPacket` | `packet.cpp`, `security.cpp`, the messages in `ran.cpp`, `amf.cpp`, `upf.cpp` | one packet and its receiver's reading of it, message after message; a cell is an item with its C++ type, a cipher or MAC is a cell around others |
| `IpPool` | `Upf::set_ip_addrs` | the loop over hosts and subnets |
| `DataPlane` | traffic monitors, UPF threads, sink | four tables, the N4 threads with their handlers, the place of every packet; one action per critical section and lookup |
| `Startup` | constructors and main programs of AMF, SMF, AUSF | a program counter per program, Consul's registry, ports; kill and restart of each, outage |
| `HttpClient` | `curl/http_client.cpp`, TLS options of `consul.h` | the options of the handle, the list of `setopt` still to make, the callbacks' pointers |
| `ConsulParams`, `ConsulKv` | `kwargs.h`, `parameters.h`, `kv.h` | requests of several clients, Consul's store (external), lost requests and answers |
| `ConsulRegistry` | `agent.h`, `agent.cpp`, `encodeUrl`, `discovery/consul/consul.go` | Consul's services and checks (external), what the calls asked for, the balancer's query and filter |
| `Json11` | `json11.cpp` | the parser as a stack of frames over a text of tokens; `dump` |
| `JsonScalars` | `json11.cpp` | `parse_string`, `parse_number` with its value, `encode_utf8` and the printing of strings over bytes |
| `Base64` | `cencode.c`, `cdecode.c`, `decodeBase64` | the two state machines with their steps, blocks cut anywhere, the decoder's buffer |
| `AsyncGreeter` | `greeter_async_server.cc`, `greeter_async_client2.cc` | `CallData` objects at addresses, the completion queue, threads in `HandleRpcs` |
| `SbaDemo` | `client.cpp`, `grpc.classes.cpp`, `server.cpp` | a round of threads, the global sum as a read and a write, the server's counters and their mutex |
| `MCPrograms` | | `RanSched`, `UeIds`, `NasPacket`, `AsyncGreeter` and `SbaDemo` for TLC |
| `ProgramsProofs` | | theorems of `RanSched`, `UeIds`, `AsyncGreeter` and `SbaDemo` |
| `MCUserPlane` | | `PktStream`, `DataPlane`, `Startup` and `IpPool` for TLC |
| `UserPlaneProofs` | | theorems of `DataPlane`, `Startup`, `IpPool` and `PktStream` |
| `MCConsul` | | `HttpClient`, `ConsulKv`, `ConsulRegistry`, `Base64`, `Json11` and `JsonScalars` for TLC |
| `ConsulProofs` | | theorems of `HttpClient`, `ConsulRegistry`, `ConsulKv` and `Base64` |

`MCPrograms`, `MCUserPlane` and `MCConsul` put components that share no state into one run: `unit`, chosen
initially, says which of them a behaviour is about, and the others stay where
they start.

The smaller modules stand alone: each takes from its neighbours what it needs
as inputs.  `DataPlane` takes the SMF's requests for a UE in their order, each after
the answer to the last (`Amf` and `Smf` have what happens between them), `Links`
takes packets as whole (`PktStream` shows that they are, but for an `EPERM` in the
middle of one), `GrpcLb` takes Consul's report for a target
(`ConsulRegistry` shows what it is).

How the code was cut into actions:

* Two critical sections that follow each other without a send or a call, where
  the later one only reads or touches the entry the earlier one used, are one
  action (for instance `set_upf_info` and the section after it).
* `ue_ctx[guti]` in C++ makes a missing entry; `Touch` is that, wherever a
  handler only reads.
* A handler that returns resets its locals and its call (`Return`,
  `UpfReturn`): dead variables, so that states do not differ by them.
* An address is written as the IMSI it is provisioned for (`set_ip_addrs`),
  zero for the empty string.
* `RpcFail` picks any value for the fields only a reply fills in: reading them
  is reading uninitialised memory.  A call fails before its server takes it;
  a connection that breaks while the handler runs is not modelled.
* The bound on the N4 time-out is a budget (`MaxLate`) only while a response
  can still come; when none can, the time-out is free.
* Time is left out.  `simulate()` may begin another round whenever the last one
  is over: rounds follow each other within the second a thread is scheduled in
  when `transfer_data`'s `iperf3` returns at once, and a restart begins anew.

Left out of the modelled handlers, and why that is sound: authentication and
HMAC results (`security.cpp` ignores the key arguments and `handle_autn` accepts
a mismatch, so no check changes control); `default` cases of the switches
(no component sends such a type); the end-of-file branches of `Ran`'s receives
(the AMF never exits, which is proved, and it closes no connection the RAN has
open); the reads of `ue_ctx` outside the mutex in `smf.cpp:231-235` and the
unlocked global string in `amf.cpp:853`, taken to return what was written.

In `GrpcLb` a server is no more than what the balancer looks at: no tags, a
load, or tags without a load.  The round-robin branches are left out, since
`norm()` sets `IsRoundRobin` to false; so is a request with an empty target,
which changes nothing.  A refresh that fails is no step: it changes nothing.
`newService`'s first query and store are one action, since nobody else has the
service yet.  What `discovery/consul` returns for a target is `registry`.

In the other modules: a data race is a nondeterministic outcome (`Handover`:
an erase of `ho_ue_ctx` that overlaps an insertion may lose it; `RanSched` and
`SbaDemo`: an unlocked increment is a read and a later write); an object made by
`operator[]` and never assigned is a value no UE has; the RAN's side of a
handover is driven as its comments describe, since no main program calls it, and
the listener for the AMF's connections to the RANs is there from some time on or
never;
Consul, gRPC's runtime and libcurl are external and do what the calls of the
source rely on.  `meant` and `said` of `ConsulRegistry`, `wins` and `seen` of
`ConsulKv`, `averaged` of `SbaDemo`, `given` and `late` of `UeIds`, `overlapped` of
`DataPlane`, `orphaned` of `Startup` and `missed` of `Handover` are history: no action
of the code reads them.

## Runs

The `Core` runs and `UpfReattach` are of `MCCore5G`, the `Lb` runs of `MCGrpcLb`,
the `Ho` runs of `Handover`, the others of the module `MC` and their name.  In all
of them the number of rounds, calls, services, packets or changes is bounded, so
the models stop when these are used up, and deadlock is not checked; that
nobody waits for ever is what the liveness properties say.

| Run | Instance | Checks |
|---|---|---|
| `CoreReattach` | 2 UEs, 2 attach rounds each, 2 AMF workers, 1 N4 thread, no faults | `TypeOK`; `NoExit`: no process leaves through `handle_type1_error`; `AnswersInStep`; `NothingLeft` after all have detached; `CreatedMeansStored`: a worker's call is about its UE, and a session reported is in the UPF; `OwnSessionOnly`: a detach takes neither another UE's session nor the one the UE has got by attaching again |
| `CoreSessions` | 2 UEs, 1 round, 2 workers, 2 N4 threads, fairness | `SessionAgreed` and `DownlinkForwarded` while data is transferred; `AttachCompletes`, `DetachCompletes` |
| `CoreFaults` | 1 UE, 2 runs of the simulator, 2 workers, 2 N4 threads, one failed gRPC call, one lost datagram | `NoAmfExit`, `IdsResolve` |
| `LbCache` | 2 targets, 2 requests at a time, 3 services, one change of Consul's report or outage, one `Reset` | `NoLoopLeaked`, `ClosedOnce`, `OneService` |
| `LbLive` | 1 target, 2 requests, lists of servers with and without loads, 2 changes (an outage and its end, or new reports), fairness | `BalanceLeast`: the balancer's loop against the definition of a least loaded server; `RequestsAnswered`, `CacheConverges` |
| `Handover` | 2 UEs with neighbouring tunnels, 2 N4 threads, an AMF that sends to the UPF's port or to that of the code, one lost datagram or early time-out, fairness | `TunnelsKept`, `MakeBeforeBreak`, `HandoverEnds` |
| `Programs` | see below | `CountsAtOnce`, `ResultsFinal`, `IdLeadsHome`, `PacketsAgree`, `ObjectsOwned`, `CountsOnce` |
| `UserPlane` | see below, fairness | `ImplementsChannel`, `OwnTunnel`, `NoGhostContext`, `AnswerArrives`, `StartsSafely`, `CoreComesUp`, `AddressesDiffer` |
| `Consul` | see below | `CallsIndependent`, `KvReliable`, `RegistryFaithful`, `CodeKeepsValue`, `ReadsJson`, `ReadsScalars` |
| `UpfReattach`, `LbNoServer`, `HoPort` | as small as they can be | one violated property each, see below |

What a run leaves to another: the re-attach is in `CoreReattach` (one N4 thread)
and in `UpfReattach` (two, where the UPF exits), not in `CoreSessions`; a restart of
the simulator, a failed call and a lost datagram are in `CoreFaults` only.
`DownlinkForwarded` says that a downlink packet is forwarded; on which tunnel is
`OwnTunnel` of `DataPlane`.

`Handover`.  `TunnelsKept`: when every call gets its answer every UE's tunnel leads
to that UE, the target holds a tunnel of the UE it took over, and nothing of an
indirect tunnel is left when the handover is over, although `ho_ue_ctx` is erased
outside its mutex.  The exception is what the code does to a UE's neighbour: the
indirect tunnel is the one after the UE's own, so a UE whose predecessor is being
handed over, or has been, is `Overlaid`.  `MakeBeforeBreak`: whatever is lost, late or
sent to the wrong port, the downlink moves only when the target has said that the
UE is there.  `HandoverEnds`: once a RAN listens, a worker of the AMF is free again,
whatever became of its request, and when every call gets its answer a handover
ends.  With the port of the code (`amf.cpp:65`) no request arrives; what is left is
then the first half of `MakeBeforeBreak` and of `HandoverEnds`.

`Programs`, by unit:

* `RanSched`, 3 threads, a clock of 3 seconds, an array of one start time:
  `CountsAtOnce`, the refinement of `RegMetrics` by the totals under the mutex;
  `ResultsFinal`, that nobody changes what is printed, with the types and the
  bound on the unlocked `stopped_threads` (between one and the number of threads
  that stopped).
* `UeIds`, 3 UEs, 3 identifiers, 7 attaches, so that the counter wraps twice:
  `IdLeadsHome`: a UE's identifier leads to it until as many UEs have attached
  after it as there are identifiers, and 0 is given to nobody before the wrap.
* `NasPacket`, every message, the code's buffer size: `PacketsAgree`: the receiver
  takes out the items that were put in (`ItemsAgree`), deciphers and checks them
  with the sender's keys (`ChecksPass`) and sees its own identifiers in the header
  again (`HeaderEcho`).
* `AsyncGreeter`, 2 calls that may break, 2 threads, 4 addresses: `ObjectsOwned`: no
  tag of the queue or of a thread is of a deleted object (`TagsAlive`), an object
  is waiting for the next call (`AlwaysWaiting`), none is forgotten (`NoLeak`).
* `SbaDemo`, 3 threads with 2 times, 1 round: `CountsOnce`: the client's sum without a
  lock may be short of some times and has none twice (`SumOfSome`); the server's
  averages cover every request once, because both handler and averaging thread
  hold the mutex from their read to their write (`EveryRequestAveraged`).

`UserPlane`, by unit:

* `PktStream`, 3 sends of 2 packets of different size, a length of 2 bytes, one
  `EPERM` before, in or behind any packet: `ImplementsChannel`, the refinement of
  `MsgChannel` with its liveness.
* `DataPlane`, 2 UEs with one packet each, 2 N4 threads, 2 sessions, one loss:
  `OwnTunnel`: uplink datagrams carry the UE's own tunnel, downlink ones go to a
  known eNodeB on tunnel 0; `NoGhostContext`: nothing is left of a UE that was
  removed, unless it came back during the removals; `AnswerArrives` once the sink's
  socket is empty.
* `Startup`, one thread of each server, one kill of any program, one outage of
  Consul: `StartsSafely`: no request reaches the AUSF before its database is
  connected, but from an AMF that outlived an AUSF (`NoEarlyQuery`), what runs is
  registered (`RegisteredWhileUp`), the AMF has its peers' addresses (`PeersKnown`);
  `CoreComesUp` in the order of the repository's README and without kills.
* `IpPool`, 120 subscribers in subnets of 7: `AddressesDiffer`.

`Consul`, by unit:

* `HttpClient`, 2 requests, 2 URLs, data of 0 and 3 bytes, a buffer of 2, an
  exception anywhere: `CallsIndependent`: what is sent is the call's own request
  (`RequestIsCall`), libcurl's callbacks have live buffers (`BuffersLive`), the result
  is the answer to it (`ResultIsAnswer`).
* `ConsulKv`, 2 clients, 3 indices, values up to 3, 1 fault; clients that count by
  compare-and-set, that also set and erase, that lock, and one client with all
  operations on a key and one below it, with and without a token of its own:
  `KvReliable`: a compare-and-set is made once per index (`CasOnce`), no update is lost
  (`NoLostUpdate`), a refusal means that the key changed (`RefusedMeansChanged`), one
  session holds the lock (`LockExclusive`), an absent key is reported as absent
  (`AbsentIsAbsent`), the token sent is that of the call, else that of the `Kv` object,
  which is empty in the run, and none without either (`TokenSent`).
* `ConsulRegistry`, services with ids `a/` and `a%2F`, 3 calls, no check, a TTL or an
  HTTP check, lists of up to 3 tags: `RegistryFaithful`: Consul holds what the calls
  meant (`RegistryIsCalls`), the balancer finds it (`ResolveExact`).
* `Base64`, all texts of up to 4 bytes of 4 values, lines of 4, 2 foreign characters
  put in or line ends and padding left out:
  `CodeKeepsValue`: what is decoded is what was encoded (`RoundTrip`), within the
  buffer (`InBuffer`), with lines of the right length (`LineLength`).
* `Json11`, all texts of up to 4 tokens, objects of up to 4 pieces, arrays up to 5
  deep, texts with comments of up to 5, nested values, `MaxDepth` 2: `ReadsJson`: the
  grammar's texts and no others are accepted (`AcceptsJson`), a field has one value
  (`OneFieldEach`), `dump` is read back (`DumpParses`).
* `JsonScalars`, strings of up to 3 bytes of 9 kinds, up to 4 lexemes of 8, numbers of
  up to 5 characters of 7, an `int` of 7 bits, so that `atoi` and `strtod` are both used:
  `ReadsScalars`: `dump` is read back (`StringRoundTrip`), escapes
  and surrogates are decoded (`EscapesDecoded`), numbers are those of the grammar
  (`NumberGrammar`) and have the value of their text (`NumberValue`).

Why the bounds are enough for the cases that matter: with two rounds a UE's
second attach overlaps the clean-up of its first detach, and with two UEs on
two workers a second UE's handlers run in between; UE 0 is one of them in the
fault-free runs because its tunnel is the number that also means "none".  Two
runs of the simulator put an old and a new connection of the same UE at
different workers.  One fault of each kind can hit every call and datagram of a
round.  In `LbCache` the third service lets a request make one after `Reset`
while two others are being closed.

In `Handover` the UEs are numbered one after the other, as the simulator numbers
them; every datagram of a handover can be the one that is lost, and every call
the one that is given up too early.  In `UeIds` three identifiers and seven attaches
let an identifier be given out a third time while removals of its first use are
still to come.  In `PktStream` the end of the stream falls at every byte of a frame, and
three packets leave one behind and one before the one that is cut.  In
`HttpClient` the first request may throw after any of its options and leave a
complete set or a half behind; a third would find nothing else.  Two clients
and three indices let a compare-and-set be lost, tried again and overtaken.  Two
threads and four addresses let an address be used again while the other thread
is at work on its own.  The parser's frames are all of one shape, so a limit of
two shows the step from one to the next; in the code `MaxDepth` is 200.

Three runs find a property violated that the code states of itself; the
findings in `PROJECT.json` quote the lines.

* `UpfReattach`: two N4 threads and a second attach round.  `Upf::handle_detach`
  answers first and removes afterwards; the second attach's create session goes
  in between, its entry is removed, and its modify bearer ends the UPF ("Zero
  imsi").  With one N4 thread this cannot happen (`CoreReattach`, `NoExit`).
* `LbNoServer`: for a target without healthy servers `Servers` calls `Error()` on
  a nil error, and the panic ends the balancer.
* `HoPort`: the AMF sends its handover requests to port 7300, the UPF listens on
  7000.  The AMF's handler times out, goes on and prints "handover setup
  completed", and nothing was switched.

Other disagreements between the code and what its comments, traces or names
say were met while modelling.  They have no run of their own; the models have
the behaviour, and the properties above are stated so that they hold with it.

* After one lost N4 response the SMF's receive times out, and it reports a
  session as created that the UPF may not have (`CreatedMeansStored` is checked
  without losses).
* After attach and detach the SMF's context is still there, though the handler
  traces "ue entry removed".
* The SMF overwrites the downlink tunnel it was sent by one that is never set;
  the UPF stores and forwards with tunnel 0 (`OwnTunnel` says so), which works because
  the RAN does not look at it.
* `ue_count` has 64 bits, the identifier made of it 32: after 2^32 attaches a UE
  gets identifier 0, which means a new UE, and a UE that stays attached while 2^32
  others attach loses its identifier to the last of them.
* When a call of a handover has no answer the downlink is switched to a tunnel
  that nobody stored (`TunnelsKept` speaks of behaviours in which all have one).
* The indirect tunnel of a UE is the uplink tunnel of the UE with the next number,
  which loses its entry of `s1_id` by it (`Overlaid`).
* After a time-out the AMF still connects to the source RAN, and tries for ever:
  no program of the repository listens there.
* When `errno` is `EPERM` after a part of a packet was written, `snd` writes the whole
  packet again, and the peer reads garbage from there on (`spoilt`).
* A session created while the UPF is still removing the UE's last one may lose
  entries or leave one behind (`overlapped`).
* An AUSF that is started again serves gRPC before it has its database, and an AMF
  that outlived the last one can end it by a request (`orphaned`).
* `simulate()` looks at the duration only while the clock has the second its
  thread is scheduled in: a thread that misses that second polls for ever, main
  waits in its join, and the program never prints.  No termination property is
  therefore stated of `RanSched`.
* The source eNodeB's identifier of a handover request was never set.
* The AMF ignores the default access point the AUSF answers with.
* The types of the client's certificate and key end up as the directory of
  authorities (`CURLOPT_CAPATH`).
* A `Kv` object's empty default hides the token of the `Consul` object, "default token
  for all client requests" in `consul.h:102`; `TokenSent` states what the code does.
* A call that breaks makes `GPR_ASSERT(ok)` end the asynchronous server.
* The unlocked sum of `client.cpp` loses times, and the printed latency with them.

### Fairness

`FairSpec` (`CoreSessions`) gives weak fairness to each thread of each program: the
operating system schedules all of them, none blocks another's progress for ever
(each mutex is held for a bounded section), and gRPC and TCP deliver while both
ends live.  A UE thread need not begin another round (`RanGoesOn` leaves `rounds`
alone); a restart, a failure and a loss are never required.  The run has no
faults because the code does not promise completion with them: a failed detach
is left unanswered and the RAN waits without a time-out.

`LbFairSpec` (`LbLive`) gives weak fairness to the goroutine of each request, to
`Reset` and to each loop's refreshes (its ticker keeps firing).  Strong fairness
of `LoopEnd` is Go's `select`, which chooses at random among the channels that are
ready: a closed `closing` is ready each time the loop comes round.

`HoFairSpec` (`Handover`) gives weak fairness to RANs, AMF connections, N4 threads
and the receive time-out, none to losses, and none to a RAN's listener: that one
comes up is the premise of `HandoverEnds`, since `conn()` tries until then.

`UserPlaneFair` (`UserPlane`) is, for the unit of the behaviour, `StreamFair`: a reader
and a writer whose peer is there; `PlaneFair`: the forwarding threads and the
sink's loop, whose preference for the socket is in its guard; `StartFair`: the
programs' starts and their threads, with the order of the repository's README as
the hypothesis of `CoreComesUp`.  Kills, outages, losses and new packets have none.

`Programs` and `Consul` check safety and need no fairness.

## Proofs

`Core5GProofs!TypeCorrect`: `Spec => []TypeOK`, for all constants that satisfy
the assumptions `TelecomAssumption`, `LinksAssumption`, `RanAssumption`,
`AmfAssumption`, `UpfAssumption` and `CoreAssumption`.  One lemma per action of
a component, one step per component's part of the type invariant.

`IdentityProofs` proves, for the same constants, and so for any number of UEs,
workers, N4 threads, restarts and faults:

* `AmfNeverExits` (`NoAmfExit`): no handler of the AMF finds a zero guti;
* `IdentifiersResolve` (`IdsResolve`): every unread packet's identifier leads to
  the guti of its sender;
* `AnswersMatch` (`AnswersInStep`): a UE thread has at most one packet to read,
  and it is the answer to its request;
* `IdInvariant` (`IdInv`): the inductive invariant behind them.

The argument.  That an identifier is in the table when a handler looks it up is
not inductive: one has to know that nobody else will remove it, and that its
owner is not removing it already.  `IdInv` adds

* `Conversation`: a UE thread and the worker that owns its connection take
  turns.  `RanTurn` says what can be on its way to the AMF for each step of the
  thread, `WorkerTurn` what the thread can be doing for each step of the worker.
  The one place where the thread has the word twice is the detach request,
  which it sends without an answer to its attach complete; the stream keeps the
  two in order, and the worker handles one packet at a time;
* `OwnIds`: an identifier that a packet, a thread or a worker will still look up
  (`Uses`) is in the table for that UE, and no two connections use the same one,
  be it connections of two UEs or of two runs of the simulator.  A fresh
  identifier is above all that were handed out; the only removal is by the
  worker that answered the detach, of its own identifier, which by `Conversation`
  nobody uses any more, since the RAN's next packet is an attach request;
* `AttachImsi`: an attach request carries its sender's IMSI.

An action of AUSF, SMF or UPF leaves the variables of the invariant alone except
for `rpc`, so a few lemmas settle all of them.

`LbProofs` proves, for any number of targets, requests, services and calls of
`Reset`, `LbTypeOK` and the three safety properties of the cache
(`LoopsOwned`, `NeverClosedTwice`, `AnswersFromCache`) through `LbInvariant`.
That `closing` is closed once is not inductive; `LbInv` adds who owns a service.
`OneOwner`: it is in one place of the cache, or with the request that has just
made it, or on `Reset`'s list, and never in two of them.  `ClosedByOwner`: it is
closed only while its owner waits for its loop or after that, and a loop that
is not told to end runs.  From `LbAssumption`; the balancer's choice and what
Consul reports play no part.

`LeastLoadedPicked` (`BalanceLeast`) is about that choice: for every list of servers
the loop of `NewLeastCPUBalancer` ends with a least loaded one, with one without tags
if none has a load, and with none otherwise.  `Balance` is a recursive function over
the turns of the loop; `TurnsFind` says what the loop has found after each of them
(`Found`), for lists of any length.  `ListsAssumption` says that every load is below
the largest float, which the loop gives a server without tags: a server that reports
that load would not take its place.

`SessionProofs` proves the properties of the sessions, for any number of UEs,
AMF workers and attach rounds, under the hypothesis `Reliable`: one run of the
simulator, no failed call, no loss and no time-out, and either one N4 thread or
one attach per UE.  The runs show that the parts of the hypothesis are needed:
with two N4 threads and a second attach the UPF exits (`UpfReattach`), and the
code makes no promise after a fault.

* `NobodyExits` (`NoExit`): no handler of AMF or UPF finds an identifier or a
  tunnel without its owner;
* `SessionsAgree` (`SessionAgreed`), `CreatedStored` (`CreatedMeansStored`),
  `DownlinkReady` (`DownlinkForwarded`): what RAN, AMF, SMF and UPF hold of a UE
  is one session, and it carries its data;
* `NothingIsLeft` (`NothingLeft`): it is gone when all have detached;
* `OwnSessions` (`OwnSessionOnly`): the UPF's removals hit the session of the UE
  that detached;
* `SessionInvariant`: the inductive invariant `SInv` behind them.

The argument.  A step of the UPF is right because of what the datagram says, the
datagram because of what the SMF's handler was called with, the call because of
what the AMF's worker read, and that because of the RAN.  `SInv` adds to `IdInv`
one layer for each: `ConnData` and `WorkerData`, what the packets of a connection
and the locals and the call of a worker carry; `N4Ok`, that a request or response
under way, or a handler of the UPF, stands for exactly one call that waits for it;
`Tables` and `Cleaning`, the UE's entries of the UPF's tables by the step at which
that handler, or the AMF's, is; `Stray`, that no other entry exists; `Bearer`,
`KnownAttached` and `IdsUsed`, what the AMF remembers.  The race between the UPF's
clean-up and the UE's next attach is in `Cleaning`: with a single N4 thread the
next create session is not read until the entries are removed, and with a
single attach there is none.

`HandoverProofs` proves `TunnelsAlwaysKept` (`TunnelsKept`) and `MadeBeforeBroken`
(`MakeBeforeBreak`) from `HandoverInvariant`, for any set of UEs, neighbours
included, any ports, N4 threads, losses and early time-outs, from
`HandoverAssumption` only.  `HoInv` has three layers: `HoData`, what packets and
threads carry of the UE; `HoCalls`, that a datagram or a handler stands for a call of
one AMF connection, perhaps one that was given up; and, as long as every call gets
its answer, `Kept`: a handover stands at one point of a line (`Before`, `After`), and
that point says what the UPF's tables hold (`Tables`), of the UE's own tunnel unless
it is `Overlaid`.  The unlocked erase of `ho_ue_ctx` may lose an insertion that it
overlaps; `Tables` says when an entry has to be gone and never relies on one.

`ProgramsProofs`:

* `UeIdsInvariant`, `IdLeadsHomeAlways`: for any number of UEs, attaches and restarts
  and any width, over any number of wraps.  That an identifier leads home is not
  inductive, since a removal of the same identifier may be outstanding; `UeIdsInv`
  adds that UEs and removals go by different attaches, so that two of them that
  share an identifier are a multiple of `Modulus` attaches apart.  The property says
  of whom it speaks: a UE after which fewer than `Modulus` have attached.
* `MutexHeldAlways`, by which the value a thread has read is still true when it
  writes; `ResultsAreFinal`, since main passes a join only when the thread has
  ended, with the bound on `stopped_threads`, which `ReadBound` makes inductive: a
  thread that has read the counter and not yet written it has read no more than
  the other threads that stopped; `CountsAreAtomic`, the refinement of
  `RegMetrics`: the write maps to the abstract step, every other step to a stutter.
* `GreeterInvariant`, `ObjectsOwnedAlways` (`ObjectsOwned`): for any finite numbers
  of threads and addresses and any calls.  That a tag is alive is not inductive:
  `GreeterInv` adds that nothing has two holders, be they the completion queue,
  the runtime that waits for a call, or a thread (`OneHolder`), and that the status
  is the one its holder expects (`StatusFits`).  That there is always an object for
  the next call is an equation between two cardinalities: a thread that enters its
  loop makes one, and one that serves a call makes another before it lets its own go.
* `SbaInvariant`, `CountsOnceAlways` (`CountsOnce`): for any finite number of client
  threads, any rounds and any times, from `SbaAssumption` that a call takes some time.
  The sum without a lock may lose additions, so that it is the time of some threads is
  all that holds; it is inductive with `SbaInv`, which says the same of the sum each
  thread has read and not yet written, and that a sum that was added to is not zero.
  On the server `LockHeld` says that who is between lock and unlock holds the mutex
  and has read what is still true.

`UserPlaneProofs`:

* `PlaneInvariant`, `OwnTunnelAlways`, `NoGhostContextAlways`: for any number of UEs,
  N4 threads, sessions, packets and losses.  The tables hold of a UE nothing but its
  own (`TablesOK`), and a packet's place says which lookups are behind it; while the
  UE's sessions do not overlap, one handler at a time is about it (`OneJob`), and its
  step determines the contents of the tables (`UesOK`).
* `PoolInvariant`, `AddressesDifferAlways`: for every size of pool and subnet with
  enough addresses.  The invariant is the position of the loop,
  `i = (subnet - 1) * Hosts + host - FirstHost`, and the rank of each address.
* `StartInvariant`, `StartsSafelyAlways` (`StartsSafely`): for any numbers of threads,
  kills of AMF, SMF and AUSF and outages of Consul, from `StartupAssumption`, that the
  AMF has a worker: its connections are what makes it wait for the AUSF.  The
  invariant adds that an AMF that is up has connected to the AUSF that runs, or is
  `orphaned`, and that the AUSF listens only after its database is there
  (`AusfFirst`, `Dialling`).
* `StreamInvariant`, `ReceivedInOrder`, `StreamKeepsChannel`: the refinement of
  `MsgChannel` by `PktStream` without its fairness (`KeepsChannel`), step by step, for
  any packets, sizes, width of the length and numbers of sends and of `EPERM`.  `snd`
  maps to `Send`, the `read` that completes a body to `Deliver`, `close` to `Cut`, a retry
  after a part of the packet was written to `Spoil`, every other step to a stutter;
  behind `Spoil` every step is one of `Unreliable`.  What is undelivered is the slice of what was sent behind
  what was received, less the packet that the end has cut: two history variables,
  `sent` and `cut`, which no guard reads.  The inductive invariant `StreamInv` says
  that, until the stream is spoilt, there is one sequence of bytes, the frames of `sent` in a row (`Framed`), of
  which the reader's buffer, the connection and the writer's buffer are consecutive
  parts that begin where the reader is (`InStep`), that the reader waits for
  exactly the length, or the body, of the next packet (`ReaderOK`), and that what
  was received is what was sent (`InOrder`).  From this follows that a complete
  length is read as the size that was written, and a complete body as its packet.

`ConsulProofs`:

* `HttpInvariant`, `CallsAreIndependent` (`CallsIndependent`): for any requests and
  buffer sizes and an exception after any option.  The options of a call form a
  list; the invariant says that those made so far are in force and the rest is
  still to do (`Setting`), and that all are while the transfer runs (`Prepared`).
  They decide what is sent, whatever a call that threw half-way has left of the
  other options.
* `RegistryInvariant`, `RegistryAlwaysFaithful` (`RegistryFaithful`): for any ids,
  names, tags and calls, under the hypothesis `PathsKept`: what Consul decodes from
  a path is the id that `encodeUrl` was given.  That it holds of every string is an
  induction over strings; the run has ids for which it fails when `encodeUrl` is
  left out.
* `KvInvariant`, `KvAlwaysReliable` (`KvReliable`): for any clients,
  keys, keyword arguments, losses and errors.  The first half is about requests: of
  the arguments of the `Consul` object, the `Kv` object, the operation and the caller
  the last with a keyword decides, and since a caller cannot give `cas`, `acquire`,
  `release` or `recurse` (`CallKeywords`), a request has the condition of its
  operation and no other (`RequestsFit`).  The second half is `KvInv`.  `CasOnce` is
  not inductive: one has to know that the index a compare-and-set has used up is
  behind Consul's and never an entry's again (`UsedUp`).  `NoLostUpdate` needs that
  a client's value is that of its index, and smaller when the index is behind
  (`Counting`); the value is the number of granted indexes, which grows by one with
  every grant.  `LockExclusive` needs that a lock granted and not yet reported is
  the client's already (`Locking`), and that a client gives a key up before it sends
  unlock.  `TokenSent` follows from the order of the arguments, for an empty token of
  the `Kv` object as for any other.  None of it needs a hypothesis.
* `CodeInvariant`, `ValueSurvives` (`CodeKeepsValue`): for every text of bytes, any
  length of the lines of four characters or more (72 in the code), any foreign
  characters in between, and line ends and padding left out at will.  The encoder is in group `q` of three bytes, has written the
  `4 * q` characters before it, and holds the low bits of the last byte (`EncInv`);
  the decoder has read `m` characters of the alphabet, skipped the others, has written
  the bytes they complete, and holds the high bits of the next (`DecInv`).  That four
  characters give back their three bytes is arithmetic with `\div` and `%`; that the
  buffer suffices follows from the lengths of code and text.

Only model-checked:

* liveness (`AttachCompletes`, `DetachCompletes`, `RequestsAnswered`,
  `CacheConverges`, `HandoverEnds`, `AnswerArrives`, `CoreComesUp`) and the liveness
  half of `ImplementsChannel`: fairness is beyond the prover;
* `PacketsAgree` and `ReadsJson`: `NasPacket` and `Json11` have recursive operators
  (nested cells, nested values), which the prover cannot reason about;
* `ReadsScalars` and the round trip of `encodeUrl`: what a scan of a string computes
  for every string, an induction over the string against a grammar.

The library's induction theorems cannot be applied by the installed provers.  Where
a proof needs induction over a list or over numbers (the balancer's loop, the last
of several keyword arguments), it takes the least counterexample: the lemmas
`LeastNumber` and `LastPlace`, which follow from the well-foundedness of `<`.

All theorems rest only on the assumptions about the constants that their modules
name, which TLC evaluates in every run, and on the hypotheses said above.

## Not modelled

* Consul's catalog, health, status and session clients, and the reading
  operations of the agent: one GET and a conversion each, without state.
* The comparison operators, `parse_multi` and `has_shape` of `json11`.
* The synchronous greeters, `poisson.cpp` and `main.cpp`: a single call, or
  printing only.
* Third-party code: `catch.hpp` (a test framework in one header), `grpclb/vendor`,
  and what `protoc` generates.  The files directly under `src/src` that `ppconsul`
  also has are the same code.
* Of modelled parts: the reads of `ue_ctx` outside the mutex in `smf.cpp:231` and
  the unlocked assignment of one address in `amf.cpp:853`; the loss of precision
  of an index above 2^53 (`s11n.h:48`); a server that dies without a check
  (`server.cpp:60`).

## Plan

1. Done: the modules above and their runs; type correctness; the AMF's
   identifiers; the sessions of the core; the handover; the ownership of the
   balancer's services and its choice; the address pool, the start-up and the user
   plane's tunnels; the packets on a stream; the simulator's totals; the counters of
   the demonstration; the asynchronous server's objects; the HTTP client, the
   registry, the key/value store and Base64.
2. More of the system: an abstract session of a UE that `Core5G` without faults
   implements; an abstract cache that `GrpcLb` implements.
