------------------------------- MODULE GrpcLb -------------------------------
(***************************************************************************)
(* The gRPC load balancer (grpclb).  A request for a target is answered    *)
(* with the least loaded server of the target's service, which is made by  *)
(* the first request, cached, and refreshed from Consul by a goroutine of  *)
(* its own until it is closed.  A request with an empty target is answered *)
(* at once and changes nothing: it is left out.                            *)
(***************************************************************************)
EXTENDS Naturals, Sequences

CONSTANTS
    Target,      \* what requests ask for: service name and tags
    Request,     \* goroutines that handle a request
    Lists,       \* lists of servers that Consul may report
    MaxFloat,    \* math.MaxFloat64, more than any load
    MaxSvc,      \* bound on the services that are made
    MaxChanges,  \* bound on the changes of what Consul reports
    MaxResets    \* bound on the calls of Reset()

ASSUME LbAssumption ==
    /\ MaxSvc \in Nat
    /\ MaxChanges \in Nat
    /\ MaxResets \in Nat
    /\ <<>> \in Lists
    /\ Target # {}

\* A server as the balancer sees it: without tags, with a load ("cpu:"), or
\* with tags but without a load that can be read.
Server == [tag : {"none", "cpu", "other"}, cpu : 0 .. (MaxFloat - 1)]

ASSUME ListsAssumption == MaxFloat \in Nat \ {0} /\ Lists \subseteq Seq(Server)

VARIABLES
    registry,    \* registry[t]: the healthy servers of t, as Consul reports them
    consul,      \* whether Consul answers
    changes,     \* changes of the two
    cache,       \* cache[t]: the service of target t
    made,        \* services made so far
    target,      \* target[s]: what service s is for
    endpoints,   \* endpoints[s]: its servers
    fetched,     \* fetched[s]: what its loop has read and not yet stored
    loop,        \* loop[s]: where its goroutine is
    closing,     \* closing[s]: whether its channel "closing" is closed
    pc,          \* where request r is
    req,         \* the target it is for
    new,         \* the service it has made
    svc,         \* the service it uses
    reset_pc, reset_list, reset_cur,  \* Reset(): step, services to close, the current one
    resets,
    panicked     \* why the process ended, "no" if it did not

registryVars == <<registry, consul, changes>>
serviceVars  == <<made, target, endpoints, fetched, loop, closing>>
requestVars  == <<pc, req, new, svc>>
resetVars    == <<reset_pc, reset_list, reset_cur, resets>>
lbVars == <<registryVars, cache, serviceVars, requestVars, resetVars, panicked>>

Svc   == 1 .. MaxSvc
NoSvc == 0

AnyTarget == CHOOSE t \in Target : TRUE   \* of a request that is not under way

LbPc == {"idle", "new", "insert", "close", "wait", "pick"}

Nil == [tag |-> "nil", cpu |-> 0]   \* no server

LbTypeOK ==
    /\ registry \in [Target -> Lists]
    /\ consul \in BOOLEAN
    /\ changes \in 0 .. MaxChanges
    /\ cache \in [Target -> Svc \cup {NoSvc}]
    /\ made \in 0 .. MaxSvc
    /\ target \in [Svc -> Target]
    /\ endpoints \in [Svc -> Lists]
    /\ fetched \in [Svc -> Lists]
    /\ loop \in [Svc -> {"none", "select", "store", "stopped"}]
    /\ closing \in [Svc -> BOOLEAN]
    /\ pc \in [Request -> LbPc]
    /\ req \in [Request -> Target]
    /\ new \in [Request -> Svc \cup {NoSvc}]
    /\ svc \in [Request -> Svc \cup {NoSvc}]
    /\ reset_pc \in {"idle", "close", "wait"}
    /\ reset_list \subseteq Svc
    /\ reset_cur \in Svc \cup {NoSvc}
    /\ resets \in 0 .. MaxResets
    /\ panicked \in {"no", "nil", "close"}
    /\ \A r \in Request : /\ pc[r] \in {"insert", "close", "wait"} => new[r] # NoSvc
                          /\ pc[r] \in {"close", "wait", "pick"} => svc[r] # NoSvc
    /\ reset_pc = "wait" => reset_cur # NoSvc

LbInit ==
    /\ registry \in [Target -> Lists]
    /\ consul = TRUE
    /\ changes = 0
    /\ cache = [t \in Target |-> NoSvc]
    /\ made = 0
    /\ target = [s \in Svc |-> AnyTarget]
    /\ endpoints = [s \in Svc |-> <<>>]
    /\ fetched = [s \in Svc |-> <<>>]
    /\ loop = [s \in Svc |-> "none"]
    /\ closing = [s \in Svc |-> FALSE]
    /\ pc = [r \in Request |-> "idle"]
    /\ req = [r \in Request |-> AnyTarget]
    /\ new = [r \in Request |-> NoSvc]
    /\ svc = [r \in Request |-> NoSvc]
    /\ reset_pc = "idle"
    /\ reset_list = {}
    /\ reset_cur = NoSvc
    /\ resets = 0
    /\ panicked = "no"

-----------------------------------------------------------------------------
(***************************************************************************)
(* Consul: what it reports for a target changes, and it may be away.       *)
(***************************************************************************)
RegistryChange(t, l) ==
    /\ changes < MaxChanges
    /\ changes' = changes + 1
    /\ registry' = [registry EXCEPT ![t] = l]
    /\ UNCHANGED <<consul, cache, serviceVars, requestVars, resetVars, panicked>>

ConsulUpDown ==
    /\ changes < MaxChanges
    /\ changes' = changes + 1
    /\ consul' = ~ consul
    /\ UNCHANGED <<registry, cache, serviceVars, requestVars, resetVars, panicked>>

-----------------------------------------------------------------------------
(***************************************************************************)
(* NewLeastCPUBalancer().  For a server without tags the balancer notes    *)
(* more than any load.                                                     *)
(***************************************************************************)
\* Mutant of Better: a server without tags replaces the one found before.
BetterUntagged(best, server) ==
    CASE server.tag = "none" -> [server |-> server, cpu |-> MaxFloat]
      [] server.tag = "cpu" /\ (best.server = Nil \/ best.cpu > server.cpu) ->
            [server |-> server, cpu |-> server.cpu]
      [] OTHER -> best

\* One turn of the balancer's loop: minServer and minCPU.
Better(best, server) ==
    CASE server.tag = "none" /\ best.server = Nil -> [server |-> server, cpu |-> MaxFloat]
      [] server.tag = "cpu" /\ (best.server = Nil \/ best.cpu > server.cpu) ->
            [server |-> server, cpu |-> server.cpu]
      [] OTHER -> best

\* minServer and minCPU after each turn of the loop over the servers.
Turns(s) ==
    LET best[i \in 0 .. Len(s)] ==
            IF i = 0 THEN [server |-> Nil, cpu |-> 0] ELSE Better(best[i - 1], s[i])
    IN  best

Balance(s) == Turns(s)[Len(s)].server

-----------------------------------------------------------------------------
(***************************************************************************)
(* Servers() and GetServers() of a request.                                *)
(***************************************************************************)
At(r, p) == panicked = "no" /\ pc[r] = p
Goto(r, p) == pc' = [pc EXCEPT ![r] = p]

\* The handler returns, and its variables are gone.
Done(r) ==
    /\ Goto(r, "idle")
    /\ req' = [req EXCEPT ![r] = AnyTarget]
    /\ new' = [new EXCEPT ![r] = NoSvc]
    /\ svc' = [svc EXCEPT ![r] = NoSvc]

\* The cache is read under the read lock.
GetServers(r, t) ==
    /\ At(r, "idle")
    /\ req' = [req EXCEPT ![r] = t]
    /\ svc' = [svc EXCEPT ![r] = cache[t]]
    /\ Goto(r, IF cache[t] # NoSvc THEN "pick" ELSE "new")
    /\ UNCHANGED <<registryVars, cache, serviceVars, new, resetVars, panicked>>

\* newService(): the first updateBackends() succeeds and the loop is started.
newService(r) ==
    /\ At(r, "new")
    /\ consul
    /\ made < MaxSvc
    /\ LET s == made + 1 IN
        /\ made' = s
        /\ target' = [target EXCEPT ![s] = req[r]]
        /\ endpoints' = [endpoints EXCEPT ![s] = registry[req[r]]]
        /\ loop' = [loop EXCEPT ![s] = "select"]
        /\ new' = [new EXCEPT ![r] = s]
    /\ Goto(r, "insert")
    /\ UNCHANGED <<registryVars, cache, fetched, closing, req, svc, resetVars, panicked>>

\* It fails, and so does the request.
NewServiceFails(r) ==
    /\ At(r, "new")
    /\ ~ consul
    /\ Done(r)
    /\ UNCHANGED <<registryVars, cache, serviceVars, resetVars, panicked>>

\* Mutant of Insert: the new service is put into the cache in any case.
InsertAnyway(r) ==
    /\ At(r, "insert")
    /\ cache' = [cache EXCEPT ![req[r]] = new[r]]
    /\ svc' = [svc EXCEPT ![r] = new[r]]
    /\ Goto(r, "pick")
    /\ UNCHANGED <<registryVars, serviceVars, req, new, resetVars, panicked>>

\* Under the write lock: another request may have been faster.
Insert(r) ==
    /\ At(r, "insert")
    /\ LET cached == cache[req[r]] IN
        IF cached = NoSvc
        THEN /\ cache' = [cache EXCEPT ![req[r]] = new[r]]
             /\ svc' = [svc EXCEPT ![r] = new[r]]
             /\ Goto(r, "pick")
        ELSE /\ svc' = [svc EXCEPT ![r] = cached]
             /\ Goto(r, "close")
             /\ UNCHANGED cache
    /\ UNCHANGED <<registryVars, serviceVars, req, new, resetVars, panicked>>

\* close(s.closing), which panics if the channel is closed already.
CloseClosing(s) ==
    IF closing[s]
    THEN panicked' = "close" /\ UNCHANGED closing
    ELSE closing' = [closing EXCEPT ![s] = TRUE] /\ UNCHANGED panicked

\* Mutant of CloseNew: the service in the cache is closed, not the new one.
CloseCached(r) ==
    /\ At(r, "close")
    /\ CloseClosing(svc[r])
    /\ Goto(r, "wait")
    /\ UNCHANGED <<registryVars, cache, made, target, endpoints, fetched, loop, req, new, svc, resetVars>>

\* newSvc.Close(), which waits until the loop has ended.
CloseNew(r) ==
    /\ At(r, "close")
    /\ CloseClosing(new[r])
    /\ Goto(r, "wait")
    /\ UNCHANGED <<registryVars, cache, made, target, endpoints, fetched, loop, req, new, svc, resetVars>>

NewClosed(r) ==
    /\ At(r, "wait")
    /\ loop[new[r]] = "stopped"
    /\ Goto(r, "pick")
    /\ UNCHANGED <<registryVars, cache, serviceVars, req, new, svc, resetVars, panicked>>

\* svc.Servers() under the service's lock, and the balancer's choice.  With no
\* server to return, Servers() calls err.Error() on an error that is nil.
Pick(r) ==
    /\ At(r, "pick")
    /\ panicked' = IF Balance(endpoints[svc[r]]) = Nil THEN "nil" ELSE "no"
    /\ Done(r)
    /\ UNCHANGED <<registryVars, cache, serviceVars, resetVars>>

-----------------------------------------------------------------------------
(***************************************************************************)
(* loop() of service s.                                                    *)
(***************************************************************************)
LoopAt(s, p) == panicked = "no" /\ loop[s] = p

\* The ticker fires and updateBackends() asks Consul.
LoopFetch(s) ==
    /\ LoopAt(s, "select")
    /\ consul
    /\ fetched' = [fetched EXCEPT ![s] = registry[target[s]]]
    /\ loop' = [loop EXCEPT ![s] = "store"]
    /\ UNCHANGED <<registryVars, cache, made, target, endpoints, closing, requestVars, resetVars,
                   panicked>>

\* Mutant of LoopStore: the endpoints are not replaced.
LoopForget(s) ==
    /\ LoopAt(s, "store")
    /\ fetched' = [fetched EXCEPT ![s] = <<>>]
    /\ loop' = [loop EXCEPT ![s] = "select"]
    /\ UNCHANGED <<registryVars, cache, made, target, endpoints, closing, requestVars, resetVars,
                   panicked>>

\* The new endpoints are stored under the service's lock.  (When Consul does
\* not answer, the error is logged and the loop goes on with the old ones.)
LoopStore(s) ==
    /\ LoopAt(s, "store")
    /\ endpoints' = [endpoints EXCEPT ![s] = fetched[s]]
    /\ fetched' = [fetched EXCEPT ![s] = <<>>]
    /\ loop' = [loop EXCEPT ![s] = "select"]
    /\ UNCHANGED <<registryVars, cache, made, target, closing, requestVars, resetVars, panicked>>

\* Mutant of LoopEnd: the loop returns without closing the channel "closed".
LoopEndSilently(s) ==
    /\ LoopAt(s, "select")
    /\ closing[s]
    /\ loop' = [loop EXCEPT ![s] = "none"]
    /\ UNCHANGED <<registryVars, cache, made, target, endpoints, fetched, closing, requestVars,
                   resetVars, panicked>>

\* The channel "closing" is closed: close(s.closed) and return.
LoopEnd(s) ==
    /\ LoopAt(s, "select")
    /\ closing[s]
    /\ loop' = [loop EXCEPT ![s] = "stopped"]
    /\ UNCHANGED <<registryVars, cache, made, target, endpoints, fetched, closing, requestVars,
                   resetVars, panicked>>

-----------------------------------------------------------------------------
(***************************************************************************)
(* Reset(): the cache is emptied under the write lock, then the services   *)
(* are closed one after the other.  main() calls it when Serve() returns,  *)
(* with handlers of requests perhaps still under way.                      *)
(***************************************************************************)
Reset ==
    /\ panicked = "no"
    /\ reset_pc = "idle"
    /\ resets < MaxResets
    /\ resets' = resets + 1
    /\ reset_list' = {cache[t] : t \in Target} \ {NoSvc}
    /\ cache' = [t \in Target |-> NoSvc]
    /\ reset_pc' = "close"
    /\ UNCHANGED <<registryVars, serviceVars, requestVars, reset_cur, panicked>>

ResetClose(s) ==
    /\ panicked = "no"
    /\ reset_pc = "close"
    /\ s \in reset_list
    /\ CloseClosing(s)
    /\ reset_cur' = s
    /\ reset_pc' = "wait"
    /\ UNCHANGED <<registryVars, cache, made, target, endpoints, fetched, loop, requestVars,
                   reset_list, resets>>

ResetClosed ==
    /\ panicked = "no"
    /\ reset_pc = "wait"
    /\ loop[reset_cur] = "stopped"
    /\ reset_list' = reset_list \ {reset_cur}
    /\ reset_cur' = NoSvc
    /\ reset_pc' = "close"
    /\ UNCHANGED <<registryVars, cache, serviceVars, requestVars, resets, panicked>>

ResetDone ==
    /\ panicked = "no"
    /\ reset_pc = "close"
    /\ reset_list = {}
    /\ reset_pc' = "idle"
    /\ UNCHANGED <<registryVars, cache, serviceVars, requestVars, reset_list, reset_cur, resets,
                   panicked>>

-----------------------------------------------------------------------------
RequestStep(r) ==
    \/ newService(r) \/ NewServiceFails(r) \/ Insert(r) \/ CloseNew(r) \/ NewClosed(r) \/ Pick(r)

ResetStep == (\E s \in Svc : ResetClose(s)) \/ ResetClosed \/ ResetDone

LbNext ==
    \/ \E t \in Target, l \in Lists : RegistryChange(t, l)
    \/ ConsulUpDown
    \/ \E r \in Request, t \in Target : GetServers(r, t)
    \/ \E r \in Request : RequestStep(r)
    \/ \E s \in Svc : LoopFetch(s) \/ LoopStore(s) \/ LoopEnd(s)
    \/ Reset
    \/ ResetStep

LbSpec == LbInit /\ [][LbNext]_lbVars

-----------------------------------------------------------------------------
\* The loop of service s is running.
Running(s) == loop[s] \in {"select", "store"}

\* Request r has made service s and has neither cached nor closed it.
Holds(r, s) == pc[r] \in {"insert", "close", "wait"} /\ new[r] = s

\* Two requests that find a target missing both make a service; the one that
\* comes second closes its own (GetServers()).  So no loop is ever left
\* running that nobody can close: its service is in the cache, or with a
\* request or Reset() that is about to cache or close it.
NoLoopLeaked ==
    \A s \in Svc : Running(s) =>
        \/ \E t \in Target : cache[t] = s
        \/ \E r \in Request : Holds(r, s)
        \/ s \in reset_list

\* The channel "closing" of a service is closed once: closing it again would
\* be a panic, which ends the balancer (Close()).
ClosedOnce == panicked # "close"

\* Requests for one target are answered from one service, the cached one, and
\* its endpoints are still refreshed: a request that lost the race to cache
\* its service does not go on with the one it closes (GetServers()).  Reset()
\* ends that: a request may then use a service that is being closed.
OneService ==
    resets = 0 => \A r \in Request : pc[r] = "pick" => cache[req[r]] = svc[r] /\ Running(svc[r])

-----------------------------------------------------------------------------
(***************************************************************************)
(* The inductive invariant behind the three properties: who owns a service.*)
(***************************************************************************)
\* Services are numbered in the order they were made.
Numbered ==
    /\ \A t \in Target : cache[t] <= made
    /\ \A r \in Request : new[r] <= made
    /\ \A s \in reset_list : s <= made

\* A service is in one target's place of the cache at most,
CachedOnce == \A t, u \in Target : cache[t] = cache[u] /\ cache[t] # NoSvc => t = u

\* with one request at most, and then not in the cache,
HeldOnce ==
    /\ \A s \in Svc : \A r, q \in Request : Holds(r, s) /\ Holds(q, s) => r = q
    /\ \A r \in Request, t \in Target : ~ Holds(r, cache[t])

\* and in neither place when Reset() has it.
ListedOnly ==
    \A s \in reset_list : /\ \A t \in Target : cache[t] # s
                          /\ \A r \in Request : ~ Holds(r, s)

\* Reset() waits for a service of its list, and leaves none behind.
ResetSteps ==
    /\ reset_pc = "idle" => reset_list = {}
    /\ reset_pc = "wait" => reset_cur \in reset_list
    /\ resets = 0 => reset_pc = "idle"

\* Until then a request that has found a service has found the cached one.
FoundCached ==
    resets = 0 => \A r \in Request : pc[r] \in {"close", "wait", "pick"} => cache[req[r]] = svc[r]

\* A service has one owner at most.
OneOwner == Numbered /\ CachedOnce /\ HeldOnce /\ ListedOnly /\ ResetSteps /\ FoundCached

\* Only the owner that waits for the end of its loop has closed a service; the
\* loops of the others run.
ClosedByOwner ==
    /\ \A s \in Svc : s > made => loop[s] = "none" /\ ~ closing[s]
    /\ \A s \in 1 .. made : ~ closing[s] => Running(s)
    /\ \A s \in Svc : closing[s] =>
          /\ \A t \in Target : cache[t] # s
          /\ \A r \in Request : Holds(r, s) => pc[r] = "wait"
          /\ s \in reset_list => reset_pc = "wait" /\ reset_cur = s

\* The inductive invariant of Close(), Reset() and GetServers().
LbInv ==
    /\ LbTypeOK
    /\ OneOwner
    /\ ClosedByOwner
    /\ NoLoopLeaked
    /\ ClosedOnce
    /\ OneService

-----------------------------------------------------------------------------
\* What the balancer promises: a server with the least load; failing that, one
\* without tags, "servers with no tags have lesser priority"; none only if no
\* server has a load and all have tags.
IsLeast(server, s) ==
    LET loads    == {i \in DOMAIN s : s[i].tag = "cpu"}
        untagged == {i \in DOMAIN s : s[i].tag = "none"}
    IN  CASE loads # {}    -> \E i \in loads : s[i] = server /\ \A j \in loads : s[i].cpu <= s[j].cpu
          [] loads = {} /\ untagged # {} -> \E i \in untagged : s[i] = server
          [] OTHER         -> server = Nil

\* The server picked from a service's endpoints is the least loaded of them
\* (NewLeastCPUBalancer()).
BalanceLeast == \A s \in Svc : IsLeast(Balance(endpoints[s]), endpoints[s])

\* When no server is known the request is answered with an error: that is what
\* "return nil, grpc.Errorf(codes.Unknown, ...)" in Servers() is for.
NoServerAnswered == panicked # "nil"

-----------------------------------------------------------------------------
(***************************************************************************)
(* Liveness.  Go runs every goroutine that can go on.  The select of a     *)
(* loop takes any channel that is ready, so a closed "closing" is not      *)
(* passed over for ever: strong fairness of LoopEnd.                       *)
(***************************************************************************)
LbFairSpec ==
    /\ LbSpec
    /\ \A r \in Request : WF_lbVars(RequestStep(r))
    /\ \A s \in Svc : WF_lbVars(LoopFetch(s)) /\ WF_lbVars(LoopStore(s)) /\ SF_lbVars(LoopEnd(s))
    /\ WF_lbVars(ResetStep)

\* Every request is answered, also one that has to close the service it made
\* and wait for its loop.
RequestsAnswered ==
    \A r \in Request : pc[r] # "idle" ~> (pc[r] = "idle" \/ panicked # "no")

\* When Consul stays up and what it reports no longer changes, the cached
\* services come to hold exactly that, although a refresh may fail now and then.
CacheConverges ==
    <>[]consul =>
        <>[](panicked = "no" => \A t \in Target :
                cache[t] # NoSvc => endpoints[cache[t]] = registry[t])
=============================================================================
