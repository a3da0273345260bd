--------------------------- MODULE ConsulRegistry ---------------------------
(***************************************************************************)
(* A service's way from its registration to the client that is sent to it: *)
(* agent::Agent of ppconsul (agent.h, agent.cpp, helpers::encodeUrl)       *)
(* registers services, reports their health and takes them away; Consul's  *)
(* agent keeps them; the balancer's discovery (discovery/consul/consul.go) *)
(* asks for the healthy ones of a target, a name and tags, and filters the *)
(* answer itself.  Consul is external.                                     *)
(*                                                                         *)
(* An id is a sequence of characters, since it travels inside a path.      *)
(***************************************************************************)
EXTENDS Naturals, Sequences, SequencesExt, FiniteSets

CONSTANTS Ids,        \* ids of services
          Names,      \* names of services
          TagLists,   \* lists of tags a service has
          Targets,    \* lists of tags a client asks for
          Kinds,      \* kinds of check a service is registered with
          MaxOps      \* calls of the Agent

ASSUME RegistryAssumption ==
  /\ MaxOps \in Nat /\ "none" \notin Names
  /\ Kinds \subseteq {"none", "ttl", "script", "http", "tcp", "docker"}
  /\ \A s \in Ids \cup Targets : s \in Seq({s[k] : k \in DOMAIN s})

VARIABLES
  services,  \* Consul: the service of each id, or NoService
  checks,    \* Consul: status and kind of each service's check, or NoCheck
  node,      \* Consul: status of a check of the node, or "none"
  meant,     \* the services the calls of the Agent have asked for
  said,      \* the health they have reported of each
  ops,       \* calls made so far
  query,     \* discovery: the query that Consul has answered
  resolved   \* discovery: the answer of Resolve

registry == <<services, checks, node, meant, said, ops>>
registryVars == <<registry, query, resolved>>

NoService == [name |-> "none", tags |-> <<>>, address |-> ""]
NoCheck == [status |-> "none", kind |-> "none"]
NoQuery == [tags |-> <<>>, entries |-> {}, healthy |-> {}]
Statuses == {"passing", "warning", "critical"}
NodeAddress == "node"

----------------------------------------------------------------------------
(* The paths                                                               *)

Unsafe == {"/", "%", ":"}
HexOf(c) == CASE c = "/" -> <<"%", "2", "F">>
              [] c = "%" -> <<"%", "2", "5">>
              [] c = ":" -> <<"%", "3", "A">>

\* Mutant of encodeUrl: the id is put into the path as it is.
RawUrl(s) == s

\* helpers::encodeUrl.
encodeUrl(s) == FlattenSeq([k \in 1..Len(s) |->
                              IF s[k] \in Unsafe THEN HexOf(s[k]) ELSE <<s[k]>>])

\* What Consul reads in a path: every % and the two digits behind it are a
\* character.
Decoded(s) ==
  LET coded(k) == {c \in Unsafe : k + 2 <= Len(s) /\ SubSeq(s, k, k + 2) = HexOf(c)}
      from[k \in 1..(Len(s) + 3)] ==
        IF k > Len(s) THEN <<>>
        ELSE IF coded(k) = {} THEN <<s[k]>> \o from[k + 1]
        ELSE SetToSeq(coded(k)) \o from[k + 3]
  IN from[1]

\* serviceCheckId.
serviceCheckId(id) == <<"service", ":">> \o id

----------------------------------------------------------------------------
(* The calls of the Agent                                                  *)

\* CheckConfigSaver: the fields of a check's configuration.
CheckFields(kind) ==
  CASE kind = "ttl" -> {"ttl"}
    [] kind = "script" -> {"script", "interval"}
    [] kind = "http" -> {"http", "interval"}
    [] kind = "tcp" -> {"tcp", "interval"}
    [] kind = "docker" -> {"docker_container_id", "shell", "script", "interval"}

AgentCall == ops < MaxOps /\ ops' = ops + 1 /\ UNCHANGED <<query, resolved>>

\* ServiceRegistrationData.
Registration(name, tags, address) ==
  [name |-> name, tags |-> tags, address |-> address]

\* serviceRegistrationJson: the service, and a check only if there is one.
serviceRegistrationJson(data, kind) ==
  [service |-> data, check |-> IF kind = "none" THEN {} ELSE CheckFields(kind)]

\* registerService: Consul takes the service; a check begins critical, and a
\* service registered without one keeps the check it has.
registerService(id, name, tags, address, kind) ==
  /\ AgentCall
  /\ LET json == serviceRegistrationJson(Registration(name, tags, address), kind)
     IN /\ services' = [services EXCEPT ![id] = json.service]
        /\ checks' = [checks EXCEPT ![id] =
                        IF json.check = {} THEN @
                        ELSE [status |-> "critical",
                              kind |-> IF "ttl" \in json.check THEN "ttl" ELSE "probe"]]
  /\ meant' = [meant EXCEPT ![id] = [name |-> name, tags |-> tags,
                                     address |-> address]]
  /\ said' = [said EXCEPT ![id] = IF kind = "none" THEN @ ELSE "critical"]
  /\ UNCHANGED node

\* deregisterService: its check goes with it.
deregisterService(id) ==
  /\ AgentCall
  /\ LET d == Decoded(encodeUrl(id))
     IN IF d \in Ids
          THEN /\ services' = [services EXCEPT ![d] = NoService]
               /\ checks' = [checks EXCEPT ![d] = NoCheck]
          ELSE UNCHANGED <<services, checks>>
  /\ meant' = [meant EXCEPT ![id] = NoService]
  /\ said' = [said EXCEPT ![id] = "none"]
  /\ UNCHANGED node

updateCheckUrl(status) == CASE status = "passing" -> "pass"
                            [] status = "warning" -> "warn"
                            [] status = "critical" -> "fail"

StatusOf(url) == CASE url = "pass" -> "passing"
                   [] url = "warn" -> "warning"
                   [] url = "fail" -> "critical"

\* servicePass, serviceWarn and serviceFail; Consul refuses them for a check
\* that is not there or has no TTL.
updateServiceCheck(id, status) ==
  /\ AgentCall
  /\ LET path == Decoded(encodeUrl(serviceCheckId(id)))
         hit == {d \in Ids : serviceCheckId(d) = path /\ checks[d].kind = "ttl"}
     IN checks' = [d \in Ids |-> IF d \in hit
                     THEN [checks[d] EXCEPT !.status = StatusOf(updateCheckUrl(status))]
                     ELSE checks[d]]
  /\ said' = IF checks[id].kind = "ttl" THEN [said EXCEPT ![id] = status] ELSE said
  /\ UNCHANGED <<services, node, meant>>

\* registerCheck, pass, warn, fail and deregisterCheck of a check of the node,
\* which begins critical.
NodeCheck(status) ==
  /\ node = "none" => status = "critical"
  /\ AgentCall
  /\ node' = status
  /\ UNCHANGED <<services, checks, meant, said>>

\* The agent runs a script, HTTP, TCP or Docker check.
Probe(id, status) ==
  /\ checks[id].kind = "probe" /\ checks[id].status # status
  /\ checks' = [checks EXCEPT ![id].status = status]
  /\ said' = [said EXCEPT ![id] = status]
  /\ UNCHANGED <<services, node, meant, ops, query, resolved>>

----------------------------------------------------------------------------
(* The discovery of the balancer                                           *)

TagSet(tags) == {tags[k] : k \in 1..Len(tags)}

\* parseEntries: a service without an address is at its node's.  The port
\* tells the servers of one address apart, as the id does here.
parseEntries(entries) ==
  {[id |-> e.id, address |-> IF e.address # "" THEN e.address ELSE NodeAddress] :
     e \in entries}

\* The servers a target stands for, by what the calls of the Agent have said.
Wanted(name, tags) ==
  {[id |-> id, address |-> IF meant[id].address = "" THEN NodeAddress
                           ELSE meant[id].address] :
     id \in {d \in Ids : /\ meant[d].name = name
                         /\ TagSet(tags) \subseteq TagSet(meant[d].tags)
                         /\ said[d] \in {"none", "passing"}
                         /\ node \in {"none", "passing"}}}

\* Resolve and query up to the answer of Consul, which is for the name and
\* the first tag, and has only what passes all its checks.
Query(name, tags) ==
  /\ query = NoQuery
  /\ LET hit == {d \in Ids : /\ services[d].name = name
                             /\ tags # <<>> => tags[1] \in TagSet(services[d].tags)
                             /\ checks[d].status \in {"none", "passing"}
                             /\ node \in {"none", "passing"}}
     IN query' = [tags |-> tags, healthy |-> Wanted(name, tags),
                  entries |-> {[id |-> d, tags |-> services[d].tags,
                                address |-> services[d].address] : d \in hit}]
  /\ UNCHANGED <<registry, resolved>>

\* filterEntries: the entries with every tag behind the first.
filterEntries(entries, required) ==
  {e \in entries : \A t \in required : t \in TagSet(e.tags)}

\* query from the answer on.
Resolve ==
  /\ query # NoQuery
  /\ LET some == IF Len(query.tags) > 1
                   THEN filterEntries(query.entries, TagSet(Tail(query.tags)))
                   ELSE query.entries
     IN resolved' = [got |-> parseEntries(some), wanted |-> query.healthy]
  /\ query' = NoQuery
  /\ UNCHANGED registry

----------------------------------------------------------------------------
(* The specification                                                       *)

RegistryInit ==
  /\ services = [id \in Ids |-> NoService] /\ meant = services
  /\ checks = [id \in Ids |-> NoCheck] /\ said = [id \in Ids |-> "none"]
  /\ node = "none" /\ ops = 0
  /\ query = NoQuery /\ resolved = [got |-> {}, wanted |-> {}]

RegistryNext ==
  \/ \E id \in Ids :
       \/ \E name \in Names, tags \in TagLists, address \in {"", "host"},
             kind \in Kinds : registerService(id, name, tags, address, kind)
       \/ deregisterService(id)
       \/ \E status \in Statuses :
            updateServiceCheck(id, status) \/ Probe(id, status)
  \/ \E status \in {"none"} \cup Statuses : NodeCheck(status)
  \/ \E name \in Names, tags \in Targets : Query(name, tags)
  \/ Resolve

RegistrySpec == RegistryInit /\ [][RegistryNext]_registryVars

----------------------------------------------------------------------------
(* Properties                                                              *)

\* Every variable holds a value of its kind, and a service that is not there
\* has no check (agent.h, agent.cpp).
RegistryTypeOK ==
  /\ DOMAIN services = Ids /\ DOMAIN checks = Ids /\ ops \in 0..MaxOps
  /\ \A id \in Ids : /\ services[id].name \in Names \cup {"none"}
                     /\ checks[id].status \in Statuses \cup {"none"}
                     /\ services[id] = NoService => checks[id] = NoCheck
  /\ node \in Statuses \cup {"none"}

\* The registry is what the calls have asked for: a call whose id contains
\* characters of a path, or looks like the encoding of another id, changes
\* the service and the check it names and no other (encodeUrl, helpers.cpp:
\* 58-78, in deregisterService and updateCheck of agent.h; Agent::service,
\* which only reads, puts the raw id into its path and is not modelled).
RegistryIsCalls ==
  \A id \in Ids : services[id] = meant[id] /\ checks[id].status = said[id]

\* The discovery answers with exactly the servers that carried the target's
\* name, all of its tags and no failing check when Consul was asked: neither
\* a failing one nor one without the second tag, and none is left out
\* (consul.go:38-103).
ResolveExact == resolved.got = resolved.wanted

\* From the registration to the discovery nothing is mixed up or lost: Consul
\* holds what the calls of the Agent meant, and the balancer finds what they
\* meant at the time of its query (agent.h, agent.cpp, consul.go).
RegistryFaithful == RegistryTypeOK /\ RegistryIsCalls /\ ResolveExact
============================================================================
