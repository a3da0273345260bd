------------------------------ MODULE ConsulKv ------------------------------
(***************************************************************************)
(* The key/value client of ppconsul (ppconsul/include/ppconsul/kv.h): an   *)
(* operation is one request built from the path, the defaults of Consul    *)
(* and Kv objects and the caller's parameters, and one interpretation of   *)
(* the answer.  Several clients work on one store; a request or its answer *)
(* may be lost, in which case the call throws and the client cannot know   *)
(* whether the store was changed.  The store is Consul's, modelled from    *)
(* the parameters the client sends and from ppconsul/tests/kv/kv_tests.cpp.*)
(***************************************************************************)
EXTENDS ConsulParams, FiniteSets

CONSTANTS Clients,     \* clients; each is also the name of its session
          Keys,        \* keys, as sequences of path elements
          Separator,   \* the path element that separates
          Uses,        \* what the store is used for: see use
          ConsulObj,   \* the Consul object: [dc, token]
          KvParams,    \* keyword arguments of the Kv constructor
          MaxIndex,    \* bound on Consul's index
          MaxValue,    \* bound on a value
          MaxFaults    \* bound on lost requests, lost answers and errors

Reads == {"item", "get", "count", "items", "keys", "countAll", "empty",
          "subKeys"}
AllOps == Reads \cup {"erase", "eraseAll", "clear", "set", "compareSet",
                      "compareErase", "lock", "unlock"}

\* The keywords a caller may give, with text for values: kw::groups::get and put, which
\* KWARGS_CHECK_IN_LIST makes the compiler check.
CallKeywords == {"consistency", "dc", "block_for", "token", "flags"}

ASSUME KvAssumption ==
  /\ MaxIndex \in Nat /\ MaxFaults \in Nat /\ MaxValue \in Nat
  /\ NoText \notin Clients /\ <<>> \notin Keys
  /\ \A u \in Uses : /\ u.clients \subseteq Clients /\ u.keys \subseteq Keys
                     /\ u.ops \subseteq AllOps /\ u.last \in 0..MaxIndex
                     /\ u.params \subseteq Seq(CallKeywords \X STRING)

VARIABLES
  use,     \* the clients that work, on which keys, with which operations
           \* and with which keyword arguments of a call, and the last
           \* index of Consul that they reach, at most MaxIndex
  store,   \* the entry of every key; ModifyIndex 0 stands for no entry
  index,   \* Consul's index
  call,    \* per client: the operation it is in and its arguments
  req,     \* per client: the request on its way, or being answered
  reply,   \* per client: the answer on its way
  outcome, \* per client: what the last operation returned
  seen,    \* per client: the KeyValue of its last item()
  holds,   \* per client: the keys it holds the lock of
  wins,    \* how often a compare-and-set of this key and index was granted
  faults   \* losses and errors so far

kvVars == <<use, store, index, call, req, reply, outcome, seen, holds, wins,
            faults>>

\* An entry as Consul sends it, and the KeyValue the client makes of it.
NoEntry == [Value |-> 0, CreateIndex |-> 0, ModifyIndex |-> 0,
            LockIndex |-> 0, Session |-> NoText]
KeyValue == [value |-> 0, createIndex |-> 0, modifyIndex |-> 0,
             lockIndex |-> 0, session |-> NoText]
Idle == [op |-> "none", key |-> <<>>, arg |-> 0, val |-> 0, params |-> <<>>]
NoReq == [verb |-> "none", key |-> <<>>, query |-> <<>>, data |-> 0]
NoReply == [code |-> 0, ok |-> FALSE, entry |-> NoEntry, keys |-> {},
            there |-> FALSE]
NoResult == [kind |-> "none", ok |-> FALSE, item |-> KeyValue, keys |-> {},
             there |-> FALSE]

Has(q, k) == k \in DOMAIN q
IsPrefixOf(p, k) == Len(p) <= Len(k) /\ SubSeq(k, 1, Len(p)) = p
Present(s) == {k \in Keys : s[k].ModifyIndex # 0}
Under(s, p) == {k \in Present(s) : IsPrefixOf(p, k)}

----------------------------------------------------------------------------
(* Building a request                                                      *)

\* Kv::Kv: the defaults of the Kv object.
Kv == [token |-> get_opt("token", NoText, KvParams),
       consistency |-> get_opt("consistency", NoText, KvParams),
       dc |-> get_opt("dc", NoText, KvParams)]

Defaults == <<<<"token", Kv.token>>, <<"dc", Kv.dc>>>>
GetDefaults == <<<<"token", Kv.token>>, <<"consistency", Kv.consistency>>,
                 <<"dc", Kv.dc>>>>

Request(verb, key, args, data) ==
  [verb |-> verb, key |-> key, query |-> ConsulQuery(ConsulObj, args),
   data |-> data]

\* Kv::item and, through it, get and count.
item(c) == Request("GET", c.key, GetDefaults \o c.params, 0)

\* Kv::items; true prints as 1.
items(c) ==
  Request("GET", c.key, GetDefaults \o <<<<"recurse", 1>>>> \o c.params, 0)

\* Kv::keys, countAll, size and empty, and Kv::subKeys with its separator.
keys(c) ==
  Request("GET", c.key, GetDefaults \o <<<<"keys", 1>>>> \o c.params, 0)
subKeys(c) ==
  Request("GET", c.key, GetDefaults \o <<<<"keys", 1>>,
          <<"separator", Separator>>>> \o c.params, 0)

\* Kv::erase, eraseAll, clear.
erase(c) == Request("DELETE", c.key, Defaults, 0)
eraseAll(c) ==
  Request("DELETE", c.key, Defaults \o <<<<"recurse", 1>>>>, 0)

\* Kv::set.
set(c) == Request("PUT", c.key, Defaults \o c.params, c.val)

\* Mutant of compareSet: the expected index is not sent.
CompareSetPlain(c) == Request("PUT", c.key, Defaults \o c.params, c.val)

\* Kv::compareSet.
compareSet(c) ==
  Request("PUT", c.key, Defaults \o <<<<"cas", c.arg>>>> \o c.params, c.val)

\* Kv::compareErase.
compareErase(c) ==
  Request("DELETE", c.key, Defaults \o <<<<"cas", c.arg>>>>, 0)

\* Kv::lock for the client's own session.
lock(c, session) ==
  Request("PUT", c.key, Defaults \o <<<<"acquire", session>>>> \o c.params,
          c.val)

\* Kv::unlock.
unlock(c, session) ==
  Request("PUT", c.key, Defaults \o <<<<"release", session>>>> \o c.params,
          c.val)

KvRequest(cl, c) ==
  CASE c.op \in {"item", "get", "count"} -> item(c)
    [] c.op = "items" -> items(c)
    [] c.op \in {"keys", "countAll", "empty"} -> keys(c)
    [] c.op = "subKeys" -> subKeys(c)
    [] c.op = "erase" -> erase(c)
    [] c.op \in {"eraseAll", "clear"} -> eraseAll(c)
    [] c.op = "set" -> set(c)
    [] c.op = "compareSet" -> compareSet(c)
    [] c.op = "compareErase" -> compareErase(c)
    [] c.op = "lock" -> lock(c, cl)
    [] c.op = "unlock" -> unlock(c, cl)

----------------------------------------------------------------------------
(* Consul's store                                                          *)

\* Whether the store grants a PUT or DELETE with the given query.
Granted(e, q) ==
  /\ Has(q, "cas") => q.cas = e.ModifyIndex
  /\ Has(q, "acquire") => e.Session \in {NoText, q.acquire}
  /\ Has(q, "release") => e.Session = q.release

Written(e, r, i) ==
  LET q == r.query
      acquired == Has(q, "acquire") /\ e.Session = NoText
  IN [Value |-> r.data,
      CreateIndex |-> IF e.ModifyIndex = 0 THEN i ELSE e.CreateIndex,
      ModifyIndex |-> i,
      LockIndex |-> e.LockIndex + (IF acquired THEN 1 ELSE 0),
      Session |-> IF Has(q, "acquire") THEN q.acquire
                  ELSE IF Has(q, "release") THEN NoText ELSE e.Session]

\* The keys a GET with "keys" lists: up to the first separator after the
\* prefix when one is given.
Listed(s, r) ==
  LET cut(k) ==
        LET at == {i \in (Len(r.key) + 1)..Len(k) : k[i] = r.query.separator}
        IN IF ~Has(r.query, "separator") \/ at = {} THEN k
           ELSE SubSeq(k, 1, CHOOSE i \in at : \A j \in at : i <= j)
  IN {cut(k) : k \in Under(s, r.key)}

AnswerTo(s, r) ==
  LET one == r.key \in Present(s)
      some == Under(s, r.key) # {}
      there == IF Has(r.query, "recurse") \/ Has(r.query, "keys")
               THEN some ELSE one
  IN [code |-> IF r.verb = "GET" /\ ~there THEN 404 ELSE 200,
      ok |-> r.verb # "GET" /\ (r.key \in Keys => Granted(s[r.key], r.query)),
      entry |-> IF one THEN s[r.key] ELSE NoEntry,
      keys |-> IF Has(r.query, "keys") THEN Listed(s, r)
               ELSE Under(s, r.key),
      there |-> there]

StoreAfter(s, r, i) ==
  CASE r.verb = "PUT" /\ Granted(s[r.key], r.query) ->
         [s EXCEPT ![r.key] = Written(@, r, i)]
    [] r.verb = "DELETE" /\ Has(r.query, "recurse") ->
         [k \in Keys |-> IF IsPrefixOf(r.key, k) THEN NoEntry ELSE s[k]]
    [] r.verb = "DELETE" /\ ~Has(r.query, "recurse")
         /\ Granted(s[r.key], r.query) -> [s EXCEPT ![r.key] = NoEntry]
    [] OTHER -> s

----------------------------------------------------------------------------
(* Reading the answer                                                      *)

\* Kv::item, items and get_keys_impl: the data, an empty response for 404,
\* an exception for every other status.
get_impl(code) ==
  IF success(code) THEN "data" ELSE IF code = 404 THEN "absent" ELSE "throw"

\* load(KeyValue): every member from its field of the JSON object.
load(e) ==
  [value |-> e.Value, createIndex |-> e.CreateIndex,
   modifyIndex |-> e.ModifyIndex, lockIndex |-> e.LockIndex,
   session |-> e.Session]

ResultOf(c, r) ==
  LET read == get_impl(r.code)
  IN IF c.op \in Reads
     THEN [kind |-> read, ok |-> FALSE, there |-> r.there,
           item |-> IF read = "data" THEN load(r.entry) ELSE KeyValue,
           keys |-> IF read = "data" THEN r.keys ELSE {}]
     ELSE [kind |-> IF ~success(r.code) THEN throwStatusError(r.code)
                    ELSE IF c.op = "set" /\ ~r.ok THEN "UpdateError"
                    ELSE "bool",
           ok |-> r.ok /\ success(r.code), there |-> r.there,
           item |-> KeyValue, keys |-> {}]

----------------------------------------------------------------------------
KvStart(u) ==
  /\ use = u
  /\ store = [k \in Keys |-> NoEntry]
  /\ index = 0
  /\ call = [c \in Clients |-> Idle]
  /\ req = [c \in Clients |-> NoReq]
  /\ reply = [c \in Clients |-> NoReply]
  /\ outcome = [c \in Clients |-> NoResult]
  /\ seen = [c \in Clients |-> [key |-> <<>>, item |-> KeyValue]]
  /\ holds = [c \in Clients |-> {}]
  /\ wins = [k \in Keys |-> [i \in 0..MaxIndex |-> 0]]
  /\ faults = 0

KvInit == \E u \in Uses : KvStart(u)

\* A client calls an operation.  A compare-and-set works on what its last
\* item() returned, and counts the value up; unlock is given up at once.
Call(cl) ==
  /\ call[cl] = Idle /\ cl \in use.clients
  /\ \E op \in use.ops, k \in use.keys \cup {<<>>}, ps \in use.params :
       LET mine == seen[cl].key = k
           c == [op |-> op, key |-> IF op = "clear" THEN <<>> ELSE k,
                 arg |-> seen[cl].item.modifyIndex,
                 val |-> IF op = "compareSet" THEN seen[cl].item.value + 1
                         ELSE 0,
                 params |-> IF op \in {"erase", "eraseAll", "clear",
                                       "compareErase"} THEN <<>> ELSE ps]
       IN /\ k = <<>> => op \in {"items", "keys", "subKeys", "clear",
                                 "countAll", "empty", "eraseAll"}
          /\ op = "clear" => k = <<>>
          /\ op \in {"compareSet", "compareErase"} => mine
          /\ op = "unlock" => k \in holds[cl]
          /\ op = "lock" => k \notin holds[cl]
          /\ c.val <= MaxValue
          /\ call' = [call EXCEPT ![cl] = c]
          /\ req' = [req EXCEPT ![cl] = KvRequest(cl, c)]
          /\ outcome' = [outcome EXCEPT ![cl] = NoResult]
          /\ holds' = IF op = "unlock"
                      THEN [holds EXCEPT ![cl] = @ \ {k}] ELSE holds
  /\ UNCHANGED <<use, store, index, reply, seen, wins, faults>>

\* Consul serves a request; a change takes the next index.
Serve(cl) ==
  /\ req[cl].verb # "none"
  /\ reply[cl].code = 0
  /\ LET r == req[cl]
         changed == StoreAfter(store, r, index + 1) # store
     IN /\ changed => index < use.last
        /\ store' = StoreAfter(store, r, index + 1)
        /\ index' = IF changed THEN index + 1 ELSE index
        /\ reply' = [reply EXCEPT ![cl] = AnswerTo(store, r)]
        /\ wins' = IF call[cl].op \in {"compareSet", "compareErase"}
                       /\ AnswerTo(store, r).ok /\ changed
                   THEN [wins EXCEPT ![r.key][call[cl].arg] = @ + 1]
                   ELSE wins
  /\ UNCHANGED <<use, call, req, outcome, seen, holds, faults>>

\* Consul refuses without serving, for instance while it has no leader.
Refuse(cl) ==
  /\ req[cl].verb # "none"
  /\ reply[cl].code = 0
  /\ faults < MaxFaults
  /\ faults' = faults + 1
  /\ reply' = [reply EXCEPT ![cl] =
                 [NoReply EXCEPT !.code = 500,
                                 !.there = AnswerTo(store, req[cl]).there]]
  /\ UNCHANGED <<use, store, index, call, req, outcome, seen, holds, wins>>

\* The operation returns what its answer says.
KvReturn(cl) ==
  /\ reply[cl].code # 0
  /\ LET c == call[cl]
         res == ResultOf(c, reply[cl])
     IN /\ outcome' = [outcome EXCEPT ![cl] = res]
        /\ seen' = IF c.op = "item" /\ res.kind \in {"data", "absent"}
                   THEN [seen EXCEPT ![cl] = [key |-> c.key, item |-> res.item]]
                   ELSE seen
        /\ holds' = IF c.op = "lock" /\ res.ok
                    THEN [holds EXCEPT ![cl] = @ \cup {c.key}] ELSE holds
  /\ call' = [call EXCEPT ![cl] = Idle]
  /\ req' = [req EXCEPT ![cl] = NoReq]
  /\ reply' = [reply EXCEPT ![cl] = NoReply]
  /\ UNCHANGED <<use, store, index, wins, faults>>

\* The transfer fails before or after Consul served it, and the call throws.
Lose(cl) ==
  /\ req[cl].verb # "none"
  /\ faults < MaxFaults
  /\ faults' = faults + 1
  /\ outcome' = [outcome EXCEPT ![cl] = [NoResult EXCEPT !.kind = "runtime_error"]]
  /\ call' = [call EXCEPT ![cl] = Idle]
  /\ req' = [req EXCEPT ![cl] = NoReq]
  /\ reply' = [reply EXCEPT ![cl] = NoReply]
  /\ UNCHANGED <<use, store, index, seen, holds, wins>>

KvNext == \E cl \in Clients : \/ Call(cl) \/ Serve(cl) \/ Refuse(cl)
                              \/ KvReturn(cl) \/ Lose(cl)

KvSpec == KvInit /\ [][KvNext]_kvVars

----------------------------------------------------------------------------
(* Properties                                                              *)

\* Every variable has its type; the indexes of an entry are Consul's.
KvTypeOK ==
  /\ index \in 0..MaxIndex
  /\ \A k \in Keys : /\ store[k].CreateIndex <= store[k].ModifyIndex
                     /\ store[k].ModifyIndex <= index
                     /\ store[k].Session \in Clients \cup {NoText}
  /\ \A cl \in Clients :
       /\ call[cl].op \in use.ops \cup {"none"}
       /\ (call[cl].op = "none") = (req[cl].verb = "none")
       /\ seen[cl].item.modifyIndex <= index
  /\ faults \in 0..MaxFaults

\* Two compare-and-set operations that expect the same index of a key are
\* never both granted, whatever is erased, created again, retried after a
\* lost answer or set in between: an index is never used twice.
CasOnce == \A k \in Keys, i \in 1..MaxIndex : wins[k][i] <= 1

\* Clients that count a value up with item() and compareSet() alone lose no
\* increment: the granted operations went by different indexes, and the value
\* is their number.
NoLostUpdate ==
  use.ops \subseteq {"item", "compareSet"} =>
    \A k \in Keys :
      /\ \A i \in 0..MaxIndex : wins[k][i] <= 1
      /\ store[k].Value = Cardinality({i \in 0..MaxIndex : wins[k][i] = 1})

\* compareSet is refused only when the key has really changed since the item()
\* it goes by.
RefusedMeansChanged ==
  \A cl \in Clients :
     (/\ use.ops \subseteq {"item", "compareSet"}
      /\ call[cl].op = "compareSet" /\ reply[cl].code = 200 /\ ~reply[cl].ok)
       => reply[cl].entry.Value # seen[cl].item.value

\* A client whose lock() returned true and who has not called unlock() since
\* is the session Consul has on the key, so no two clients hold it; a lock
\* whose answer is lost and is tried again does not change this.  Nobody
\* erases the key.
LockExclusive ==
  use.ops \subseteq {"lock", "unlock", "set", "item"} =>
    \A cl \in Clients : \A k \in holds[cl] : store[k].Session = cl

\* item(), items() and keys() report nothing there only when Consul had
\* nothing there: an error of the server is never taken for an absent key.
AbsentIsAbsent ==
  \A cl \in Clients : outcome[cl].kind = "absent" => ~outcome[cl].there

\* The token of a request is the one its call was given, else the one of the
\* Kv object, and a request without either carries none: kv.h hands its own
\* default to every request, where an empty one hides the token of the Consul
\* object, "default token for all client requests" in consul.h.
TokenSent ==
  \A cl \in Clients :
     req[cl].verb # "none" =>
       LET token == get_opt("token", Kv.token, call[cl].params)
       IN /\ Has(req[cl].query, "token") <=> token # NoText
          /\ token # NoText => req[cl].query.token = token

\* What the clients of one store may rely on, although requests and answers
\* are lost and calls are made again.
KvReliable ==
  /\ KvTypeOK /\ CasOnce /\ NoLostUpdate /\ RefusedMeansChanged
  /\ LockExclusive /\ AbsentIsAbsent /\ TokenSent

============================================================================
