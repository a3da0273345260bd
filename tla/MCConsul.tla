------------------------------ MODULE MCConsul ------------------------------
(***************************************************************************)
(* The Consul client library, whose parts share no state, checked in one   *)
(* run: the HTTP client, the key/value client with its store, the registry *)
(* with the balancer's discovery, base64, the JSON parser, and the strings *)
(* and numbers it reads.  `unit' says which one of them a behaviour is     *)
(* about; the others stay where they start.                                *)
(***************************************************************************)
EXTENDS HttpClient, ConsulKv, ConsulRegistry, Base64, Json11, JsonScalars

VARIABLE unit

consulVars == <<unit, httpVars, kvVars, registryVars, b64Vars, jsonVars,
                scalarVars>>

ConsulInit ==
  /\ unit \in {"http", "kv", "registry", "base64", "json", "scalars"}
  /\ HttpInit /\ RegistryInit
  /\ IF unit = "kv" THEN KvInit ELSE KvStart(CHOOSE u \in Uses : u.ops = AllOps)
  /\ IF unit = "base64" THEN B64Init ELSE B64Start(<<>>)
  /\ IF unit = "json" THEN JsonInit ELSE JsonStart(<<>>, "STANDARD", NoValue)
  /\ IF unit = "scalars" THEN ScalarsInit ELSE ScalarsStart("number", <<>>, <<>>)

ConsulNext ==
  /\ \/ /\ unit = "http" /\ HttpNext
        /\ UNCHANGED <<kvVars, registryVars, b64Vars, jsonVars, scalarVars>>
     \/ /\ unit = "kv" /\ KvNext
        /\ UNCHANGED <<httpVars, registryVars, b64Vars, jsonVars, scalarVars>>
     \/ /\ unit = "registry" /\ RegistryNext
        /\ UNCHANGED <<httpVars, kvVars, b64Vars, jsonVars, scalarVars>>
     \/ /\ unit = "base64" /\ B64Next
        /\ UNCHANGED <<httpVars, kvVars, registryVars, jsonVars, scalarVars>>
     \/ /\ unit = "json" /\ JsonNext
        /\ UNCHANGED <<httpVars, kvVars, registryVars, b64Vars, scalarVars>>
     \/ /\ unit = "scalars" /\ ScalarsNext
        /\ UNCHANGED <<httpVars, kvVars, registryVars, b64Vars, jsonVars>>
  /\ UNCHANGED unit

ConsulSpec == ConsulInit /\ [][ConsulNext]_consulVars

----------------------------------------------------------------------------
(* The key/value store: clients that count, that also set and erase, that  *)
(* lock, and one client with every operation on two keys.                  *)

OneKey == <<"k">>
TwoKeys == {OneKey, <<"k", "/", "s">>}
WithToken == [dc |-> "", token |-> "root"]
NoKvToken == <<<<"dc", "dc1">>>>
OwnToken == <<<<"token", "kv">>, <<"token", "own">>>>
EmptyToken == <<<<"token", "">>>>

UseOf(clients, keySet, opSet, paramSets, n) ==
  [clients |-> clients, keys |-> keySet, ops |-> opSet, params |-> paramSets,
   last |-> n]

MCUses ==
  {UseOf(Clients, {OneKey}, {"item", "compareSet"}, {<<>>}, 3),
   UseOf(Clients, {OneKey},
         {"item", "set", "compareSet", "compareErase", "erase"}, {<<>>}, 3),
   UseOf(Clients, {OneKey}, {"lock", "unlock", "set"}, {<<>>}, 3),
   UseOf({"c1"}, TwoKeys, AllOps, {<<>>, OwnToken, EmptyToken}, 2)}

----------------------------------------------------------------------------
(* The registry: two ids, of which the one spells the encoding of the      *)
(* other.                                                                  *)

MCIds == {<<"a", "/">>, <<"a", "%", "2", "F">>}
MCTagLists == {<<"t", "u">>, <<"v", "u", "t">>}
MCTargets == {<<>>, <<"t", "u", "v">>}

----------------------------------------------------------------------------
(* JSON: two levels of arrays and objects over two scalars, every text of  *)
(* a few characters, objects long enough for a key twice, and deep arrays. *)

Nest(V) == V \cup {Array(<<a>>) : a \in V} \cup {Array(<<a, b>>) : a \in V, b \in V}
           \cup {Object({<<"s", a>>}) : a \in V}
           \cup {Object({<<"s", a>>, <<"t", b>>}) : a \in V, b \in V}

NestedValues == Nest(Nest({Scalar("s"), Object({})}))

Pieces == {<<"s", ":", "1">>, <<"s", ":", "{">>, <<"1", ":", "s">>, <<",">>,
           <<"}">>, <<"}", " ", "}">>}

MCTexts == SeqOf({"{", "}", "[", "]", ":", ",", "s", "1", " "}, 4)
           \cup {<<"{">> \o FlattenSeq(q) : q \in SeqOf(Pieces, 4)}
           \cup {[k \in 1..(2 * n) |-> IF k <= n THEN "[" ELSE "]"] : n \in 1..5}

MCCommentTexts == SeqOf({"[", "]", "1", ",", "/", "*", "nl", "bad"}, 5)

\* A letter, the characters with an escape, a control character without one,
\* and the bytes of U+2028 and U+2029.
SomeStrings == SeqOf({97, 34, 92, 10, 1, 226, 128, 168, 169}, 3)

\* Every text of the signs, two digits, the point, e and E.
SomeNumbers == SeqOf({43, 45, 48, 57, 46, 69, 101}, 5)
=============================================================================
