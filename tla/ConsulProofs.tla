---------------------------- MODULE ConsulProofs ----------------------------
(***************************************************************************)
(* Proofs about the Consul client library.                                 *)
(***************************************************************************)
EXTENDS HttpClient, ConsulRegistry, ConsulKv, Base64, Integers, TLAPS,
        WellFoundedInduction, FiniteSetTheorems

-----------------------------------------------------------------------------
(***************************************************************************)
(* The HTTP client: every call sets the options that earlier ones may have *)
(* left otherwise.                                                         *)
(***************************************************************************)
\* The options the requests and the callbacks read.
Options == {"HEADERFUNCTION", "CUSTOMREQUEST", "URL", "WRITEDATA", "HEADERDATA",
            "READDATA", "INFILESIZE", "method"}

\* The option a curl_easy_setopt changes, and what it makes of the value.
Target(name)       == IF name \in {"HTTPGET", "UPLOAD", "PUT"} THEN "method" ELSE name
Given(name, value) == IF name = "HTTPGET" THEN "GET"
                      ELSE IF name \in {"UPLOAD", "PUT"} THEN "PUT" ELSE value

Items(c) == {Script(c)[i] : i \in 1 .. Len(Script(c))}

\* Setting s is in force.
InForce(s) == opts[Target(s[1])] = Given(s[1], s[2])

HttpTypes ==
  /\ HttpTypeOK
  /\ cur.n \in Nat /\ cur.size \in Nat
  /\ (cur.n > 0 => cur.op \in Operations) /\ (cur.op # "put" => cur.size = 0)
  /\ Options \subseteq DOMAIN opts
  /\ pc \notin {"idle", "thrown"} => cur.n > 0
  /\ pc \in {"transfer", "body"} => srv \in [code : Codes, index : Indexes, body : Bodies]

\* The first k options of the call are in force and the others are still to be
\* set; whatever the handle had before is not looked at.
Setting ==
  pc = "setopt" =>
    /\ todo \in Seq(Items(cur))
    /\ \E k \in 0 .. Len(Script(cur)) :
         /\ Len(todo) = Len(Script(cur)) - k
         /\ \A i \in 1 .. Len(todo) : todo[i] = Script(cur)[k + i]
         /\ \A i \in 1 .. k : InForce(Script(cur)[i])
    /\ response = NoAnswer /\ ctx = 0

\* While the transfer runs all of them are.
Prepared == pc \in {"transfer", "body"} => \A s \in Items(cur) : InForce(s)

\* How far the answer has come.
Answering ==
  /\ pc = "transfer" => response.body = 0 /\ response.index = 0
  /\ pc = "body" => /\ response.code = srv.code /\ response.body <= srv.body
                    /\ cur.op = "get" => response.index = srv.index
                    /\ ctx = cur.size

HttpInv == HttpTypes /\ Setting /\ Prepared /\ RequestIsCall /\ Answering /\ ResultIsAnswer

\* curl_easy_setopt changes the one option it is about.
LEMMA SetOptDoes ==
  ASSUME NEW o, NEW name, NEW value, Target(name) \in DOMAIN o
  PROVE  /\ SetOpt(o, name, value)[Target(name)] = Given(name, value)
         /\ \A x \in DOMAIN o : x # Target(name) => SetOpt(o, name, value)[x] = o[x]
         /\ DOMAIN SetOpt(o, name, value) = DOMAIN o
<1>1. CASE name = "HTTPGET"
  BY <1>1 DEF SetOpt, Target, Given
<1>2. CASE name \in {"UPLOAD", "PUT"}
  BY <1>2 DEF SetOpt, Target, Given
<1>3. CASE name \notin {"HTTPGET", "UPLOAD", "PUT"}
  BY <1>3 DEF SetOpt, Target, Given
<1> QED BY <1>1, <1>2, <1>3

\* A tuple of six or nine elements, as a sequence.
LEMMA SixElements ==
  ASSUME NEW a, NEW b, NEW c, NEW d, NEW e, NEW f, NEW s, s = <<a, b, c, d, e, f>>
  PROVE  /\ s \in Seq({s[i] : i \in 1 .. Len(s)}) /\ Len(s) = 6
         /\ s[1] = a /\ s[2] = b /\ s[3] = c /\ s[4] = d /\ s[5] = e /\ s[6] = f
OBVIOUS

LEMMA NineElements ==
  ASSUME NEW a, NEW b, NEW c, NEW d, NEW e, NEW f, NEW g, NEW h, NEW k, NEW s,
         s = <<a, b, c, d, e, f, g, h, k>>
  PROVE  /\ s \in Seq({s[i] : i \in 1 .. Len(s)}) /\ Len(s) = 9
         /\ s[1] = a /\ s[2] = b /\ s[3] = c /\ s[4] = d /\ s[5] = e /\ s[6] = f
         /\ s[7] = g /\ s[8] = h /\ s[9] = k
OBVIOUS

LEMMA ScriptGet ==
  ASSUME NEW c, c.op = "get"
  PROVE  /\ Script(c) \in Seq(Items(c)) /\ Len(Script(c)) = 6
         /\ Script(c)[1] = <<"HEADERFUNCTION", "headerCallback">>
         /\ Script(c)[2] = <<"CUSTOMREQUEST", None>>
         /\ Script(c)[3] = <<"URL", c.url>>
         /\ Script(c)[4] = <<"WRITEDATA", <<"body", c.n>>>>
         /\ Script(c)[5] = <<"HEADERDATA", <<"GetResponse", c.n>>>>
         /\ Script(c)[6] = <<"HTTPGET", 1>>
<1>1. Script(c) = get(c.n, c.url)
  BY DEF Script
<1> QED BY <1>1, SixElements DEF get, Items

LEMMA ScriptPut ==
  ASSUME NEW c, c.op = "put"
  PROVE  /\ Script(c) \in Seq(Items(c)) /\ Len(Script(c)) = 9
         /\ Script(c)[1] = <<"HEADERFUNCTION", "headerStatusCallback">>
         /\ Script(c)[2] = <<"CUSTOMREQUEST", None>>
         /\ Script(c)[3] = <<"URL", c.url>>
         /\ Script(c)[4] = <<"WRITEDATA", <<"body", c.n>>>>
         /\ Script(c)[5] = <<"HEADERDATA", <<"Status", c.n>>>>
         /\ Script(c)[6] = <<"UPLOAD", 1>>
         /\ Script(c)[7] = <<"PUT", 1>>
         /\ Script(c)[8] = <<"INFILESIZE", c.size>>
         /\ Script(c)[9] = <<"READDATA", <<"ReadContext", c.n>>>>
<1>1. Script(c) = put(c.n, c.url, c.size)
  BY DEF Script
<1> QED BY <1>1, NineElements DEF put, Items

LEMMA ScriptDel ==
  ASSUME NEW c, c.op = "del"
  PROVE  /\ Script(c) \in Seq(Items(c)) /\ Len(Script(c)) = 6
         /\ Script(c)[1] = <<"HEADERFUNCTION", "headerStatusCallback">>
         /\ Script(c)[2] = <<"URL", c.url>>
         /\ Script(c)[3] = <<"WRITEDATA", <<"body", c.n>>>>
         /\ Script(c)[4] = <<"HEADERDATA", <<"Status", c.n>>>>
         /\ Script(c)[5] = <<"HTTPGET", 1>>
         /\ Script(c)[6] = <<"CUSTOMREQUEST", "DELETE">>
<1>1. Script(c) = del(c.n, c.url)
  BY DEF Script
<1> QED BY <1>1, SixElements DEF del, Items

\* No script sets an option to two values.
LEMMA ScriptFits ==
  ASSUME NEW c, c.op \in Operations
  PROVE  /\ Script(c) \in Seq(Items(c)) /\ Len(Script(c)) \in Nat \ {0}
         /\ \A i \in 1 .. Len(Script(c)) : Target(Script(c)[i][1]) \in Options
         /\ \A i, j \in 1 .. Len(Script(c)) :
              Target(Script(c)[i][1]) = Target(Script(c)[j][1]) =>
                Given(Script(c)[i][1], Script(c)[i][2]) = Given(Script(c)[j][1], Script(c)[j][2])
<1>1. CASE c.op = "get"
  <2>1. \A i \in 1 .. Len(Script(c)) : i \in {1, 2, 3, 4, 5, 6}
    <3>1. Len(Script(c)) = 6
      BY <1>1, ScriptGet
    <3> QED BY <3>1
  <2> QED BY <1>1, <2>1, ScriptGet, SMTT(30) DEF Target, Given, Options
<1>2. CASE c.op = "put"
  <2>1. \A i \in 1 .. Len(Script(c)) : i \in {1, 2, 3, 4, 5, 6, 7, 8, 9}
    <3>1. Len(Script(c)) = 9
      BY <1>2, ScriptPut
    <3> QED BY <3>1
  <2>2. /\ Target(Script(c)[1][1]) = "HEADERFUNCTION" /\ Target(Script(c)[2][1]) = "CUSTOMREQUEST"
        /\ Target(Script(c)[3][1]) = "URL" /\ Target(Script(c)[4][1]) = "WRITEDATA"
        /\ Target(Script(c)[5][1]) = "HEADERDATA" /\ Target(Script(c)[6][1]) = "method"
        /\ Target(Script(c)[7][1]) = "method" /\ Target(Script(c)[8][1]) = "INFILESIZE"
        /\ Target(Script(c)[9][1]) = "READDATA"
    BY <1>2, ScriptPut DEF Target
  <2>3. /\ Given(Script(c)[6][1], Script(c)[6][2]) = "PUT"
        /\ Given(Script(c)[7][1], Script(c)[7][2]) = "PUT"
    BY <1>2, ScriptPut DEF Given
  <2>4. Script(c) \in Seq(Items(c)) /\ Len(Script(c)) \in Nat \ {0}
    BY <1>2, ScriptPut
  <2>5. \A i, j \in 1 .. Len(Script(c)) :
          Target(Script(c)[i][1]) = Target(Script(c)[j][1]) =>
            Given(Script(c)[i][1], Script(c)[i][2]) = Given(Script(c)[j][1], Script(c)[j][2])
    <3> SUFFICES ASSUME NEW i \in 1 .. Len(Script(c)), NEW j \in 1 .. Len(Script(c)),
                        Target(Script(c)[i][1]) = Target(Script(c)[j][1])
                 PROVE  i = j \/ (i \in {6, 7} /\ j \in {6, 7})
      BY <2>3
    <3>1. ASSUME NEW m \in 1 .. Len(Script(c)), NEW x, x = Target(Script(c)[m][1])
          PROVE  /\ x = "HEADERFUNCTION" => m = 1
                 /\ x = "CUSTOMREQUEST" => m = 2
                 /\ x = "URL" => m = 3
                 /\ x = "WRITEDATA" => m = 4
                 /\ x = "HEADERDATA" => m = 5
                 /\ x = "INFILESIZE" => m = 8
                 /\ x = "READDATA" => m = 9
                 /\ x = "method" => m \in {6, 7}
                 /\ x \in Options
      BY <2>1, <2>2, <3>1 DEF Options
    <3>2. PICK x : x = Target(Script(c)[i][1])
      OBVIOUS
    <3> QED BY <3>1, <3>2 DEF Options
  <2>6. \A i \in 1 .. Len(Script(c)) : Target(Script(c)[i][1]) \in Options
    BY <2>1, <2>2 DEF Options
  <2> QED BY <2>4, <2>5, <2>6
<1>3. CASE c.op = "del"
  <2>1. \A i \in 1 .. Len(Script(c)) : i \in {1, 2, 3, 4, 5, 6}
    <3>1. Len(Script(c)) = 6
      BY <1>3, ScriptDel
    <3> QED BY <3>1
  <2> QED BY <1>3, <2>1, ScriptDel, SMTT(30) DEF Target, Given, Options
<1> QED BY <1>1, <1>2, <1>3 DEF Operations

\* What a script that has been carried out leaves, whatever was there before.
LEMMA ScriptDone ==
  ASSUME cur.op \in Operations, cur.op # "put" => cur.size = 0, \A s \in Items(cur) : InForce(s)
  PROVE  /\ CurlRequest(opts) = [verb |-> VerbOf[cur.op], url |-> cur.url, size |-> cur.size]
         /\ opts.HEADERFUNCTION = IF cur.op = "get" THEN "headerCallback" ELSE "headerStatusCallback"
         /\ opts.WRITEDATA = <<"body", cur.n>>
         /\ opts.HEADERDATA = <<IF cur.op = "get" THEN "GetResponse" ELSE "Status", cur.n>>
         /\ cur.op = "put" => opts.READDATA = <<"ReadContext", cur.n>>
<1>0. \A i \in 1 .. Len(Script(cur)) : InForce(Script(cur)[i])
  BY DEF Items
<1>1. CASE cur.op = "get"
  <2>1. Len(Script(cur)) = 6
    BY <1>1, ScriptGet
  <2>2. /\ InForce(Script(cur)[1]) /\ InForce(Script(cur)[2]) /\ InForce(Script(cur)[3])
        /\ InForce(Script(cur)[4]) /\ InForce(Script(cur)[5]) /\ InForce(Script(cur)[6])
    BY <1>0, <2>1
  <2>3. /\ InForce(<<"HEADERFUNCTION", "headerCallback">>) /\ InForce(<<"CUSTOMREQUEST", None>>)
        /\ InForce(<<"URL", cur.url>>) /\ InForce(<<"WRITEDATA", <<"body", cur.n>>>>)
        /\ InForce(<<"HEADERDATA", <<"GetResponse", cur.n>>>>) /\ InForce(<<"HTTPGET", 1>>)
    BY <1>1, <2>2, ScriptGet
  <2>4. /\ opts.HEADERFUNCTION = "headerCallback" /\ opts.CUSTOMREQUEST = None
        /\ opts.URL = cur.url /\ opts.WRITEDATA = <<"body", cur.n>>
        /\ opts.HEADERDATA = <<"GetResponse", cur.n>> /\ opts.method = "GET"
    BY <2>3 DEF InForce, Target, Given
  <2> QED BY <1>1, <2>4 DEF CurlRequest, VerbOf
<1>2. CASE cur.op = "put"
  <2>1. Len(Script(cur)) = 9
    BY <1>2, ScriptPut
  <2>2. /\ InForce(Script(cur)[1]) /\ InForce(Script(cur)[2]) /\ InForce(Script(cur)[3])
        /\ InForce(Script(cur)[4]) /\ InForce(Script(cur)[5]) /\ InForce(Script(cur)[6])
        /\ InForce(Script(cur)[7]) /\ InForce(Script(cur)[8]) /\ InForce(Script(cur)[9])
    BY <1>0, <2>1
  <2>3. /\ InForce(<<"HEADERFUNCTION", "headerStatusCallback">>) /\ InForce(<<"CUSTOMREQUEST", None>>)
        /\ InForce(<<"URL", cur.url>>) /\ InForce(<<"WRITEDATA", <<"body", cur.n>>>>)
        /\ InForce(<<"HEADERDATA", <<"Status", cur.n>>>>) /\ InForce(<<"PUT", 1>>)
        /\ InForce(<<"INFILESIZE", cur.size>>) /\ InForce(<<"READDATA", <<"ReadContext", cur.n>>>>)
    BY <1>2, <2>2, ScriptPut
  <2>4. /\ opts.HEADERFUNCTION = "headerStatusCallback" /\ opts.CUSTOMREQUEST = None
        /\ opts.URL = cur.url /\ opts.WRITEDATA = <<"body", cur.n>>
        /\ opts.HEADERDATA = <<"Status", cur.n>> /\ opts.method = "PUT"
        /\ opts.INFILESIZE = cur.size /\ opts.READDATA = <<"ReadContext", cur.n>>
    BY <2>3 DEF InForce, Target, Given
  <2> QED BY <1>2, <2>4 DEF CurlRequest, VerbOf
<1>3. CASE cur.op = "del"
  <2>1. Len(Script(cur)) = 6
    BY <1>3, ScriptDel
  <2>2. /\ InForce(Script(cur)[1]) /\ InForce(Script(cur)[2]) /\ InForce(Script(cur)[3])
        /\ InForce(Script(cur)[4]) /\ InForce(Script(cur)[5]) /\ InForce(Script(cur)[6])
    BY <1>0, <2>1
  <2>3. /\ InForce(<<"HEADERFUNCTION", "headerStatusCallback">>) /\ InForce(<<"URL", cur.url>>)
        /\ InForce(<<"WRITEDATA", <<"body", cur.n>>>>) /\ InForce(<<"HEADERDATA", <<"Status", cur.n>>>>)
        /\ InForce(<<"HTTPGET", 1>>) /\ InForce(<<"CUSTOMREQUEST", "DELETE">>)
    BY <1>3, <2>2, ScriptDel
  <2>4. /\ opts.HEADERFUNCTION = "headerStatusCallback" /\ opts.CUSTOMREQUEST = "DELETE"
        /\ opts.URL = cur.url /\ opts.WRITEDATA = <<"body", cur.n>>
        /\ opts.HEADERDATA = <<"Status", cur.n>> /\ opts.method = "GET"
    BY <2>3 DEF InForce, Target, Given
  <2> QED BY <1>3, <2>4 DEF CurlRequest, VerbOf, None
<1> QED BY <1>1, <1>2, <1>3 DEF Operations

LEMMA HttpInitFits == HttpInit => HttpInv
<1> SUFFICES ASSUME HttpInit PROVE HttpInv
  OBVIOUS
<1>1. /\ pc = "idle" /\ ctx = 0 /\ response = NoAnswer
      /\ cur.n = 0 /\ cur.op = None /\ cur.size = 0
  BY DEF HttpInit, NoCall
<1>2. Options \subseteq DOMAIN opts
  BY DEF HttpInit, constructor, FreshHandle, Options
<1>3. response \in [code : {0, 100} \cup Codes, index : {0} \cup Indexes, body : Bodies]
  BY <1>1 DEF NoAnswer, Bodies
<1>4. HttpTypes
  BY <1>1, <1>2, <1>3, SizesAssumption DEF HttpTypes, HttpTypeOK
<1> QED BY <1>1, <1>4 DEF HttpInv, Setting, Prepared, RequestIsCall, Answering, ResultIsAnswer

\* A call begins with its whole script before it.
LEMMA BeginFits ==
  ASSUME HttpInv, Begin
  PROVE  HttpInv'
<1>1. PICK op \in Operations, url \in Urls, bytes \in DataSizes :
        LET c == [n |-> cur.n + 1, op |-> op, url |-> url, size |-> IF op = "put" THEN bytes ELSE 0]
        IN  cur' = c /\ todo' = Script(c)
  BY DEF Begin
<1>2. /\ cur'.n = cur.n + 1 /\ cur'.op = op /\ todo' = Script(cur')
      /\ cur'.size = IF op = "put" THEN bytes ELSE 0
  BY <1>1
<1>3. cur'.n \in 0 .. MaxCalls /\ cur'.n \in Nat /\ cur'.n > 0 /\ cur'.size \in Nat
  BY <1>2, SizesAssumption DEF Begin, HttpInv, HttpTypes
<1>4. pc' = "setopt" /\ ctx' = 0 /\ response' = NoAnswer /\ UNCHANGED opts
  BY DEF Begin
<1>5. response' \in [code : {0, 100} \cup Codes, index : {0} \cup Indexes, body : Bodies]
  BY <1>4 DEF NoAnswer, Bodies
<1>6. HttpTypes'
  BY <1>2, <1>3, <1>4, <1>5 DEF HttpInv, HttpTypes, HttpTypeOK
<1>7. Setting'
  <2>1. todo' \in Seq(Items(cur')) /\ Len(Script(cur')) \in Nat
    BY <1>2, ScriptFits
  <2>2. /\ 0 \in 0 .. Len(Script(cur')) /\ Len(todo') = Len(Script(cur')) - 0
        /\ \A i \in 1 .. Len(todo') : todo'[i] = Script(cur')[0 + i]
        /\ 1 .. 0 = {}
    BY <1>2, <2>1
  <2> QED BY <1>4, <2>1, <2>2 DEF Setting
<1> QED BY <1>4, <1>6, <1>7 DEF HttpInv, Prepared, RequestIsCall, Answering, ResultIsAnswer

\* One more option is in force, and the earlier ones still are.
LEMMA SetoptFits ==
  ASSUME HttpInv, setopt
  PROVE  HttpInv'
<1>1. /\ pc = "setopt" /\ todo # <<>> /\ todo' = Tail(todo)
      /\ opts' = SetOpt(opts, Head(todo)[1], Head(todo)[2])
      /\ UNCHANGED <<cur, pc, ctx, srv, response, wire>>
  BY DEF setopt
<1>2. cur.op \in Operations
  BY <1>1 DEF HttpInv, HttpTypes
<1>3. PICK S : S = Script(cur)
  OBVIOUS
<1>4. PICK k \in 0 .. Len(S) :
        /\ Len(todo) = Len(S) - k
        /\ \A i \in 1 .. Len(todo) : todo[i] = S[k + i]
        /\ \A i \in 1 .. k : InForce(S[i])
  BY <1>1, <1>3 DEF HttpInv, Setting
<1>5. todo \in Seq(Items(cur)) /\ Len(todo) \in Nat /\ Len(todo) > 0 /\ Len(S) \in Nat
  BY <1>1, <1>2, <1>3, ScriptFits DEF HttpInv, Setting
<1>6. /\ todo' \in Seq(Items(cur)) /\ Len(todo') = Len(todo) - 1
      /\ \A i \in 1 .. Len(todo') : todo'[i] = todo[i + 1]
      /\ Head(todo) = todo[1]
  BY <1>1, <1>5
<1>7. k + 1 \in 0 .. Len(S) /\ k + 1 \in 1 .. Len(S) /\ Head(todo) = S[k + 1]
  BY <1>4, <1>5, <1>6
<1>8. /\ \A i \in 1 .. Len(S) : Target(S[i][1]) \in Options
      /\ \A i, j \in 1 .. Len(S) :
           Target(S[i][1]) = Target(S[j][1]) => Given(S[i][1], S[i][2]) = Given(S[j][1], S[j][2])
  BY <1>2, <1>3, ScriptFits
<1>9. Options \subseteq DOMAIN opts
  BY DEF HttpInv, HttpTypes
<1>10. /\ opts'[Target(S[k + 1][1])] = Given(S[k + 1][1], S[k + 1][2])
       /\ \A x \in DOMAIN opts : x # Target(S[k + 1][1]) => opts'[x] = opts[x]
       /\ DOMAIN opts' = DOMAIN opts
  <2>1. Target(S[k + 1][1]) \in DOMAIN opts
    BY <1>7, <1>8, <1>9
  <2> QED BY <1>1, <1>7, <2>1, SetOptDoes
<1>11. \A i \in 1 .. (k + 1) : opts'[Target(S[i][1])] = Given(S[i][1], S[i][2])
  <2> SUFFICES ASSUME NEW i \in 1 .. (k + 1)
               PROVE  opts'[Target(S[i][1])] = Given(S[i][1], S[i][2])
    OBVIOUS
  <2>1. i \in 1 .. Len(S) /\ (i \in 1 .. k \/ i = k + 1)
    BY <1>7
  <2>2. CASE Target(S[i][1]) = Target(S[k + 1][1])
    BY <1>7, <1>8, <1>10, <2>1, <2>2
  <2>3. CASE Target(S[i][1]) # Target(S[k + 1][1])
    BY <1>4, <1>8, <1>9, <1>10, <2>1, <2>3 DEF InForce
  <2> QED BY <2>2, <2>3
<1>12. HttpTypes'
  BY <1>1, <1>9, <1>10 DEF HttpInv, HttpTypes, HttpTypeOK
<1>13. Setting'
  <2>1. Len(todo') = Len(S) - (k + 1)
    BY <1>4, <1>5, <1>6
  <2>2. ASSUME NEW i \in 1 .. Len(todo') PROVE todo'[i] = S[(k + 1) + i]
    <3>1. i + 1 \in 1 .. Len(todo) /\ k + (i + 1) = (k + 1) + i
      BY <1>4, <1>5, <1>6
    <3>2. todo'[i] = todo[i + 1]
      BY <1>6
    <3>3. todo[i + 1] = S[k + (i + 1)]
      BY <1>4, <3>1
    <3> QED BY <3>1, <3>2, <3>3
  <2>3. \E n \in 0 .. Len(S) :
          /\ Len(todo') = Len(S) - n
          /\ \A i \in 1 .. Len(todo') : todo'[i] = S[n + i]
          /\ \A i \in 1 .. n : opts'[Target(S[i][1])] = Given(S[i][1], S[i][2])
    BY <1>7, <1>11, <2>1, <2>2
  <2>4. response' = NoAnswer /\ ctx' = 0
    BY <1>1 DEF HttpInv, Setting
  <2> QED BY <1>1, <1>3, <1>6, <2>3, <2>4 DEF Setting, InForce
<1> QED BY <1>1, <1>12, <1>13 DEF HttpInv, Prepared, RequestIsCall, Answering, ResultIsAnswer

\* An exception leaves the handle as it is; nothing is said of it until the next
\* call has set its options.
LEMMA ThrowFits ==
  ASSUME HttpInv, SetoptThrows \/ PerformThrows
  PROVE  HttpInv'
<1>1. pc' = "thrown" /\ UNCHANGED <<opts, cur, ctx, srv, response>>
  BY DEF SetoptThrows, PerformThrows
<1>2. HttpTypes'
  BY <1>1 DEF HttpInv, HttpTypes, HttpTypeOK
<1> QED BY <1>1, <1>2 DEF HttpInv, Setting, Prepared, RequestIsCall, Answering, ResultIsAnswer

\* The request is read off the options when all of them are in force.
LEMMA PerformFits ==
  ASSUME HttpInv, perform
  PROVE  HttpInv'
<1>1. /\ pc = "setopt" /\ todo = <<>> /\ wire' = CurlRequest(opts) /\ pc' = "transfer"
      /\ srv' \in [code : Codes, index : Indexes, body : Bodies]
      /\ UNCHANGED <<opts, cur, todo, ctx, response>>
  BY DEF perform
<1>2. cur.op \in Operations /\ (cur.op # "put" => cur.size = 0)
  BY <1>1 DEF HttpInv, HttpTypes
<1>3. \A s \in Items(cur) : InForce(s)
  <2>1. PICK k \in 0 .. Len(Script(cur)) :
          Len(todo) = Len(Script(cur)) - k /\ \A i \in 1 .. k : InForce(Script(cur)[i])
    BY <1>1 DEF HttpInv, Setting
  <2>2. Len(Script(cur)) \in Nat /\ Len(todo) = 0
    BY <1>1, <1>2, ScriptFits
  <2>3. k = Len(Script(cur))
    BY <2>1, <2>2
  <2> QED BY <2>1, <2>3 DEF Items
<1>4. wire' = [verb |-> VerbOf[cur.op], url |-> cur.url, size |-> cur.size]
  BY <1>1, <1>2, <1>3, ScriptDone
<1>5. response = NoAnswer /\ ctx = 0
  BY <1>1 DEF HttpInv, Setting
<1>6. HttpTypes'
  BY <1>1 DEF HttpInv, HttpTypes, HttpTypeOK
<1>7. Prepared'
  BY <1>1, <1>3 DEF Prepared, InForce
<1>8. RequestIsCall'
  BY <1>1, <1>4 DEF RequestIsCall
<1>9. Answering'
  BY <1>1, <1>5 DEF Answering, NoAnswer
<1> QED BY <1>1, <1>6, <1>7, <1>8, <1>9 DEF HttpInv, Setting, ResultIsAnswer

\* The data is handed over up to its size and not further.
LEMMA ReadFits ==
  ASSUME HttpInv, readCallback
  PROVE  HttpInv'
<1>1. /\ pc = "transfer" /\ wire.size > ctx
      /\ ctx' = ctx + (IF wire.size - ctx < BufferSize THEN wire.size - ctx ELSE BufferSize)
      /\ UNCHANGED <<opts, cur, todo, pc, wire, srv, response>>
  BY DEF readCallback
<1>2. wire.size = cur.size /\ cur.size \in Nat /\ ctx \in 0 .. cur.size
  BY <1>1 DEF HttpInv, RequestIsCall, HttpTypes, HttpTypeOK
<1>3. ctx' \in 0 .. cur.size
  BY <1>1, <1>2, SizesAssumption
<1>4. HttpTypes'
  BY <1>1, <1>3 DEF HttpInv, HttpTypes, HttpTypeOK
<1>5. Prepared'
  BY <1>1 DEF HttpInv, Prepared, InForce
<1> QED BY <1>1, <1>4, <1>5 DEF HttpInv, Setting, RequestIsCall, Answering, ResultIsAnswer

\* The fields of the response after a status line.
LEMMA StatusReplaced ==
  ASSUME NEW r \in [code : {0, 100} \cup Codes, index : {0} \cup Indexes, body : Bodies],
         NEW c \in {0, 100} \cup Codes
  PROVE  /\ parseStatus(r, c) \in [code : {0, 100} \cup Codes, index : {0} \cup Indexes, body : Bodies]
         /\ parseStatus(r, c).code = c
         /\ parseStatus(r, c).index = r.index /\ parseStatus(r, c).body = r.body
BY DEF parseStatus

LEMMA ContinueFits ==
  ASSUME HttpInv, Continue
  PROVE  HttpInv'
<1>1. /\ pc = "transfer" /\ response' = parseStatus(response, 100)
      /\ UNCHANGED <<opts, cur, todo, pc, wire, ctx, srv>>
  BY DEF Continue
<1>2. /\ response' \in [code : {0, 100} \cup Codes, index : {0} \cup Indexes, body : Bodies]
      /\ response'.index = response.index /\ response'.body = response.body
  BY <1>1, StatusReplaced DEF HttpInv, HttpTypes, HttpTypeOK
<1>3. HttpTypes'
  BY <1>1, <1>2 DEF HttpInv, HttpTypes, HttpTypeOK
<1>4. Prepared'
  BY <1>1 DEF HttpInv, Prepared, InForce
<1> QED BY <1>1, <1>2, <1>3, <1>4 DEF HttpInv, Setting, RequestIsCall, Answering, ResultIsAnswer

\* The status of the final head replaces that of a 100 Continue; the callback is
\* the one the call has set, so that a get has the index.
LEMMA HeadersFits ==
  ASSUME HttpInv, Headers
  PROVE  HttpInv'
<1>1. /\ pc = "transfer" /\ ctx = wire.size /\ pc' = "body"
      /\ response' = headerCallback(response, srv.code, srv.index)
      /\ UNCHANGED <<opts, cur, todo, wire, ctx, srv>>
  BY DEF Headers
<1>2. /\ cur.op \in Operations /\ (cur.op # "put" => cur.size = 0)
      /\ srv.code \in Codes /\ srv.index \in Indexes /\ srv.body \in Bodies
      /\ response \in [code : {0, 100} \cup Codes, index : {0} \cup Indexes, body : Bodies]
      /\ \A s \in Items(cur) : InForce(s)
      /\ wire.size = cur.size /\ response.body = 0
  BY <1>1 DEF HttpInv, HttpTypes, HttpTypeOK, Prepared, RequestIsCall, Answering
<1>3. opts.HEADERFUNCTION = IF cur.op = "get" THEN "headerCallback" ELSE "headerStatusCallback"
  BY <1>2, ScriptDone
<1>4. PICK r : r = parseStatus(response, srv.code)
  OBVIOUS
<1>5. /\ r \in [code : {0, 100} \cup Codes, index : {0} \cup Indexes, body : Bodies]
      /\ r.code = srv.code /\ r.body = 0
  <2>1. PICK c : c = srv.code
    OBVIOUS
  <2>2. c \in {0, 100} \cup Codes
    BY <1>2, <2>1
  <2>3. response \in [code : {0, 100} \cup Codes, index : {0} \cup Indexes, body : Bodies]
    BY <1>2
  <2>4. /\ parseStatus(response, c) \in [code : {0, 100} \cup Codes, index : {0} \cup Indexes, body : Bodies]
        /\ parseStatus(response, c).code = c
        /\ parseStatus(response, c).body = response.body
    BY <2>2, <2>3, StatusReplaced
  <2>5. r = parseStatus(response, c)
    BY <1>4, <2>1
  <2>6. response.body = 0
    BY <1>2
  <2> QED BY <2>1, <2>4, <2>5, <2>6
<1>6. response' = IF cur.op = "get" THEN [r EXCEPT !.index = srv.index] ELSE r
  BY <1>1, <1>3, <1>4 DEF headerCallback
<1>7. /\ response' \in [code : {0, 100} \cup Codes, index : {0} \cup Indexes, body : Bodies]
      /\ response'.code = srv.code /\ response'.body = 0
      /\ cur.op = "get" => response'.index = srv.index
  BY <1>2, <1>5, <1>6
<1>8. HttpTypes'
  BY <1>1, <1>7 DEF HttpInv, HttpTypes, HttpTypeOK
<1>9. Prepared'
  BY <1>1, <1>2 DEF Prepared, InForce
<1>10. Answering'
  BY <1>1, <1>2, <1>7 DEF Answering, Bodies
<1>11. RequestIsCall' /\ Setting' /\ ResultIsAnswer'
  BY <1>1 DEF HttpInv, RequestIsCall, Setting, ResultIsAnswer
<1> QED BY <1>8, <1>9, <1>10, <1>11 DEF HttpInv

LEMMA WriteFits ==
  ASSUME HttpInv, writeCallback
  PROVE  HttpInv'
<1>1. /\ pc = "body" /\ response.body < srv.body
      /\ response' = [response EXCEPT !.body = response.body + 1]
      /\ UNCHANGED <<opts, cur, todo, pc, wire, ctx, srv>>
  BY DEF writeCallback
<1>2. /\ response \in [code : {0, 100} \cup Codes, index : {0} \cup Indexes, body : Bodies]
      /\ srv.body \in Bodies
  BY <1>1 DEF HttpInv, HttpTypes, HttpTypeOK
<1>3. response.body + 1 \in Bodies /\ response.body + 1 <= srv.body
  BY <1>1, <1>2 DEF Bodies
<1>4. /\ response' \in [code : {0, 100} \cup Codes, index : {0} \cup Indexes, body : Bodies]
      /\ response'.body = response.body + 1
      /\ response'.code = response.code /\ response'.index = response.index
  BY <1>1, <1>2, <1>3
<1>5. HttpTypes'
  BY <1>1, <1>4 DEF HttpInv, HttpTypes, HttpTypeOK
<1>6. Prepared'
  BY <1>1 DEF HttpInv, Prepared, InForce
<1>7. Answering'
  BY <1>1, <1>3, <1>4 DEF HttpInv, Answering
<1> QED BY <1>1, <1>5, <1>6, <1>7 DEF HttpInv, Setting, RequestIsCall, ResultIsAnswer

LEMMA ReturnFits ==
  ASSUME HttpInv, HttpReturn
  PROVE  HttpInv'
<1>1. /\ pc = "body" /\ response.body = srv.body /\ pc' = "idle"
      /\ UNCHANGED <<opts, cur, todo, wire, ctx, srv, response>>
  BY DEF HttpReturn
<1>2. HttpTypes'
  BY <1>1 DEF HttpInv, HttpTypes, HttpTypeOK
<1>3. ResultIsAnswer'
  BY <1>1 DEF HttpInv, Answering, ResultIsAnswer
<1> QED BY <1>1, <1>2, <1>3 DEF HttpInv, Setting, Prepared, RequestIsCall, Answering

\* For every number of calls, every URL and size of data, and every configuration
\* of TLS: when a transfer starts, each option the call needs has been set by it.
THEOREM HttpInvariant == HttpSpec => []HttpInv
<1>1. HttpInv /\ [HttpNext]_httpVars => HttpInv'
  <2> SUFFICES ASSUME HttpInv, [HttpNext]_httpVars PROVE HttpInv'
    OBVIOUS
  <2>1. CASE HttpNext
    BY <2>1, BeginFits, SetoptFits, ThrowFits, PerformFits, ReadFits, ContinueFits, HeadersFits,
       WriteFits, ReturnFits DEF HttpNext
  <2>2. CASE UNCHANGED httpVars
    BY <2>2 DEF httpVars, HttpInv, HttpTypes, HttpTypeOK, Setting, Prepared, InForce, RequestIsCall,
                Answering, ResultIsAnswer
  <2> QED BY <2>1, <2>2
<1> QED BY <1>1, HttpInitFits, PTL DEF HttpSpec

\* Whatever options earlier calls left on the one handle, also those that threw
\* half way, a call sends its own request, writes to its own buffers only and
\* returns its own answer.
THEOREM CallsAreIndependent == HttpSpec => []CallsIndependent
<1>1. HttpInv => CallsIndependent
  <2> SUFFICES ASSUME HttpInv, pc \in {"transfer", "body"}
               PROVE  /\ opts.WRITEDATA = <<"body", cur.n>>
                      /\ opts.HEADERDATA =
                           <<IF opts.HEADERFUNCTION = "headerCallback" THEN "GetResponse" ELSE "Status",
                             cur.n>>
                      /\ wire.size > 0 => opts.READDATA = <<"ReadContext", cur.n>>
    BY DEF HttpInv, HttpTypes, CallsIndependent, BuffersLive
  <2>1. /\ cur.op \in Operations /\ (cur.op # "put" => cur.size = 0) /\ wire.size = cur.size
        /\ \A s \in Items(cur) : InForce(s)
    BY DEF HttpInv, HttpTypes, Prepared, RequestIsCall
  <2>2. /\ opts.HEADERFUNCTION = IF cur.op = "get" THEN "headerCallback" ELSE "headerStatusCallback"
        /\ opts.WRITEDATA = <<"body", cur.n>>
        /\ opts.HEADERDATA = <<IF cur.op = "get" THEN "GetResponse" ELSE "Status", cur.n>>
        /\ cur.op = "put" => opts.READDATA = <<"ReadContext", cur.n>>
    BY <2>1, ScriptDone
  <2> QED BY <2>1, <2>2
<1> QED BY <1>1, HttpInvariant, PTL

-----------------------------------------------------------------------------
(***************************************************************************)
(* The registry, from the calls of the Agent to the balancer's discovery.  *)
(***************************************************************************)
\* What Consul reads in a path is what encodeUrl was given; that holds of all
\* strings, which is a matter of induction over them.
PathsKept ==
  \A id \in Ids : /\ Decoded(encodeUrl(id)) = id
                  /\ Decoded(encodeUrl(serviceCheckId(id))) = serviceCheckId(id)

RegistryTypes ==
  /\ RegistryTypeOK
  /\ DOMAIN meant = Ids /\ DOMAIN said = Ids
  /\ checks \in [Ids -> [status : Statuses \cup {"none"}, kind : {"none", "ttl", "probe"}]]

\* What Resolve makes of the answer it waits for is what was wanted when Consul
\* was asked.
Found(q) == parseEntries(IF Len(q.tags) > 1 THEN filterEntries(q.entries, TagSet(Tail(q.tags)))
                         ELSE q.entries)

AnswerFits == query # NoQuery => Found(query) = query.healthy

RegistryInv == RegistryTypes /\ RegistryIsCalls /\ AnswerFits /\ ResolveExact

\* The id of a service's check names one service.
LEMMA CheckIdsDiffer ==
  ASSUME NEW d \in Ids, NEW id \in Ids, serviceCheckId(d) = serviceCheckId(id)
  PROVE  d = id
<1>1. PICK T : T = {d[k] : k \in DOMAIN d} \cup {id[k] : k \in DOMAIN id} \cup {"service", ":"}
  OBVIOUS
<1>2. d \in Seq(T) /\ id \in Seq(T)
  <2>1. d \in Seq({d[k] : k \in DOMAIN d}) /\ id \in Seq({id[k] : k \in DOMAIN id})
    BY RegistryAssumption
  <2> QED BY <1>1, <2>1
<1>3. PICK p \in Seq(T) : Len(p) = 2 /\ p = <<"service", ":">>
  <2>1. "service" \in T /\ ":" \in T
    BY <1>1
  <2>2. <<"service", ":">> \in Seq(T) /\ Len(<<"service", ":">>) = 2
    BY <2>1
  <2> QED BY <2>2
<1>4. p \o d = p \o id
  BY <1>3 DEF serviceCheckId
<1>5. Len(p \o d) = 2 + Len(d) /\ Len(p \o id) = 2 + Len(id)
  BY <1>2, <1>3
<1>6. Len(d) = Len(id) /\ Len(d) \in Nat
  BY <1>2, <1>4, <1>5
<1>7. \A k \in 1 .. Len(d) : (p \o d)[k + 2] = d[k] /\ (p \o id)[k + 2] = id[k]
  BY <1>2, <1>3, <1>6
<1> QED BY <1>2, <1>4, <1>6, <1>7

LEMMA RegistryInitFits == RegistryInit => RegistryInv
<1> SUFFICES ASSUME RegistryInit PROVE RegistryInv
  OBVIOUS
<1>1. /\ \A id \in Ids : /\ services[id] = NoService /\ meant[id] = NoService
                         /\ checks[id] = NoCheck /\ said[id] = "none"
      /\ DOMAIN services = Ids /\ DOMAIN meant = Ids /\ DOMAIN checks = Ids /\ DOMAIN said = Ids
  BY DEF RegistryInit
<1>2. checks \in [Ids -> [status : Statuses \cup {"none"}, kind : {"none", "ttl", "probe"}]]
  BY DEF RegistryInit, NoCheck
<1>3. RegistryTypes
  <2>1. ops \in 0 .. MaxOps /\ node \in Statuses \cup {"none"}
    BY RegistryAssumption DEF RegistryInit
  <2>2. NoService.name = "none" /\ NoCheck.status = "none"
    BY DEF NoService, NoCheck
  <2> QED BY <1>1, <1>2, <2>1, <2>2 DEF RegistryTypes, RegistryTypeOK
<1>4. RegistryIsCalls /\ AnswerFits /\ ResolveExact
  BY <1>1 DEF RegistryInit, RegistryIsCalls, AnswerFits, ResolveExact, NoCheck
<1> QED BY <1>3, <1>4 DEF RegistryInv

\* A call of the Agent leaves the discovery alone.
LEMMA AgentCalls ==
  ASSUME RegistryTypes, AgentCall
  PROVE  ops' \in 0 .. MaxOps /\ UNCHANGED <<query, resolved>>
BY RegistryAssumption DEF AgentCall, RegistryTypes, RegistryTypeOK

LEMMA RegisterFits ==
  ASSUME RegistryInv, NEW id \in Ids, NEW name \in Names, NEW tags \in TagLists,
         NEW address \in {"", "host"}, NEW kind \in Kinds,
         registerService(id, name, tags, address, kind)
  PROVE  RegistryInv'
<1>0. ops' \in 0 .. MaxOps /\ UNCHANGED <<query, resolved, node>>
  BY AgentCalls DEF RegistryInv, registerService
<1>1. PICK srvc : srvc = [name |-> name, tags |-> tags, address |-> address]
  OBVIOUS
<1>2. PICK fields : fields = IF kind = "none" THEN {} ELSE CheckFields(kind)
  OBVIOUS
<1>3. (fields = {}) <=> (kind = "none")
  BY <1>2, RegistryAssumption DEF CheckFields
<1>4. PICK new : new = IF fields = {} THEN checks[id]
                       ELSE [status |-> "critical", kind |-> IF "ttl" \in fields THEN "ttl" ELSE "probe"]
  OBVIOUS
<1>5. /\ services' = [services EXCEPT ![id] = srvc] /\ meant' = [meant EXCEPT ![id] = srvc]
      /\ checks' = [checks EXCEPT ![id] = new]
      /\ said' = [said EXCEPT ![id] = IF kind = "none" THEN said[id] ELSE "critical"]
  BY <1>1, <1>2, <1>4 DEF registerService, serviceRegistrationJson, Registration
<1>6. new \in [status : Statuses \cup {"none"}, kind : {"none", "ttl", "probe"}]
  BY <1>4 DEF RegistryInv, RegistryTypes, Statuses
<1>7. checks' \in [Ids -> [status : Statuses \cup {"none"}, kind : {"none", "ttl", "probe"}]]
  BY <1>5, <1>6 DEF RegistryInv, RegistryTypes
<1>8. /\ services'[id] = srvc /\ meant'[id] = srvc /\ checks'[id] = new
      /\ said'[id] = IF kind = "none" THEN said[id] ELSE "critical"
      /\ \A d \in Ids : d # id => /\ services'[d] = services[d] /\ meant'[d] = meant[d]
                                  /\ checks'[d] = checks[d] /\ said'[d] = said[d]
      /\ DOMAIN services' = Ids /\ DOMAIN meant' = Ids /\ DOMAIN said' = Ids /\ DOMAIN checks' = Ids
  BY <1>5 DEF RegistryInv, RegistryTypes, RegistryTypeOK
<1>9. srvc.name \in Names /\ srvc # NoService
  BY <1>1, RegistryAssumption DEF NoService
<1>10. RegistryTypes'
  <2>1. \A d \in Ids : checks'[d].status \in Statuses \cup {"none"}
    BY <1>7
  <2> QED BY <1>0, <1>7, <1>8, <1>9, <2>1 DEF RegistryInv, RegistryTypes, RegistryTypeOK
<1>11. RegistryIsCalls'
  <2>1. new.status = IF kind = "none" THEN checks[id].status ELSE "critical"
    BY <1>3, <1>4
  <2> QED BY <1>8, <2>1 DEF RegistryInv, RegistryIsCalls
<1> QED BY <1>0, <1>10, <1>11 DEF RegistryInv, AnswerFits, ResolveExact

LEMMA DeregisterFits ==
  ASSUME PathsKept, RegistryInv, NEW id \in Ids, deregisterService(id)
  PROVE  RegistryInv'
<1>0. ops' \in 0 .. MaxOps /\ UNCHANGED <<query, resolved, node>>
  BY AgentCalls DEF RegistryInv, deregisterService
<1>1. /\ services' = [services EXCEPT ![id] = NoService] /\ checks' = [checks EXCEPT ![id] = NoCheck]
      /\ meant' = [meant EXCEPT ![id] = NoService] /\ said' = [said EXCEPT ![id] = "none"]
  BY DEF deregisterService, PathsKept
<1>2. NoCheck \in [status : Statuses \cup {"none"}, kind : {"none", "ttl", "probe"}]
  BY DEF NoCheck
<1>3. checks' \in [Ids -> [status : Statuses \cup {"none"}, kind : {"none", "ttl", "probe"}]]
  BY <1>1, <1>2 DEF RegistryInv, RegistryTypes
<1>4. /\ services'[id] = NoService /\ meant'[id] = NoService /\ checks'[id] = NoCheck /\ said'[id] = "none"
      /\ \A d \in Ids : d # id => /\ services'[d] = services[d] /\ meant'[d] = meant[d]
                                  /\ checks'[d] = checks[d] /\ said'[d] = said[d]
      /\ DOMAIN services' = Ids /\ DOMAIN meant' = Ids /\ DOMAIN said' = Ids /\ DOMAIN checks' = Ids
  BY <1>1 DEF RegistryInv, RegistryTypes, RegistryTypeOK
<1>5. RegistryTypes'
  <2>1. \A d \in Ids : checks'[d].status \in Statuses \cup {"none"}
    BY <1>3
  <2>2. NoService.name = "none"
    BY DEF NoService
  <2> QED BY <1>0, <1>3, <1>4, <2>1, <2>2 DEF RegistryInv, RegistryTypes, RegistryTypeOK
<1>6. RegistryIsCalls'
  BY <1>4 DEF RegistryInv, RegistryIsCalls, NoCheck
<1> QED BY <1>0, <1>5, <1>6 DEF RegistryInv, AnswerFits, ResolveExact

\* A status reported by the service, or found by the agent's own probe, changes
\* the check of that service.
LEMMA StatusFitsCheck ==
  ASSUME PathsKept, RegistryInv, NEW id \in Ids, NEW status \in Statuses,
         updateServiceCheck(id, status) \/ Probe(id, status)
  PROVE  RegistryInv'
<1>0. ops' \in 0 .. MaxOps /\ UNCHANGED <<query, resolved, node, services, meant>>
  BY AgentCalls DEF RegistryInv, RegistryTypes, RegistryTypeOK, updateServiceCheck, Probe
<1>1. checks \in [Ids -> [status : Statuses \cup {"none"}, kind : {"none", "ttl", "probe"}]]
  BY DEF RegistryInv, RegistryTypes
<1>2. PICK new : new = [checks[id] EXCEPT !.status = status]
  OBVIOUS
<1>3. new \in [status : Statuses \cup {"none"}, kind : {"none", "ttl", "probe"}] /\ new.status = status
  BY <1>1, <1>2
<1>4. \/ UNCHANGED <<checks, said>>
      \/ /\ checks[id].kind # "none" /\ checks' = [checks EXCEPT ![id] = new]
         /\ said' = [said EXCEPT ![id] = status]
  <2>1. CASE Probe(id, status)
    BY <1>1, <1>2, <2>1 DEF Probe
  <2>2. CASE updateServiceCheck(id, status)
    <3>1. StatusOf(updateCheckUrl(status)) = status
      BY DEF StatusOf, updateCheckUrl, Statuses
    <3>2. \A d \in Ids : serviceCheckId(d) = serviceCheckId(id) <=> d = id
      BY CheckIdsDiffer
    <3>3. checks' = [d \in Ids |-> IF d = id /\ checks[d].kind = "ttl"
                                   THEN [checks[d] EXCEPT !.status = status] ELSE checks[d]]
      BY <2>2, <3>1, <3>2 DEF updateServiceCheck, PathsKept
    <3>4. said' = IF checks[id].kind = "ttl" THEN [said EXCEPT ![id] = status] ELSE said
      BY <2>2 DEF updateServiceCheck
    <3>5. CASE checks[id].kind = "ttl"
      <4>1. checks' = [checks EXCEPT ![id] = new]
        BY <1>1, <1>2, <3>3, <3>5
      <4> QED BY <3>4, <3>5, <4>1
    <3>6. CASE checks[id].kind # "ttl"
      <4>1. checks' = checks
        BY <1>1, <3>3, <3>6
      <4> QED BY <3>4, <3>6, <4>1
    <3> QED BY <3>5, <3>6
  <2> QED BY <2>1, <2>2
<1>5. CASE UNCHANGED <<checks, said>>
  BY <1>0, <1>5 DEF RegistryInv, RegistryTypes, RegistryTypeOK, RegistryIsCalls, AnswerFits, ResolveExact
<1>6. CASE /\ checks[id].kind # "none" /\ checks' = [checks EXCEPT ![id] = new]
           /\ said' = [said EXCEPT ![id] = status]
  <2>1. checks' \in [Ids -> [status : Statuses \cup {"none"}, kind : {"none", "ttl", "probe"}]]
    BY <1>1, <1>3, <1>6
  <2>2. /\ checks'[id] = new /\ said'[id] = status /\ DOMAIN said' = Ids /\ DOMAIN checks' = Ids
        /\ \A d \in Ids : d # id => checks'[d] = checks[d] /\ said'[d] = said[d]
    BY <1>1, <1>6 DEF RegistryInv, RegistryTypes
  <2>3. services[id] # NoService
    BY <1>6 DEF RegistryInv, RegistryTypes, RegistryTypeOK, NoCheck
  <2>4. RegistryTypes'
    <3>1. \A d \in Ids : checks'[d].status \in Statuses \cup {"none"}
      BY <2>1
    <3> QED BY <1>0, <2>1, <2>2, <2>3, <3>1 DEF RegistryInv, RegistryTypes, RegistryTypeOK
  <2>5. RegistryIsCalls'
    BY <1>0, <1>3, <2>2 DEF RegistryInv, RegistryIsCalls
  <2> QED BY <1>0, <2>4, <2>5 DEF RegistryInv, AnswerFits, ResolveExact
<1> QED BY <1>4, <1>5, <1>6

\* The query's first tag is Consul's to look at and the others are
\* filterEntries': together they are the tags of the target.
LEMMA TagsSplit ==
  ASSUME NEW tags \in Targets, NEW S
  PROVE  (TagSet(tags) \subseteq S) <=>
           /\ tags # <<>> => tags[1] \in S
           /\ Len(tags) > 1 => \A t \in TagSet(Tail(tags)) : t \in S
<1>1. PICK T : T = {tags[k] : k \in DOMAIN tags}
  OBVIOUS
<1>2. tags \in Seq(T)
  BY <1>1, RegistryAssumption
<1>3. CASE Len(tags) = 0
  BY <1>2, <1>3 DEF TagSet
<1>4. CASE Len(tags) = 1
  BY <1>2, <1>4 DEF TagSet
<1>5. CASE Len(tags) > 1
  <2>1. /\ Len(Tail(tags)) = Len(tags) - 1 /\ tags # <<>>
        /\ \A k \in 1 .. Len(Tail(tags)) : Tail(tags)[k] = tags[k + 1]
    BY <1>2, <1>5
  <2>2. \A k \in 1 .. Len(tags) : k = 1 \/ (k - 1 \in 1 .. Len(Tail(tags)) /\ tags[k] = Tail(tags)[k - 1])
    BY <1>2, <2>1
  <2>3. \A x : x \in TagSet(tags) <=> (x = tags[1] \/ x \in TagSet(Tail(tags)))
    BY <1>2, <1>5, <2>1, <2>2 DEF TagSet
  <2> QED BY <1>5, <2>1, <2>3
<1>6. Len(tags) \in Nat
  BY <1>2
<1>7. Len(tags) = 0 \/ Len(tags) = 1 \/ Len(tags) > 1
  <2>1. PICK n \in Nat : n = Len(tags)
    BY <1>6
  <2>2. n = 0 \/ n = 1 \/ n > 1
    OBVIOUS
  <2> QED BY <2>1, <2>2, Zenon
<1> QED BY <1>3, <1>4, <1>5, <1>7, Zenon

\* Consul's answer, filtered, has the servers the calls of the Agent stand for.
LEMMA QueryFits ==
  ASSUME RegistryInv, NEW name \in Names, NEW tags \in Targets, Query(name, tags)
  PROVE  RegistryInv'
<1>1. PICK hit : hit = {d \in Ids : /\ services[d].name = name
                                    /\ tags # <<>> => tags[1] \in TagSet(services[d].tags)
                                    /\ checks[d].status \in {"none", "passing"}
                                    /\ node \in {"none", "passing"}}
  OBVIOUS
<1>2. PICK E : E = {[id |-> d, tags |-> services[d].tags, address |-> services[d].address] : d \in hit}
  OBVIOUS
<1>3. PICK W : W = {d \in Ids : /\ meant[d].name = name
                                /\ TagSet(tags) \subseteq TagSet(meant[d].tags)
                                /\ said[d] \in {"none", "passing"}
                                /\ node \in {"none", "passing"}}
  OBVIOUS
<1>4. /\ query' = [tags |-> tags, healthy |-> Wanted(name, tags), entries |-> E]
      /\ UNCHANGED <<services, checks, node, meant, said, ops, resolved>>
  BY <1>1, <1>2 DEF Query, registry
<1>5. PICK some : some = IF Len(tags) > 1 THEN filterEntries(E, TagSet(Tail(tags))) ELSE E
  OBVIOUS
<1>6. \A d : d \in W <=> /\ d \in hit
                         /\ Len(tags) > 1 => \A t \in TagSet(Tail(tags)) : t \in TagSet(services[d].tags)
  BY <1>1, <1>3, TagsSplit, ZenonT(30) DEF RegistryInv, RegistryIsCalls
<1>7. \A e : e \in some <=>
        \E d \in W : e = [id |-> d, tags |-> services[d].tags, address |-> services[d].address]
  BY <1>2, <1>5, <1>6 DEF filterEntries
<1>8. parseEntries(some) = Wanted(name, tags)
  <2>1. W \subseteq Ids /\ \A d \in W : services[d] = meant[d]
    BY <1>3 DEF RegistryInv, RegistryIsCalls
  <2> DEFINE At(a) == IF a # "" THEN a ELSE NodeAddress
             Entry(d) == [id |-> d, tags |-> services[d].tags, address |-> services[d].address]
             Server(d) == [id |-> d, address |-> At(services[d].address)]
  <2>2. \A d \in W : Server(d) = [id |-> d, address |-> IF meant[d].address = "" THEN NodeAddress
                                                        ELSE meant[d].address]
    BY <2>1
  <2>3. \A x : x \in Wanted(name, tags) <=> \E d \in W : x = Server(d)
    <3>1. \A x : x \in Wanted(name, tags) <=>
            \E d \in W : x = [id |-> d, address |-> IF meant[d].address = "" THEN NodeAddress
                                                    ELSE meant[d].address]
      BY <1>3 DEF Wanted
    <3> DEFINE Meant(d) == [id |-> d, address |-> IF meant[d].address = "" THEN NodeAddress
                                                  ELSE meant[d].address]
    <3>2. \A d \in W : Server(d) = Meant(d)
      BY <2>2
    <3>3. \A x : x \in Wanted(name, tags) <=> \E d \in W : x = Meant(d)
      BY <3>1
    <3> HIDE DEF Server, Meant
    <3> QED BY <3>2, <3>3, Zenon
  <2>4. \A d : [id |-> Entry(d).id, address |-> At(Entry(d).address)] = Server(d)
    OBVIOUS
  <2>5. \A x : x \in parseEntries(some) <=> \E e \in some : x = [id |-> e.id, address |-> At(e.address)]
    BY DEF parseEntries
  <2>6. \A e : e \in some <=> \E d \in W : e = Entry(d)
    BY <1>7
  <2> HIDE DEF Server, Entry, At
  <2>7. \A x : x \in parseEntries(some) <=> \E d \in W : x = Server(d)
    BY <2>4, <2>5, <2>6, Zenon
  <2>8. \A x : x \in parseEntries(some) <=> x \in Wanted(name, tags)
    BY <2>3, <2>7, Zenon
  <2> QED BY <2>8 DEF parseEntries, Wanted
<1>9. AnswerFits'
  <2>1. query'.tags = tags /\ query'.healthy = Wanted(name, tags) /\ query'.entries = E
    BY <1>4
  <2> QED BY <1>5, <1>8, <2>1 DEF AnswerFits, Found
<1> QED BY <1>4, <1>9 DEF RegistryInv, RegistryTypes, RegistryTypeOK, RegistryIsCalls, ResolveExact

\* For every set of ids, names and tags: Consul holds what the calls meant, and
\* the answer the balancer waits for stands for what they meant when it asked.
THEOREM RegistryInvariant == ASSUME PathsKept PROVE RegistrySpec => []RegistryInv
<1>1. RegistryInv /\ [RegistryNext]_registryVars => RegistryInv'
  <2> SUFFICES ASSUME RegistryInv, [RegistryNext]_registryVars PROVE RegistryInv'
    OBVIOUS
  <2>1. ASSUME NEW id \in Ids, NEW name \in Names, NEW tags \in TagLists, NEW address \in {"", "host"},
               NEW kind \in Kinds, registerService(id, name, tags, address, kind)
        PROVE  RegistryInv'
    BY <2>1, RegisterFits
  <2>2. ASSUME NEW id \in Ids, deregisterService(id) PROVE RegistryInv'
    BY <2>2, DeregisterFits
  <2>3. ASSUME NEW id \in Ids, NEW status \in Statuses, updateServiceCheck(id, status) \/ Probe(id, status)
        PROVE  RegistryInv'
    BY <2>3, StatusFitsCheck
  <2>4. ASSUME NEW status \in {"none"} \cup Statuses, NodeCheck(status) PROVE RegistryInv'
    <3>1. /\ ops' \in 0 .. MaxOps /\ node' = status
          /\ UNCHANGED <<services, checks, meant, said, query, resolved>>
      BY <2>4, AgentCalls DEF NodeCheck, RegistryInv
    <3> QED BY <3>1 DEF RegistryInv, RegistryTypes, RegistryTypeOK, RegistryIsCalls, AnswerFits, ResolveExact
  <2>5. ASSUME NEW name \in Names, NEW tags \in Targets, Query(name, tags) PROVE RegistryInv'
    BY <2>5, QueryFits
  <2>6. CASE Resolve
    <3>1. /\ resolved' = [got |-> Found(query), wanted |-> query.healthy] /\ query' = NoQuery
          /\ UNCHANGED <<services, checks, node, meant, said, ops>> /\ query # NoQuery
      BY <2>6 DEF Resolve, Found, registry
    <3>2. ResolveExact'
      BY <3>1 DEF RegistryInv, AnswerFits, ResolveExact
    <3> QED BY <3>1, <3>2 DEF RegistryInv, RegistryTypes, RegistryTypeOK, RegistryIsCalls, AnswerFits
  <2>7. CASE UNCHANGED registryVars
    BY <2>7 DEF registryVars, registry, RegistryInv, RegistryTypes, RegistryTypeOK, RegistryIsCalls,
                AnswerFits, ResolveExact
  <2> QED BY <2>1, <2>2, <2>3, <2>4, <2>5, <2>6, <2>7 DEF RegistryNext
<1> QED BY <1>1, RegistryInitFits, PTL DEF RegistrySpec

\* From the registration to the discovery nothing is mixed up or lost, provided
\* that Consul reads in a path the id that encodeUrl was given.
THEOREM RegistryAlwaysFaithful == ASSUME PathsKept PROVE RegistrySpec => []RegistryFaithful
<1>1. RegistryInv => RegistryFaithful
  BY DEF RegistryInv, RegistryTypes, RegistryFaithful
<1> QED BY <1>1, RegistryInvariant, PTL
-----------------------------------------------------------------------------
(***************************************************************************)
(* The key/value client: what a request asks for, what the store makes of  *)
(* it, and what the clients may conclude.                                  *)
(***************************************************************************)
\* An entry of the store, and the operations by what they do.
Entry == [Value : Nat, CreateIndex : Nat, ModifyIndex : Nat, LockIndex : Nat,
          Session : Clients \cup {NoText}]
Compares == {"compareSet", "compareErase"}
Erases == {"erase", "eraseAll", "clear", "compareErase"}
\* The keyword arguments that a caller may give.
Params == Seq(CallKeywords \X STRING)
Puts == {"set", "compareSet", "lock", "unlock"}
\* The operations that work on the whole store too.
AnyKey == {"items", "keys", "subKeys", "clear", "countAll", "empty", "eraseAll"}

\* The types of the variables.
KvTypes ==
  /\ use \in Uses /\ index \in 0 .. MaxIndex /\ faults \in 0 .. MaxFaults
  /\ store \in [Keys -> Entry]
  /\ wins \in [Keys -> [0 .. MaxIndex -> Nat]]
  /\ DOMAIN call = Clients /\ DOMAIN req = Clients /\ DOMAIN reply = Clients
  /\ DOMAIN outcome = Clients /\ DOMAIN seen = Clients /\ DOMAIN holds = Clients
  /\ \A cl \in Clients : holds[cl] \subseteq Keys

\* An entry of the store has been written by a change that is counted.
Entries ==
  \A k \in Keys : /\ store[k].CreateIndex <= store[k].ModifyIndex
                  /\ store[k].ModifyIndex <= index
                  /\ store[k].ModifyIndex = 0 => store[k] = NoEntry

\* A client that is in a call has sent the request of that call, which goes
\* by what the client has seen.
Calling(cl) ==
  IF call[cl].op = "none"
  THEN call[cl] = Idle /\ req[cl] = NoReq /\ reply[cl] = NoReply
  ELSE /\ call[cl].op \in use.ops
       /\ call[cl].key \in Keys \/ (call[cl].op \in AnyKey /\ call[cl].key = <<>>)
       /\ call[cl].val \in Nat
       /\ call[cl].params \in use.params \cup {<<>>}
       /\ call[cl].op \in Erases => call[cl].params = <<>>
       /\ call[cl].op \in Compares => /\ seen[cl].key = call[cl].key
                                      /\ call[cl].arg = seen[cl].item.modifyIndex
       /\ call[cl].op = "unlock" => call[cl].key \notin holds[cl]
       /\ call[cl].op = "compareSet" => call[cl].val = seen[cl].item.value + 1
       /\ req[cl] = KvRequest(cl, call[cl])

\* What a client was sent, and what it has kept of it.
Read(cl) ==
  /\ seen[cl].item.modifyIndex \in 0 .. index /\ seen[cl].item.value \in Nat
  /\ reply[cl].code \in {0, 200, 404, 500}
  /\ reply[cl].entry.ModifyIndex \in 0 .. index /\ reply[cl].entry.Value \in Nat
  /\ reply[cl].code = 404 => ~ reply[cl].there
  /\ (call[cl].op = "item" /\ reply[cl].code = 404) => reply[cl].entry = NoEntry
  /\ reply[cl].ok => reply[cl].code = 200

\* No entry has an index that a compare-and-set has used up.
UsedUp ==
  \A k \in Keys, i \in 1 .. MaxIndex :
    /\ wins[k][i] <= 1
    /\ wins[k][i] # 0 => i <= index /\ store[k].ModifyIndex # i

\* Where clients only count, the value of an entry grows with its index.
Older(i, v, k) ==
  /\ i <= store[k].ModifyIndex
  /\ i = store[k].ModifyIndex => v = store[k].Value
  /\ i < store[k].ModifyIndex => v < store[k].Value

\* The values that clients have read are those of indexes, and indexes that a
\* compare-and-set used up are behind.
Counting ==
  use.ops \subseteq {"item", "compareSet"} =>
    /\ \A k \in Keys, i \in 0 .. MaxIndex :
         /\ wins[k][i] <= 1
         /\ wins[k][i] # 0 => i < store[k].ModifyIndex
    /\ \A cl \in Clients :
         /\ seen[cl].key \in Keys =>
              Older(seen[cl].item.modifyIndex, seen[cl].item.value, seen[cl].key)
         /\ (call[cl].op = "item" /\ reply[cl].code \in {200, 404}) =>
              Older(reply[cl].entry.ModifyIndex, reply[cl].entry.Value, call[cl].key)

\* A lock that is granted and not yet reported is the client's already.
Locking ==
  use.ops \subseteq {"lock", "unlock", "set", "item"} =>
    \A cl \in Clients :
      (call[cl].op = "lock" /\ reply[cl].ok) => store[call[cl].key].Session = cl

\* The inductive invariant of the key/value store and its clients.
KvInv ==
  /\ KvTypes /\ Entries /\ (\A cl \in Clients : Calling(cl) /\ Read(cl))
  /\ UsedUp /\ Counting /\ NoLostUpdate /\ RefusedMeansChanged
  /\ Locking /\ LockExclusive /\ AbsentIsAbsent

\* A set of places that is not empty has a last one.
LEMMA LastPlace ==
  ASSUME NEW n \in Nat, NEW S, S \subseteq 1 .. n, S # {}
  PROVE  \E i \in S : \A j \in S : j <= i
<1>1. PICK R : R = OpToRel(<, Nat)
  OBVIOUS
<1>2. IsWellFoundedOn(R, Nat)
  BY <1>1, NatLessThanWellFounded
<1>3. PICK T : T = {m \in 0 .. n : n - m \in S}
  OBVIOUS
<1>4. T \subseteq Nat /\ T # {}
  <2>1. PICK i \in S : TRUE
    OBVIOUS
  <2>2. n - i \in 0 .. n /\ n - (n - i) = i
    BY <2>1
  <2>3. n - i \in T
    BY <1>3, <2>1, <2>2
  <2>4. \A y \in T : y \in Nat
    BY <1>3
  <2> QED BY <2>3, <2>4
<1>5. PICK x \in T : \A y \in T : ~ (<<y, x>> \in R)
  BY <1>2, <1>4, WFMin
<1>6. \A y \in T : ~ (y < x)
  BY <1>1, <1>4, <1>5 DEF OpToRel
<1>7. n - x \in S
  BY <1>3
<1>8. ASSUME NEW j \in S PROVE j <= n - x
  <2>1. n - j \in 0 .. n /\ n - (n - j) = j /\ x \in 0 .. n
    BY <1>3
  <2>2. ~ (n - j < x)
    BY <1>3, <1>6, <2>1
  <2> QED BY <2>1, <2>2
<1> QED BY <1>7, <1>8

\* A parameter that leaves something in the query.
Prints(m, v) == m \in Droppable => v # NoText

\* The last argument with a keyword is what the query has for it.
LEMMA QueryHas ==
  ASSUME NEW args, Len(args) \in Nat, NEW m \in 1 .. Len(args), NEW w, args[m][1] = w,
         \A j \in (m + 1) .. Len(args) : args[j][1] # w,
         Prints(w, args[m][2])
  PROVE  Has(makeQuery(args), w) /\ makeQuery(args)[w] = args[m][2]
<1> DEFINE printed == {i \in unique_args(args) : args[i][1] \in Droppable => args[i][2] # NoText}
           given == {args[i][1] : i \in printed}
           value(k) == args[CHOOSE i \in printed : args[i][1] = k][2]
<1>1. makeQuery(args) = [k \in given |-> value(k)]
  BY DEF makeQuery
<1>2. m \in printed
  BY DEF unique_args, Prints
<1>3. ASSUME NEW i \in printed, args[i][1] = w PROVE i = m
  <2>0. PICK n \in Nat : n = Len(args)
    OBVIOUS
  <2>1. i \in 1 .. n /\ m \in 1 .. n
    BY <2>0 DEF unique_args
  <2>2. \A j \in (i + 1) .. n : args[j][1] # w
    BY <1>3, <2>0 DEF unique_args
  <2> HIDE DEF printed
  <2>3. \/ i = m \/ m \in (i + 1) .. n \/ i \in (m + 1) .. n
    BY ONLY <2>1, n \in Nat
  <2> QED BY <1>3, <2>0, <2>2, <2>3
<1>4. (CHOOSE i \in printed : args[i][1] = w) = m
  BY <1>2, <1>3
<1>5. w \in given /\ value(w) = args[m][2]
  BY <1>2, <1>4
<1> HIDE DEF given, value
<1> QED BY <1>1, <1>5 DEF Has

\* ... and when that one prints nothing, the query has nothing for it.
LEMMA QueryHasNot ==
  ASSUME NEW args, Len(args) \in Nat, NEW m \in 1 .. Len(args), NEW w, args[m][1] = w,
         \A j \in (m + 1) .. Len(args) : args[j][1] # w,
         ~ Prints(w, args[m][2])
  PROVE  ~ Has(makeQuery(args), w)
<1> DEFINE printed == {i \in unique_args(args) : args[i][1] \in Droppable => args[i][2] # NoText}
           given == {args[i][1] : i \in printed}
           value(k) == args[CHOOSE i \in printed : args[i][1] = k][2]
<1>1. makeQuery(args) = [k \in given |-> value(k)]
  BY DEF makeQuery
<1>2. m \notin printed
  BY DEF Prints
<1>3. ASSUME NEW i \in printed, args[i][1] = w PROVE FALSE
  <2>0. PICK n \in Nat : n = Len(args)
    OBVIOUS
  <2>1. i \in 1 .. n /\ m \in 1 .. n
    BY <2>0 DEF unique_args
  <2>2. \A j \in (i + 1) .. n : args[j][1] # w
    BY <1>3, <2>0 DEF unique_args
  <2> HIDE DEF printed
  <2>3. \/ i = m \/ m \in (i + 1) .. n \/ i \in (m + 1) .. n
    BY ONLY <2>1, n \in Nat
  <2> QED BY <1>2, <1>3, <2>0, <2>2, <2>3
<1>4. w \notin given
  BY <1>3
<1> HIDE DEF given, value
<1> QED BY <1>1, <1>4 DEF Has

\* A keyword that is not given is not in the query.
LEMMA QueryLacks ==
  ASSUME NEW args, NEW w, \A i \in 1 .. Len(args) : args[i][1] # w
  PROVE  ~ Has(makeQuery(args), w)
BY DEF makeQuery, unique_args, Has

\* Of the keywords that a caller cannot give, those before his own decide.
LEMMA CallersApart ==
  ASSUME NEW n \in Nat, NEW ps \in Params, NEW args, Len(args) = n + Len(ps),
         \A j \in 1 .. Len(ps) : args[n + j] = ps[j], NEW w, w \notin CallKeywords
  PROVE  Len(ps) \in Nat /\ \A i \in (n + 1) .. Len(args) : args[i][1] # w
<1>1. Len(ps) \in Nat /\ \A j \in 1 .. Len(ps) : ps[j][1] # w
  <2>1. \A j \in 1 .. Len(ps) : ps[j] \in CallKeywords \X STRING
    BY DEF Params
  <2> QED BY <2>1 DEF Params
<1>2. ASSUME NEW i \in (n + 1) .. Len(args) PROVE args[i][1] # w
  <2>1. i - n \in 1 .. Len(ps) /\ n + (i - n) = i
    BY <1>1
  <2>2. args[i] = ps[i - n]
    BY <2>1
  <2> QED BY <1>1, <2>1, <2>2
<1> QED BY <1>1, <1>2

\* A keyword that neither the library nor the caller gives is not in the query.
LEMMA NoKeyword ==
  ASSUME NEW n \in Nat, NEW ps \in Params, NEW args, Len(args) = n + Len(ps),
         \A j \in 1 .. Len(ps) : args[n + j] = ps[j], NEW w, w \notin CallKeywords,
         \A i \in 1 .. n : args[i][1] # w
  PROVE  ~ Has(makeQuery(args), w)
<1>1. Len(ps) \in Nat /\ \A i \in (n + 1) .. Len(args) : args[i][1] # w
  BY CallersApart
<1>2. \A i \in 1 .. Len(args) : args[i][1] # w
  <2>1. \A i \in 1 .. Len(args) : i \in 1 .. n \/ i \in (n + 1) .. Len(args)
    BY <1>1
  <2> QED BY <1>1, <2>1
<1> QED BY <1>2, QueryLacks

\* The operation's own keyword, which the caller cannot give, is in the query.
LEMMA OwnKeyword ==
  ASSUME NEW n \in Nat, n >= 1, NEW ps \in Params, NEW args, Len(args) = n + Len(ps),
         \A j \in 1 .. Len(ps) : args[n + j] = ps[j], NEW w, w \notin CallKeywords,
         args[n][1] = w, Prints(w, args[n][2])
  PROVE  Has(makeQuery(args), w) /\ makeQuery(args)[w] = args[n][2]
<1>1. Len(ps) \in Nat /\ \A i \in (n + 1) .. Len(args) : args[i][1] # w
  BY CallersApart
<1>2. Len(args) \in Nat /\ n \in 1 .. Len(args)
  BY <1>1
<1> QED BY ONLY <1>1, <1>2, args[n][1] = w, Prints(w, args[n][2]), QueryHas

\* What a request asks for is what its operation says.
RequestFits(cl, c) ==
  LET r == KvRequest(cl, c)
      q == r.query
  IN /\ r.key = c.key
     /\ r.verb = IF c.op \in Reads THEN "GET" ELSE IF c.op \in Erases THEN "DELETE" ELSE "PUT"
     /\ r.verb = "PUT" => r.data = c.val
     /\ c.op = "item" => ~ Has(q, "recurse") /\ ~ Has(q, "keys")
     /\ c.op \notin Reads =>
          /\ Has(q, "cas") <=> c.op \in Compares
          /\ Has(q, "acquire") <=> c.op = "lock"
          /\ Has(q, "release") <=> c.op = "unlock"
          /\ Has(q, "recurse") <=> c.op \in {"eraseAll", "clear"}
     /\ c.op \in Compares => q["cas"] = c.arg
     /\ c.op = "lock" => q["acquire"] = cl
     /\ c.op = "unlock" => q["release"] = cl

\* The keywords by which Consul tells the operations apart.
Marks == {"cas", "acquire", "release", "recurse", "keys"}

\* The arguments of a request: those of the Consul object and of the Kv object, at
\* most two of the operation, and the caller's.
Arguments(args, n, ps) ==
  /\ Len(args) = n + Len(ps) /\ \A j \in 1 .. Len(ps) : args[n + j] = ps[j]
  /\ args[1] = <<"dc", ConsulObj.dc>> /\ args[2] = <<"token", ConsulObj.token>>
  /\ args[3] = <<"token", Kv.token>>
  /\ \A i \in 4 .. n : args[i][1] # "token"

\* The places of the arguments before the caller's.
LEMMA FourFirst ==
  ASSUME NEW A, NEW ps \in Seq(A), NEW a, NEW b, NEW c, NEW d, NEW args,
         args = <<a, b>> \o (<<c, d>> \o ps)
  PROVE  /\ Len(args) = 4 + Len(ps)
         /\ args[1] = a /\ args[2] = b /\ args[3] = c /\ args[4] = d
         /\ \A j \in 1 .. Len(ps) : args[4 + j] = ps[j]
OBVIOUS

\* The same with one more.
LEMMA FiveFirst ==
  ASSUME NEW A, NEW ps \in Seq(A), NEW a, NEW b, NEW c, NEW d, NEW e, NEW args,
         args = <<a, b>> \o (<<c, d>> \o <<e>> \o ps)
  PROVE  /\ Len(args) = 5 + Len(ps)
         /\ args[1] = a /\ args[2] = b /\ args[3] = c /\ args[4] = d /\ args[5] = e
         /\ \A j \in 1 .. Len(ps) : args[5 + j] = ps[j]
OBVIOUS

\* No caller and no default gives one of the marks.
LEMMA MarksApart ==
  \A w \in Marks : w \notin CallKeywords /\ w # "dc" /\ w # "token" /\ w # "consistency"
BY DEF Marks, CallKeywords

\* The arguments of the Consul object.
ConsulFirst == <<<<"dc", ConsulObj.dc>>, <<"token", ConsulObj.token>>>>

\* The arguments of a set or an erase, and the query they make.
LEMMA FourArguments ==
  ASSUME NEW ps \in Params, NEW args, args = ConsulFirst \o (Defaults \o ps)
  PROVE  /\ Arguments(args, 4, ps)
         /\ \A w \in Marks : ~ Has(makeQuery(args), w)
<1>1. /\ Len(args) = 4 + Len(ps) /\ \A j \in 1 .. Len(ps) : args[4 + j] = ps[j]
      /\ args[1] = <<"dc", ConsulObj.dc>> /\ args[2] = <<"token", ConsulObj.token>>
      /\ args[3] = <<"token", Kv.token>> /\ args[4] = <<"dc", Kv.dc>>
  <2>1. PICK a, b, c, d : /\ a = <<"dc", ConsulObj.dc>> /\ b = <<"token", ConsulObj.token>>
                          /\ c = <<"token", Kv.token>> /\ d = <<"dc", Kv.dc>>
    OBVIOUS
  <2>2. args = <<a, b>> \o (<<c, d>> \o ps)
    BY <2>1 DEF Defaults, ConsulFirst
  <2>3. ps \in Seq(CallKeywords \X STRING)
    BY DEF Params
  <2>4. /\ Len(args) = 4 + Len(ps) /\ \A j \in 1 .. Len(ps) : args[4 + j] = ps[j]
        /\ args[1] = a /\ args[2] = b /\ args[3] = c /\ args[4] = d
    BY ONLY <2>2, <2>3, FourFirst
  <2> QED BY ONLY <2>1, <2>4
<1>2. args[1][1] = "dc" /\ args[2][1] = "token" /\ args[3][1] = "token" /\ args[4][1] = "dc"
  BY <1>1
<1>3. Arguments(args, 4, ps)
  BY <1>1, <1>2 DEF Arguments
<1>4. ASSUME NEW w \in Marks PROVE ~ Has(makeQuery(args), w)
  <2>1. \A i \in 1 .. 4 : i = 1 \/ i = 2 \/ i = 3 \/ i = 4
    OBVIOUS
  <2>2. w \notin CallKeywords /\ \A i \in 1 .. 4 : args[i][1] # w
    BY ONLY <1>2, <2>1, w \in Marks, MarksApart
  <2> QED BY ONLY <1>1, <2>2, ps \in Params, NoKeyword
<1> QED BY <1>3, <1>4

\* The arguments of an operation with a parameter of its own.
Marked(args, m, v, ps) == args = ConsulFirst \o (Defaults \o <<<<m, v>>>> \o ps)

\* The query of an operation with a mark has this mark and no other.
LEMMA FiveArguments ==
  ASSUME NEW ps \in Params, NEW m \in Marks, NEW v, Prints(m, v), NEW args,
         Marked(args, m, v, ps)
  PROVE  /\ Arguments(args, 5, ps)
         /\ Has(makeQuery(args), m) /\ makeQuery(args)[m] = v
         /\ \A w \in Marks : w # m => ~ Has(makeQuery(args), w)
<1>1. /\ Len(args) = 5 + Len(ps) /\ \A j \in 1 .. Len(ps) : args[5 + j] = ps[j]
      /\ args[1] = <<"dc", ConsulObj.dc>> /\ args[2] = <<"token", ConsulObj.token>>
      /\ args[3] = <<"token", Kv.token>> /\ args[4] = <<"dc", Kv.dc>> /\ args[5] = <<m, v>>
  <2>1. PICK a, b, c, d, e : /\ a = <<"dc", ConsulObj.dc>> /\ b = <<"token", ConsulObj.token>>
                             /\ c = <<"token", Kv.token>> /\ d = <<"dc", Kv.dc>> /\ e = <<m, v>>
    OBVIOUS
  <2>2. args = <<a, b>> \o (<<c, d>> \o <<e>> \o ps)
    BY <2>1 DEF Defaults, ConsulFirst, Marked
  <2>3. ps \in Seq(CallKeywords \X STRING)
    BY DEF Params
  <2>4. /\ Len(args) = 5 + Len(ps) /\ \A j \in 1 .. Len(ps) : args[5 + j] = ps[j]
        /\ args[1] = a /\ args[2] = b /\ args[3] = c /\ args[4] = d /\ args[5] = e
    BY ONLY <2>2, <2>3, FiveFirst
  <2> QED BY ONLY <2>1, <2>4
<1>2. /\ args[1][1] = "dc" /\ args[2][1] = "token" /\ args[3][1] = "token" /\ args[4][1] = "dc"
      /\ args[5][1] = m /\ args[5][2] = v
  BY ONLY <1>1
<1>0. \A i \in 1 .. 5 : i = 1 \/ i = 2 \/ i = 3 \/ i = 4 \/ i = 5
  OBVIOUS
<1>3. Arguments(args, 5, ps)
  <2>1. \A i \in 4 .. 5 : args[i][1] # "token"
    <3>1. \A i \in 4 .. 5 : i = 4 \/ i = 5
      OBVIOUS
    <3> QED BY ONLY <1>2, <3>1, m \in Marks, MarksApart
  <2> QED BY ONLY <1>1, <2>1 DEF Arguments
<1>4. ASSUME NEW w \in Marks, w # m PROVE ~ Has(makeQuery(args), w)
  <2>1. w \notin CallKeywords /\ \A i \in 1 .. 5 : args[i][1] # w
    BY ONLY <1>0, <1>2, <1>4, MarksApart
  <2> QED BY ONLY <1>1, <2>1, ps \in Params, NoKeyword
<1>5. Has(makeQuery(args), m) /\ makeQuery(args)[m] = v
  <2>1. m \notin CallKeywords
    BY MarksApart
  <2>2. Prints(m, args[5][2])
    BY <1>2
  <2> QED BY ONLY <1>1, <1>2, <2>1, <2>2, ps \in Params, OwnKeyword
<1> QED BY <1>3, <1>4, <1>5

\* The places of the arguments of a read before the caller's.
LEMMA GetFirst ==
  ASSUME NEW A, NEW ps \in Seq(A), NEW a, NEW b, NEW c, NEW d, NEW e, NEW args,
         args = <<a, b>> \o (<<c, d, e>> \o ps)
  PROVE  /\ Len(args) = 5 + Len(ps)
         /\ args[1] = a /\ args[2] = b /\ args[3] = c /\ args[4] = d /\ args[5] = e
         /\ \A j \in 1 .. Len(ps) : args[5 + j] = ps[j]
OBVIOUS

\* The same with one more.
LEMMA SixFirst ==
  ASSUME NEW A, NEW ps \in Seq(A), NEW a, NEW b, NEW c, NEW d, NEW e, NEW f, NEW args,
         args = <<a, b>> \o (<<c, d, e>> \o <<f>> \o ps)
  PROVE  /\ Len(args) = 6 + Len(ps)
         /\ args[1] = a /\ args[2] = b /\ args[3] = c /\ args[4] = d /\ args[5] = e /\ args[6] = f
         /\ \A j \in 1 .. Len(ps) : args[6 + j] = ps[j]
OBVIOUS

\* The same with two more.
LEMMA SevenFirst ==
  ASSUME NEW A, NEW ps \in Seq(A), NEW a, NEW b, NEW c, NEW d, NEW e, NEW f, NEW g, NEW args,
         args = <<a, b>> \o (<<c, d, e>> \o <<f, g>> \o ps)
  PROVE  /\ Len(args) = 7 + Len(ps)
         /\ args[1] = a /\ args[2] = b /\ args[3] = c /\ args[4] = d /\ args[5] = e /\ args[6] = f
         /\ args[7] = g
         /\ \A j \in 1 .. Len(ps) : args[7 + j] = ps[j]
OBVIOUS

\* The arguments of item(): the query asks for one key.
LEMMA ReadArguments ==
  ASSUME NEW ps \in Params, NEW args, args = ConsulFirst \o (GetDefaults \o ps)
  PROVE  Arguments(args, 5, ps) /\ ~ Has(makeQuery(args), "recurse") /\ ~ Has(makeQuery(args), "keys")
<1>1. /\ Len(args) = 5 + Len(ps) /\ \A j \in 1 .. Len(ps) : args[5 + j] = ps[j]
      /\ args[1] = <<"dc", ConsulObj.dc>> /\ args[2] = <<"token", ConsulObj.token>>
      /\ args[3] = <<"token", Kv.token>> /\ args[4] = <<"consistency", Kv.consistency>>
      /\ args[5] = <<"dc", Kv.dc>>
  <2>1. PICK a, b, c, d, e : /\ a = <<"dc", ConsulObj.dc>> /\ b = <<"token", ConsulObj.token>>
                             /\ c = <<"token", Kv.token>> /\ d = <<"consistency", Kv.consistency>>
                             /\ e = <<"dc", Kv.dc>>
    OBVIOUS
  <2>2. args = <<a, b>> \o (<<c, d, e>> \o ps)
    BY <2>1 DEF GetDefaults, ConsulFirst
  <2>3. ps \in Seq(CallKeywords \X STRING)
    BY DEF Params
  <2>4. /\ Len(args) = 5 + Len(ps) /\ \A j \in 1 .. Len(ps) : args[5 + j] = ps[j]
        /\ args[1] = a /\ args[2] = b /\ args[3] = c /\ args[4] = d /\ args[5] = e
    BY ONLY <2>2, <2>3, GetFirst
  <2> QED BY ONLY <2>1, <2>4
<1>2. /\ args[1][1] = "dc" /\ args[2][1] = "token" /\ args[3][1] = "token"
      /\ args[4][1] = "consistency" /\ args[5][1] = "dc"
  BY <1>1
<1>3. Arguments(args, 5, ps)
  BY <1>1, <1>2 DEF Arguments
<1>4. ASSUME NEW w \in Marks PROVE ~ Has(makeQuery(args), w)
  <2>1. \A i \in 1 .. 5 : i = 1 \/ i = 2 \/ i = 3 \/ i = 4 \/ i = 5
    OBVIOUS
  <2>2. w \notin CallKeywords /\ \A i \in 1 .. 5 : args[i][1] # w
    BY ONLY <1>2, <2>1, w \in Marks, MarksApart
  <2> QED BY ONLY <1>1, <2>2, ps \in Params, NoKeyword
<1> QED BY <1>3, <1>4 DEF Marks

\* The arguments of items() and keys().
LEMMA ListArguments ==
  ASSUME NEW ps \in Params, NEW m \in {"recurse", "keys"}, NEW args,
         args = ConsulFirst \o (GetDefaults \o <<<<m, 1>>>> \o ps)
  PROVE  Arguments(args, 6, ps)
<1>1. /\ Len(args) = 6 + Len(ps) /\ \A j \in 1 .. Len(ps) : args[6 + j] = ps[j]
      /\ args[1] = <<"dc", ConsulObj.dc>> /\ args[2] = <<"token", ConsulObj.token>>
      /\ args[3] = <<"token", Kv.token>> /\ args[4] = <<"consistency", Kv.consistency>>
      /\ args[5] = <<"dc", Kv.dc>> /\ args[6] = <<m, 1>>
  <2>1. PICK a, b, c, d, e, f :
          /\ a = <<"dc", ConsulObj.dc>> /\ b = <<"token", ConsulObj.token>>
          /\ c = <<"token", Kv.token>> /\ d = <<"consistency", Kv.consistency>>
          /\ e = <<"dc", Kv.dc>> /\ f = <<m, 1>>
    OBVIOUS
  <2>2. args = <<a, b>> \o (<<c, d, e>> \o <<f>> \o ps)
    BY <2>1 DEF GetDefaults, ConsulFirst
  <2>3. ps \in Seq(CallKeywords \X STRING)
    BY DEF Params
  <2>4. /\ Len(args) = 6 + Len(ps) /\ \A j \in 1 .. Len(ps) : args[6 + j] = ps[j]
        /\ args[1] = a /\ args[2] = b /\ args[3] = c /\ args[4] = d /\ args[5] = e /\ args[6] = f
    BY ONLY <2>2, <2>3, SixFirst
  <2> QED BY ONLY <2>1, <2>4
<1>2. args[4][1] = "consistency" /\ args[5][1] = "dc" /\ args[6][1] = m
  BY <1>1
<1>3. \A i \in 4 .. 6 : args[i][1] # "token"
  <2>1. \A i \in 4 .. 6 : i = 4 \/ i = 5 \/ i = 6
    OBVIOUS
  <2> QED BY <1>2, <2>1
<1> QED BY <1>1, <1>3 DEF Arguments

\* The arguments of subKeys().
LEMMA SubArguments ==
  ASSUME NEW ps \in Params, NEW args,
         args = ConsulFirst \o (GetDefaults \o <<<<"keys", 1>>, <<"separator", Separator>>>> \o ps)
  PROVE  Arguments(args, 7, ps)
<1>1. /\ Len(args) = 7 + Len(ps) /\ \A j \in 1 .. Len(ps) : args[7 + j] = ps[j]
      /\ args[1] = <<"dc", ConsulObj.dc>> /\ args[2] = <<"token", ConsulObj.token>>
      /\ args[3] = <<"token", Kv.token>> /\ args[4] = <<"consistency", Kv.consistency>>
      /\ args[5] = <<"dc", Kv.dc>> /\ args[6] = <<"keys", 1>> /\ args[7] = <<"separator", Separator>>
  <2>1. PICK a, b, c, d, e, f, g :
          /\ a = <<"dc", ConsulObj.dc>> /\ b = <<"token", ConsulObj.token>>
          /\ c = <<"token", Kv.token>> /\ d = <<"consistency", Kv.consistency>>
          /\ e = <<"dc", Kv.dc>> /\ f = <<"keys", 1>> /\ g = <<"separator", Separator>>
    OBVIOUS
  <2>2. args = <<a, b>> \o (<<c, d, e>> \o <<f, g>> \o ps)
    BY <2>1 DEF GetDefaults, ConsulFirst
  <2>3. ps \in Seq(CallKeywords \X STRING)
    BY DEF Params
  <2>4. /\ Len(args) = 7 + Len(ps) /\ \A j \in 1 .. Len(ps) : args[7 + j] = ps[j]
        /\ args[1] = a /\ args[2] = b /\ args[3] = c /\ args[4] = d /\ args[5] = e /\ args[6] = f
        /\ args[7] = g
    BY ONLY <2>2, <2>3, SevenFirst
  <2> QED BY ONLY <2>1, <2>4
<1>2. args[4][1] = "consistency" /\ args[5][1] = "dc" /\ args[6][1] = "keys" /\ args[7][1] = "separator"
  BY <1>1
<1>3. \A i \in 4 .. 7 : args[i][1] # "token"
  <2>1. \A i \in 4 .. 7 : i = 4 \/ i = 5 \/ i = 6 \/ i = 7
    OBVIOUS
  <2> QED BY <1>2, <2>1
<1> QED BY <1>1, <1>3 DEF Arguments

\* The token of the query is the caller's last one, or the Kv object's.
LEMMA TokenOf ==
  ASSUME NEW n \in Nat, n >= 3, NEW ps \in Params, NEW args, Arguments(args, n, ps),
         NEW t, t = get_opt("token", Kv.token, ps)
  PROVE  /\ Has(makeQuery(args), "token") <=> t # NoText
         /\ t # NoText => makeQuery(args)["token"] = t
<1>1. Len(ps) \in Nat /\ Len(args) = n + Len(ps) /\ \A j \in 1 .. Len(ps) : args[n + j] = ps[j]
  BY DEF Params, Arguments
<1>2. PICK at : at = {i \in 1 .. Len(ps) : ps[i][1] = "token"}
  OBVIOUS
<1>3. CASE at = {}
  <2>1. args[3][1] = "token" /\ args[3][2] = Kv.token
    BY DEF Arguments
  <2>2. \A j \in (3 + 1) .. Len(args) : args[j][1] # "token"
    <3> SUFFICES ASSUME NEW j \in (3 + 1) .. Len(args) PROVE args[j][1] # "token"
      OBVIOUS
    <3>1. CASE j \in 4 .. n
      BY <3>1 DEF Arguments
    <3>2. CASE j \notin 4 .. n
      <4>1. j - n \in 1 .. Len(ps) /\ n + (j - n) = j
        BY <1>1, <3>2
      <4>2. args[j] = ps[j - n]
        BY <1>1, <4>1
      <4>3. ps[j - n][1] # "token"
        BY <1>2, <1>3, <4>1
      <4> QED BY <4>2, <4>3
    <3> QED BY <3>1, <3>2
  <2>3. Len(args) \in Nat /\ 3 \in 1 .. Len(args)
    BY <1>1
  <2>4. Prints("token", args[3][2]) <=> args[3][2] # NoText
    BY DEF Prints, Droppable
  <2>5. args[3][2] # NoText =>
            Has(makeQuery(args), "token") /\ makeQuery(args)["token"] = args[3][2]
    BY ONLY <2>1, <2>2, <2>3, <2>4, QueryHas
  <2>6. args[3][2] = NoText => ~ Has(makeQuery(args), "token")
    BY ONLY <2>1, <2>2, <2>3, <2>4, QueryHasNot
  <2>7. t = Kv.token
    BY <1>2, <1>3 DEF get_opt
  <2> QED BY <2>1, <2>5, <2>6, <2>7
<1>4. CASE at # {}
  <2>1. at \subseteq 1 .. Len(ps)
    BY <1>2
  <2>2. \E i \in at : \A j \in at : j <= i
    BY ONLY <1>1, <1>4, <2>1, LastPlace
  <2>3. PICK m : m = CHOOSE i \in at : \A j \in at : j <= i
    OBVIOUS
  <2>4. m \in at /\ \A j \in at : j <= m
    BY <2>2, <2>3
  <2>5. m \in 1 .. Len(ps) /\ ps[m][1] = "token"
    BY <1>2, <2>4
  <2>6. Len(args) \in Nat /\ n + m \in 1 .. Len(args) /\ args[n + m] = ps[m]
    BY <1>1, <2>5
  <2>7. \A j \in ((n + m) + 1) .. Len(args) : args[j][1] # "token"
    <3> SUFFICES ASSUME NEW j \in ((n + m) + 1) .. Len(args) PROVE args[j][1] # "token"
      OBVIOUS
    <3>1. j - n \in 1 .. Len(ps) /\ n + (j - n) = j /\ ~ (j - n <= m)
      BY <1>1, <2>5
    <3>2. args[j] = ps[j - n]
      BY <1>1, <3>1
    <3>3. ps[j - n][1] # "token"
      BY <1>2, <2>4, <3>1
    <3> QED BY <3>2, <3>3
  <2>8. args[n + m][1] = "token" /\ (Prints("token", args[n + m][2]) <=> args[n + m][2] # NoText)
    BY <2>5, <2>6 DEF Prints, Droppable
  <2>9. args[n + m][2] # NoText =>
            Has(makeQuery(args), "token") /\ makeQuery(args)["token"] = args[n + m][2]
    BY ONLY <2>6, <2>7, <2>8, QueryHas
  <2>10. args[n + m][2] = NoText => ~ Has(makeQuery(args), "token")
    BY ONLY <2>6, <2>7, <2>8, QueryHasNot
  <2>11. t = ps[m][2]
    BY <1>2, <1>4, <2>3 DEF get_opt
  <2> QED BY <2>6, <2>9, <2>10, <2>11
<1> QED BY <1>3, <1>4

\* An erase takes no arguments of the caller.
LEMMA AppendNothing ==
  ASSUME NEW a, NEW b, NEW e
  PROVE  <<a, b>> \o <<>> = <<a, b>> /\ (<<a, b>> \o <<e>>) \o <<>> = <<a, b>> \o <<e>>
OBVIOUS

\* A request as its operation makes it.
LEMMA RequestMade ==
  ASSUME NEW verb, NEW key, NEW more, NEW data
  PROVE  Request(verb, key, more, data) =
           [verb |-> verb, key |-> key, query |-> makeQuery(ConsulFirst \o more), data |-> data]
BY DEF Request, ConsulQuery, ConsulFirst

\* The query of a request is that of its arguments.
HasArguments(q, ps) ==
  \E args : \E n \in Nat : n >= 3 /\ q = makeQuery(args) /\ Arguments(args, n, ps)

\* The request of a reading operation.
LEMMA ReadRequest ==
  ASSUME NEW cl, NEW c, c.op \in Reads, c.params \in Params
  PROVE  RequestFits(cl, c) /\ HasArguments(KvRequest(cl, c).query, c.params)
<1>0. PICK r : r = KvRequest(cl, c)
  OBVIOUS
<1>1. CASE c.op \in {"item", "get", "count"}
  <2>1. PICK args : args = ConsulFirst \o (GetDefaults \o c.params)
    OBVIOUS
  <2>2. r = [verb |-> "GET", key |-> c.key, query |-> makeQuery(args), data |-> 0]
    BY <1>0, <1>1, <2>1, RequestMade DEF KvRequest, item
  <2>3. Arguments(args, 5, c.params) /\ ~ Has(makeQuery(args), "recurse") /\ ~ Has(makeQuery(args), "keys")
    BY <2>1, ReadArguments
  <2>4. r.verb = "GET" /\ r.key = c.key /\ r.query = makeQuery(args)
    BY <2>2
  <2> QED BY <1>0, <2>3, <2>4 DEF RequestFits, HasArguments, Reads, Erases, Compares
<1>2. CASE c.op \notin {"item", "get", "count"}
  <2>1. \E args : \E n \in Nat : /\ n >= 3 /\ Arguments(args, n, c.params)
                                 /\ r = [verb |-> "GET", key |-> c.key, query |-> makeQuery(args), data |-> 0]
    <3>1. CASE c.op = "items"
      <4>1. PICK args : args = ConsulFirst \o (GetDefaults \o <<<<"recurse", 1>>>> \o c.params)
        OBVIOUS
      <4>2. r = [verb |-> "GET", key |-> c.key, query |-> makeQuery(args), data |-> 0]
        BY <1>0, <3>1, <4>1, RequestMade DEF KvRequest, items
      <4>3. Arguments(args, 6, c.params)
        BY <4>1, ListArguments
      <4> QED BY <4>2, <4>3
    <3>2. CASE c.op \in {"keys", "countAll", "empty"}
      <4>1. PICK args : args = ConsulFirst \o (GetDefaults \o <<<<"keys", 1>>>> \o c.params)
        OBVIOUS
      <4>2. r = [verb |-> "GET", key |-> c.key, query |-> makeQuery(args), data |-> 0]
        BY <1>0, <3>2, <4>1, RequestMade DEF KvRequest, keys
      <4>3. Arguments(args, 6, c.params)
        BY <4>1, ListArguments
      <4> QED BY <4>2, <4>3
    <3>3. CASE c.op = "subKeys"
      <4>1. PICK args : args = ConsulFirst \o (GetDefaults \o <<<<"keys", 1>>, <<"separator", Separator>>>> \o c.params)
        OBVIOUS
      <4>2. r = [verb |-> "GET", key |-> c.key, query |-> makeQuery(args), data |-> 0]
        BY <1>0, <3>3, <4>1, RequestMade DEF KvRequest, subKeys
      <4>3. Arguments(args, 7, c.params)
        BY <4>1, SubArguments
      <4> QED BY <4>2, <4>3
    <3> QED BY <1>2, <3>1, <3>2, <3>3 DEF Reads
  <2>2. HasArguments(r.query, c.params) /\ r.verb = "GET" /\ r.key = c.key
    BY <2>1 DEF HasArguments
  <2> QED BY <1>0, <1>2, <2>2 DEF RequestFits, Reads, Erases, Compares
<1> QED BY <1>1, <1>2

\* The request of compareSet(): it has the index that is expected.
LEMMA CompareSetRequest ==
  ASSUME NEW cl \in Clients, NEW c, c.op = "compareSet", c.params \in Params
  PROVE  RequestFits(cl, c) /\ HasArguments(KvRequest(cl, c).query, c.params)
<1>0. PICK r : r = KvRequest(cl, c)
  OBVIOUS
<1>1. PICK args : args = ConsulFirst \o (Defaults \o <<<<"cas", c.arg>>>> \o c.params)
  OBVIOUS
<1>2. r = [verb |-> "PUT", key |-> c.key, query |-> makeQuery(args), data |-> c.val]
  BY <1>0, <1>1, RequestMade DEF KvRequest, compareSet
<1>3. "cas" \in Marks /\ Prints("cas", c.arg)
  BY KvAssumption DEF Marks, Prints, Droppable
<1>4. /\ Arguments(args, 5, c.params)
      /\ Has(makeQuery(args), "cas") /\ makeQuery(args)["cas"] = c.arg
      /\ \A w \in Marks : w # "cas" => ~ Has(makeQuery(args), w)
  <2>1. PICK m, v, ps : m = "cas" /\ v = c.arg /\ ps = c.params
    OBVIOUS
  <2>2. Marked(args, m, v, ps) /\ m \in Marks /\ Prints(m, v) /\ ps \in Params
    BY <1>1, <1>3, <2>1 DEF Marked
  <2>3. /\ Arguments(args, 5, ps)
        /\ Has(makeQuery(args), m) /\ makeQuery(args)[m] = v
        /\ \A w \in Marks : w # m => ~ Has(makeQuery(args), w)
    BY ONLY <2>2, FiveArguments
  <2> QED BY ONLY <2>1, <2>3
<1>5. r.verb = "PUT" /\ r.key = c.key /\ r.query = makeQuery(args) /\ r.data = c.val
  BY <1>2
<1>6. /\ Has(r.query, "cas") <=> "cas" = "cas"
      /\ Has(r.query, "acquire") <=> "cas" = "acquire"
      /\ Has(r.query, "release") <=> "cas" = "release"
      /\ Has(r.query, "recurse") <=> "cas" = "recurse"
  BY <1>4, <1>5 DEF Marks
<1>7. HasArguments(r.query, c.params)
  BY <1>4, <1>5 DEF HasArguments
<1> QED BY <1>0, <1>4, <1>5, <1>6, <1>7 DEF RequestFits, Reads, Erases, Compares

\* The request of lock(): it acquires for the session.
LEMMA LockRequest ==
  ASSUME NEW cl \in Clients, NEW c, c.op = "lock", c.params \in Params
  PROVE  RequestFits(cl, c) /\ HasArguments(KvRequest(cl, c).query, c.params)
<1>0. PICK r : r = KvRequest(cl, c)
  OBVIOUS
<1>1. PICK args : args = ConsulFirst \o (Defaults \o <<<<"acquire", cl>>>> \o c.params)
  OBVIOUS
<1>2. r = [verb |-> "PUT", key |-> c.key, query |-> makeQuery(args), data |-> c.val]
  BY <1>0, <1>1, RequestMade DEF KvRequest, lock
<1>3. "acquire" \in Marks /\ Prints("acquire", cl)
  BY KvAssumption DEF Marks, Prints, Droppable
<1>4. /\ Arguments(args, 5, c.params)
      /\ Has(makeQuery(args), "acquire") /\ makeQuery(args)["acquire"] = cl
      /\ \A w \in Marks : w # "acquire" => ~ Has(makeQuery(args), w)
  <2>1. PICK m, v, ps : m = "acquire" /\ v = cl /\ ps = c.params
    OBVIOUS
  <2>2. Marked(args, m, v, ps) /\ m \in Marks /\ Prints(m, v) /\ ps \in Params
    BY <1>1, <1>3, <2>1 DEF Marked
  <2>3. /\ Arguments(args, 5, ps)
        /\ Has(makeQuery(args), m) /\ makeQuery(args)[m] = v
        /\ \A w \in Marks : w # m => ~ Has(makeQuery(args), w)
    BY ONLY <2>2, FiveArguments
  <2> QED BY ONLY <2>1, <2>3
<1>5. r.verb = "PUT" /\ r.key = c.key /\ r.query = makeQuery(args) /\ r.data = c.val
  BY <1>2
<1>6. /\ Has(r.query, "cas") <=> "acquire" = "cas"
      /\ Has(r.query, "acquire") <=> "acquire" = "acquire"
      /\ Has(r.query, "release") <=> "acquire" = "release"
      /\ Has(r.query, "recurse") <=> "acquire" = "recurse"
  BY <1>4, <1>5 DEF Marks
<1>7. HasArguments(r.query, c.params)
  BY <1>4, <1>5 DEF HasArguments
<1> QED BY <1>0, <1>4, <1>5, <1>6, <1>7 DEF RequestFits, Reads, Erases, Compares

\* The request of unlock(): it releases for the session.
LEMMA UnlockRequest ==
  ASSUME NEW cl \in Clients, NEW c, c.op = "unlock", c.params \in Params
  PROVE  RequestFits(cl, c) /\ HasArguments(KvRequest(cl, c).query, c.params)
<1>0. PICK r : r = KvRequest(cl, c)
  OBVIOUS
<1>1. PICK args : args = ConsulFirst \o (Defaults \o <<<<"release", cl>>>> \o c.params)
  OBVIOUS
<1>2. r = [verb |-> "PUT", key |-> c.key, query |-> makeQuery(args), data |-> c.val]
  BY <1>0, <1>1, RequestMade DEF KvRequest, unlock
<1>3. "release" \in Marks /\ Prints("release", cl)
  BY KvAssumption DEF Marks, Prints, Droppable
<1>4. /\ Arguments(args, 5, c.params)
      /\ Has(makeQuery(args), "release") /\ makeQuery(args)["release"] = cl
      /\ \A w \in Marks : w # "release" => ~ Has(makeQuery(args), w)
  <2>1. PICK m, v, ps : m = "release" /\ v = cl /\ ps = c.params
    OBVIOUS
  <2>2. Marked(args, m, v, ps) /\ m \in Marks /\ Prints(m, v) /\ ps \in Params
    BY <1>1, <1>3, <2>1 DEF Marked
  <2>3. /\ Arguments(args, 5, ps)
        /\ Has(makeQuery(args), m) /\ makeQuery(args)[m] = v
        /\ \A w \in Marks : w # m => ~ Has(makeQuery(args), w)
    BY ONLY <2>2, FiveArguments
  <2> QED BY ONLY <2>1, <2>3
<1>5. r.verb = "PUT" /\ r.key = c.key /\ r.query = makeQuery(args) /\ r.data = c.val
  BY <1>2
<1>6. /\ Has(r.query, "cas") <=> "release" = "cas"
      /\ Has(r.query, "acquire") <=> "release" = "acquire"
      /\ Has(r.query, "release") <=> "release" = "release"
      /\ Has(r.query, "recurse") <=> "release" = "recurse"
  BY <1>4, <1>5 DEF Marks
<1>7. HasArguments(r.query, c.params)
  BY <1>4, <1>5 DEF HasArguments
<1> QED BY <1>0, <1>4, <1>5, <1>6, <1>7 DEF RequestFits, Reads, Erases, Compares

\* The request of eraseAll() and clear(): it is recursive.
LEMMA EraseAllRequest ==
  ASSUME NEW cl \in Clients, NEW c, c.op \in {"eraseAll", "clear"}, c.params \in Params, c.params = <<>>
  PROVE  RequestFits(cl, c) /\ HasArguments(KvRequest(cl, c).query, c.params)
<1>0. PICK r : r = KvRequest(cl, c)
  OBVIOUS
<1>1. PICK args : args = ConsulFirst \o (Defaults \o <<<<"recurse", 1>>>> \o c.params)
  OBVIOUS
<1>2. r = [verb |-> "DELETE", key |-> c.key, query |-> makeQuery(args), data |-> 0]
  <2>1. Defaults \o <<<<"recurse", 1>>>> \o c.params = Defaults \o <<<<"recurse", 1>>>>
    BY AppendNothing DEF Defaults
  <2>2. r = Request("DELETE", c.key, Defaults \o <<<<"recurse", 1>>>> \o c.params, 0)
    BY <1>0, <2>1 DEF KvRequest, eraseAll
  <2> QED BY ONLY <1>1, <2>2, RequestMade
<1>3. "recurse" \in Marks /\ Prints("recurse", 1)
  BY KvAssumption DEF Marks, Prints, Droppable
<1>4. /\ Arguments(args, 5, c.params)
      /\ Has(makeQuery(args), "recurse") /\ makeQuery(args)["recurse"] = 1
      /\ \A w \in Marks : w # "recurse" => ~ Has(makeQuery(args), w)
  <2>1. PICK m, v, ps : m = "recurse" /\ v = 1 /\ ps = c.params
    OBVIOUS
  <2>2. Marked(args, m, v, ps) /\ m \in Marks /\ Prints(m, v) /\ ps \in Params
    BY <1>1, <1>3, <2>1 DEF Marked
  <2>3. /\ Arguments(args, 5, ps)
        /\ Has(makeQuery(args), m) /\ makeQuery(args)[m] = v
        /\ \A w \in Marks : w # m => ~ Has(makeQuery(args), w)
    BY ONLY <2>2, FiveArguments
  <2> QED BY ONLY <2>1, <2>3
<1>5. r.verb = "DELETE" /\ r.key = c.key /\ r.query = makeQuery(args) /\ r.data = 0
  BY <1>2
<1>6. /\ Has(r.query, "cas") <=> "recurse" = "cas"
      /\ Has(r.query, "acquire") <=> "recurse" = "acquire"
      /\ Has(r.query, "release") <=> "recurse" = "release"
      /\ Has(r.query, "recurse") <=> "recurse" = "recurse"
  BY <1>4, <1>5 DEF Marks
<1>7. HasArguments(r.query, c.params)
  BY <1>4, <1>5 DEF HasArguments
<1> QED BY <1>0, <1>4, <1>5, <1>6, <1>7 DEF RequestFits, Reads, Erases, Compares

\* The request of compareErase(): it has the index that is expected.
LEMMA CompareEraseRequest ==
  ASSUME NEW cl \in Clients, NEW c, c.op = "compareErase", c.params \in Params, c.params = <<>>
  PROVE  RequestFits(cl, c) /\ HasArguments(KvRequest(cl, c).query, c.params)
<1>0. PICK r : r = KvRequest(cl, c)
  OBVIOUS
<1>1. PICK args : args = ConsulFirst \o (Defaults \o <<<<"cas", c.arg>>>> \o c.params)
  OBVIOUS
<1>2. r = [verb |-> "DELETE", key |-> c.key, query |-> makeQuery(args), data |-> 0]
  <2>1. Defaults \o <<<<"cas", c.arg>>>> \o c.params = Defaults \o <<<<"cas", c.arg>>>>
    BY AppendNothing DEF Defaults
  <2>2. r = Request("DELETE", c.key, Defaults \o <<<<"cas", c.arg>>>> \o c.params, 0)
    BY <1>0, <2>1 DEF KvRequest, compareErase
  <2> QED BY ONLY <1>1, <2>2, RequestMade
<1>3. "cas" \in Marks /\ Prints("cas", c.arg)
  BY KvAssumption DEF Marks, Prints, Droppable
<1>4. /\ Arguments(args, 5, c.params)
      /\ Has(makeQuery(args), "cas") /\ makeQuery(args)["cas"] = c.arg
      /\ \A w \in Marks : w # "cas" => ~ Has(makeQuery(args), w)
  <2>1. PICK m, v, ps : m = "cas" /\ v = c.arg /\ ps = c.params
    OBVIOUS
  <2>2. Marked(args, m, v, ps) /\ m \in Marks /\ Prints(m, v) /\ ps \in Params
    BY <1>1, <1>3, <2>1 DEF Marked
  <2>3. /\ Arguments(args, 5, ps)
        /\ Has(makeQuery(args), m) /\ makeQuery(args)[m] = v
        /\ \A w \in Marks : w # m => ~ Has(makeQuery(args), w)
    BY ONLY <2>2, FiveArguments
  <2> QED BY ONLY <2>1, <2>3
<1>5. r.verb = "DELETE" /\ r.key = c.key /\ r.query = makeQuery(args) /\ r.data = 0
  BY <1>2
<1>6. /\ Has(r.query, "cas") <=> "cas" = "cas"
      /\ Has(r.query, "acquire") <=> "cas" = "acquire"
      /\ Has(r.query, "release") <=> "cas" = "release"
      /\ Has(r.query, "recurse") <=> "cas" = "recurse"
  BY <1>4, <1>5 DEF Marks
<1>7. HasArguments(r.query, c.params)
  BY <1>4, <1>5 DEF HasArguments
<1> QED BY <1>0, <1>4, <1>5, <1>6, <1>7 DEF RequestFits, Reads, Erases, Compares

\* The request of set(): it has no condition.
LEMMA SetRequest ==
  ASSUME NEW cl, NEW c, c.op = "set", c.params \in Params
  PROVE  RequestFits(cl, c) /\ HasArguments(KvRequest(cl, c).query, c.params)
<1>0. PICK r : r = KvRequest(cl, c)
  OBVIOUS
<1>1. PICK args : args = ConsulFirst \o (Defaults \o c.params)
  OBVIOUS
<1>2. r = [verb |-> "PUT", key |-> c.key, query |-> makeQuery(args), data |-> c.val]
  BY <1>0, <1>1, RequestMade DEF KvRequest, set
<1>3. Arguments(args, 4, c.params) /\ \A w \in Marks : ~ Has(makeQuery(args), w)
  BY <1>1, FourArguments
<1>4. r.verb = "PUT" /\ r.key = c.key /\ r.query = makeQuery(args) /\ r.data = c.val
  BY <1>2
<1>5. ~ Has(r.query, "cas") /\ ~ Has(r.query, "acquire") /\ ~ Has(r.query, "release") /\ ~ Has(r.query, "recurse")
  BY <1>3, <1>4 DEF Marks
<1>6. HasArguments(r.query, c.params)
  BY <1>3, <1>4 DEF HasArguments
<1> QED BY <1>0, <1>4, <1>5, <1>6 DEF RequestFits, Reads, Erases, Compares

\* The request of erase(): it has no condition.
LEMMA EraseRequest ==
  ASSUME NEW cl, NEW c, c.op = "erase", c.params \in Params, c.params = <<>>
  PROVE  RequestFits(cl, c) /\ HasArguments(KvRequest(cl, c).query, c.params)
<1>0. PICK r : r = KvRequest(cl, c)
  OBVIOUS
<1>1. PICK args : args = ConsulFirst \o (Defaults \o c.params)
  OBVIOUS
<1>2. r = [verb |-> "DELETE", key |-> c.key, query |-> makeQuery(args), data |-> 0]
  BY <1>0, <1>1, RequestMade, AppendNothing DEF KvRequest, erase, Defaults
<1>3. Arguments(args, 4, c.params) /\ \A w \in Marks : ~ Has(makeQuery(args), w)
  BY <1>1, FourArguments
<1>4. r.verb = "DELETE" /\ r.key = c.key /\ r.query = makeQuery(args) /\ r.data = 0
  BY <1>2
<1>5. ~ Has(r.query, "cas") /\ ~ Has(r.query, "acquire") /\ ~ Has(r.query, "release") /\ ~ Has(r.query, "recurse")
  BY <1>3, <1>4 DEF Marks
<1>6. HasArguments(r.query, c.params)
  BY <1>3, <1>4 DEF HasArguments
<1> QED BY <1>0, <1>4, <1>5, <1>6 DEF RequestFits, Reads, Erases, Compares

\* Every operation sends the request that its name says.
LEMMA RequestsFit ==
  ASSUME NEW cl \in Clients, NEW c, c.op \in AllOps, c.params \in Params,
         c.op \in Erases => c.params = <<>>
  PROVE  RequestFits(cl, c) /\ HasArguments(KvRequest(cl, c).query, c.params)
<1> USE DEF AllOps, Erases
<1>1. CASE c.op \in Reads
  BY <1>1, ReadRequest
<1>2. CASE c.op \in {"compareSet", "lock", "unlock", "set"}
  BY <1>2, CompareSetRequest, LockRequest, UnlockRequest, SetRequest
<1>3. CASE c.op \in {"erase", "eraseAll", "clear", "compareErase"}
  BY <1>3, EraseRequest, EraseAllRequest, CompareEraseRequest
<1> QED BY <1>1, <1>2, <1>3

-----------------------------------------------------------------------------
\* The invariant holds before the first call.
LEMMA KvInitFits == KvInit => KvInv
<1> SUFFICES ASSUME KvInit PROVE KvInv
  OBVIOUS
<1>1. PICK u \in Uses : KvStart(u)
  BY DEF KvInit
<1>2. /\ use = u /\ index = 0 /\ faults = 0 /\ DOMAIN store = Keys
      /\ \A k \in Keys : store[k] = NoEntry
      /\ \A k \in Keys : \A i \in 0 .. MaxIndex : wins[k][i] = 0
      /\ \A cl \in Clients : /\ call[cl] = Idle /\ req[cl] = NoReq /\ reply[cl] = NoReply
                             /\ outcome[cl] = NoResult /\ holds[cl] = {}
                             /\ seen[cl].key = <<>> /\ seen[cl].item = KeyValue
  BY <1>1 DEF KvStart
<1>3. NoEntry \in Entry /\ NoEntry.Value = 0 /\ NoEntry.ModifyIndex = 0 /\ NoEntry.CreateIndex = 0
  BY DEF NoEntry, Entry
<1>4. KvTypes
  <2>1. store \in [Keys -> Entry]
    BY <1>1, <1>3 DEF KvStart
  <2>2. wins \in [Keys -> [0 .. MaxIndex -> Nat]]
    BY <1>1 DEF KvStart
  <2>3. 0 \in 0 .. MaxIndex /\ 0 \in 0 .. MaxFaults
    BY KvAssumption
  <2> QED BY <1>1, <1>2, <2>1, <2>2, <2>3 DEF KvTypes, KvStart
<1>5. Entries
  BY <1>2, <1>3 DEF Entries
<1>6. \A cl \in Clients : Calling(cl)
  BY <1>2 DEF Calling, Idle
<1>7. \A cl \in Clients : Read(cl)
  BY <1>2, <1>3 DEF Read, KeyValue, NoReply, Idle
<1>8. UsedUp
  BY <1>2, KvAssumption DEF UsedUp
<1>9. Counting
  BY <1>2, KvAssumption DEF Counting, Idle
<1>10. NoLostUpdate
  <2>1. \A k \in Keys : {i \in 0 .. MaxIndex : wins[k][i] = 1} = {}
    BY <1>2
  <2>2. \A k \in Keys : Cardinality({i \in 0 .. MaxIndex : wins[k][i] = 1}) = 0
    BY <2>1, FS_EmptySet
  <2>3. \A k \in Keys : store[k].Value = 0 /\ \A i \in 0 .. MaxIndex : wins[k][i] <= 1
    BY <1>2, <1>3
  <2> QED BY <2>2, <2>3 DEF NoLostUpdate
<1>11. RefusedMeansChanged /\ Locking
  BY <1>2 DEF RefusedMeansChanged, Locking, Idle
<1>12. LockExclusive /\ AbsentIsAbsent
  BY <1>2 DEF LockExclusive, AbsentIsAbsent, NoResult
<1> QED BY <1>4, <1>5, <1>6, <1>7, <1>8, <1>9, <1>10, <1>11, <1>12 DEF KvInv

\* The variables of the clients' side change for one client at a time.
LEMMA CallFits ==
  ASSUME KvInv, NEW cl \in Clients, Call(cl)
  PROVE  KvInv'
<1>0. PICK op \in use.ops, k \in use.keys \cup {<<>>}, ps \in use.params :
        LET c == [op |-> op, key |-> IF op = "clear" THEN <<>> ELSE k,
                  arg |-> seen[cl].item.modifyIndex,
                  val |-> IF op = "compareSet" THEN seen[cl].item.value + 1 ELSE 0,
                  params |-> IF op \in {"erase", "eraseAll", "clear", "compareErase"} THEN <<>> ELSE ps]
        IN /\ k = <<>> => op \in AnyKey
           /\ op \in Compares => seen[cl].key = k
           /\ op = "unlock" => k \in holds[cl]
           /\ call' = [call EXCEPT ![cl] = c]
           /\ req' = [req EXCEPT ![cl] = KvRequest(cl, c)]
           /\ outcome' = [outcome EXCEPT ![cl] = NoResult]
           /\ holds' = IF op = "unlock" THEN [holds EXCEPT ![cl] = @ \ {k}] ELSE holds
  BY ZenonT(40) DEF Call, AnyKey, Compares
<1>1. PICK c :
        /\ c = [op |-> op, key |-> IF op = "clear" THEN <<>> ELSE k,
                arg |-> seen[cl].item.modifyIndex,
                val |-> IF op = "compareSet" THEN seen[cl].item.value + 1 ELSE 0,
                params |-> IF op \in {"erase", "eraseAll", "clear", "compareErase"} THEN <<>> ELSE ps]
        /\ k = <<>> => op \in AnyKey
        /\ op \in Compares => seen[cl].key = k
        /\ op = "unlock" => k \in holds[cl]
        /\ call' = [call EXCEPT ![cl] = c]
        /\ req' = [req EXCEPT ![cl] = KvRequest(cl, c)]
        /\ outcome' = [outcome EXCEPT ![cl] = NoResult]
        /\ holds' = IF op = "unlock" THEN [holds EXCEPT ![cl] = @ \ {k}] ELSE holds
  BY <1>0
<1>2. /\ call[cl] = Idle /\ UNCHANGED <<use, store, index, reply, seen, wins, faults>>
  BY DEF Call
<1>3. /\ KvTypes /\ Calling(cl) /\ Read(cl) /\ use \in Uses /\ call[cl].op = "none" /\ reply[cl] = NoReply
  BY <1>2 DEF KvInv, KvTypes, Calling, Idle
<1>4. /\ c.op = op /\ c.key = (IF op = "clear" THEN <<>> ELSE k)
      /\ c.arg = seen[cl].item.modifyIndex
      /\ c.val = (IF op = "compareSet" THEN seen[cl].item.value + 1 ELSE 0)
      /\ c.params = IF op \in Erases THEN <<>> ELSE ps
  BY <1>1 DEF Erases
<1>5. /\ call'[cl] = c /\ req'[cl] = KvRequest(cl, c) /\ outcome'[cl] = NoResult
      /\ holds'[cl] \subseteq holds[cl] /\ (op = "unlock" => k \notin holds'[cl])
      /\ \A d \in Clients : d # cl => /\ call'[d] = call[d] /\ req'[d] = req[d]
                                      /\ outcome'[d] = outcome[d] /\ holds'[d] = holds[d]
      /\ DOMAIN call' = Clients /\ DOMAIN req' = Clients /\ DOMAIN outcome' = Clients
      /\ DOMAIN holds' = Clients
  BY <1>1, <1>3 DEF KvTypes
<1>6. op \in AllOps /\ op # "none" /\ k \in Keys \cup {<<>>}
  BY <1>3, KvAssumption DEF AllOps, Reads
<1>7. KvTypes'
  <2>1. \A d \in Clients : holds'[d] \subseteq Keys
    BY <1>5 DEF KvInv, KvTypes
  <2> QED BY <1>2, <1>3, <1>5, <2>1 DEF KvTypes
<1>8. Entries'
  BY <1>2 DEF KvInv, Entries
<1>9. ASSUME NEW d \in Clients PROVE Calling(d)'
  <2>1. CASE d = cl
    <3>1. c.key \in Keys \/ (c.op \in AnyKey /\ c.key = <<>>)
      BY <1>1, <1>4, <1>6 DEF AnyKey
    <3>2. c.val \in Nat
      BY <1>3, <1>4 DEF Read
    <3>3. c.op \in Compares => seen[cl].key = c.key /\ c.arg = seen[cl].item.modifyIndex
      BY <1>1, <1>4 DEF Compares
    <3>4. c.op = "unlock" => c.key \notin holds'[cl]
      BY <1>4, <1>5
    <3>5. c.params \in use.params \cup {<<>>} /\ (c.op \in Erases => c.params = <<>>)
      BY <1>4
    <3>6. c.op = "compareSet" => c.val = seen[cl].item.value + 1
      BY <1>4
    <3> QED BY <1>2, <1>4, <1>5, <1>6, <2>1, <3>1, <3>2, <3>3, <3>4, <3>5, <3>6 DEF Calling
  <2>2. CASE d # cl
    BY <1>2, <1>5, <2>2 DEF KvInv, Calling
  <2> QED BY <2>1, <2>2
<1>10. ASSUME NEW d \in Clients PROVE Read(d)'
  <2>1. Read(d)
    BY DEF KvInv
  <2>2. CASE d = cl
    BY <1>2, <1>3, <2>1, <2>2 DEF Read, NoReply
  <2>3. CASE d # cl
    BY <1>2, <1>5, <2>1, <2>3 DEF Read
  <2> QED BY <2>2, <2>3
<1>11. UsedUp' /\ NoLostUpdate'
  BY <1>2 DEF KvInv, UsedUp, NoLostUpdate
<1>12. Counting'
  <2>1. \A d \in Clients : call'[d].op = "item" /\ reply'[d].code \in {200, 404} =>
                             d # cl /\ call'[d] = call[d]
    BY <1>2, <1>3, <1>5 DEF NoReply
  <2> QED BY <1>2, <2>1 DEF KvInv, Counting, Older
<1>13. RefusedMeansChanged'
  <2>1. \A d \in Clients : reply'[d].code = 200 => d # cl /\ call'[d] = call[d]
    BY <1>2, <1>3, <1>5 DEF NoReply
  <2> QED BY <1>2, <2>1 DEF KvInv, RefusedMeansChanged
<1>14. Locking'
  <2>1. \A d \in Clients : reply'[d].ok => d # cl /\ call'[d] = call[d]
    BY <1>2, <1>3, <1>5 DEF NoReply
  <2> QED BY <1>2, <2>1 DEF KvInv, Locking
<1>15. LockExclusive'
  <2>1. \A d \in Clients : holds'[d] \subseteq holds[d]
    BY <1>5
  <2> QED BY <1>2, <2>1 DEF KvInv, LockExclusive
<1>16. AbsentIsAbsent'
  <2>1. \A d \in Clients : outcome'[d].kind = "absent" => outcome'[d] = outcome[d]
    BY <1>5 DEF NoResult
  <2> QED BY <2>1 DEF KvInv, AbsentIsAbsent
<1> QED BY <1>7, <1>8, <1>9, <1>10, <1>11, <1>12, <1>13, <1>14, <1>15, <1>16 DEF KvInv

\* A call that ends leaves its client idle; what the others have is not touched.
LEMMA LoseFits ==
  ASSUME KvInv, NEW cl \in Clients, Lose(cl)
  PROVE  KvInv'
<1>1. /\ faults < MaxFaults /\ faults' = faults + 1
      /\ outcome' = [outcome EXCEPT ![cl] = [NoResult EXCEPT !.kind = "runtime_error"]]
      /\ call' = [call EXCEPT ![cl] = Idle] /\ req' = [req EXCEPT ![cl] = NoReq]
      /\ reply' = [reply EXCEPT ![cl] = NoReply]
      /\ UNCHANGED <<use, store, index, seen, holds, wins>>
  BY DEF Lose
<1>2. KvTypes
  BY DEF KvInv
<1>3. /\ call'[cl] = Idle /\ req'[cl] = NoReq /\ reply'[cl] = NoReply
      /\ outcome'[cl] = [NoResult EXCEPT !.kind = "runtime_error"]
      /\ \A d \in Clients : d # cl => /\ call'[d] = call[d] /\ req'[d] = req[d]
                                      /\ reply'[d] = reply[d] /\ outcome'[d] = outcome[d]
      /\ DOMAIN call' = Clients /\ DOMAIN req' = Clients /\ DOMAIN reply' = Clients
      /\ DOMAIN outcome' = Clients
  BY <1>1, <1>2 DEF KvTypes
<1>4. KvTypes'
  BY <1>1, <1>2, <1>3, KvAssumption DEF KvTypes
<1>5. Entries' /\ UsedUp' /\ NoLostUpdate' /\ LockExclusive'
  BY <1>1 DEF KvInv, Entries, UsedUp, NoLostUpdate, LockExclusive
<1>6. ASSUME NEW d \in Clients PROVE Calling(d)'
  <2>1. CASE d = cl
    BY <1>3, <2>1 DEF Calling, Idle
  <2>2. CASE d # cl
    BY <1>1, <1>3, <2>2 DEF KvInv, Calling
  <2> QED BY <2>1, <2>2
<1>7. ASSUME NEW d \in Clients PROVE Read(d)'
  <2>1. Read(d) /\ 0 \in 0 .. index
    BY <1>2 DEF KvInv, KvTypes
  <2>2. CASE d = cl
    BY <1>1, <1>3, <2>1, <2>2 DEF Read, NoReply, NoEntry
  <2>3. CASE d # cl
    BY <1>1, <1>3, <2>1, <2>3 DEF Read
  <2> QED BY <2>2, <2>3
<1>8. Counting'
  <2>1. \A d \in Clients : call'[d].op = "item" => call'[d] = call[d] /\ reply'[d] = reply[d]
    BY <1>3 DEF Idle
  <2> QED BY <1>1, <2>1 DEF KvInv, Counting, Older
<1>9. RefusedMeansChanged' /\ Locking'
  <2>1. \A d \in Clients : call'[d].op # "none" => call'[d] = call[d] /\ reply'[d] = reply[d]
    BY <1>3 DEF Idle
  <2> QED BY <1>1, <2>1 DEF KvInv, RefusedMeansChanged, Locking
<1>10. AbsentIsAbsent'
  <2>1. \A d \in Clients : outcome'[d].kind = "absent" => outcome'[d] = outcome[d]
    BY <1>3 DEF NoResult
  <2> QED BY <2>1 DEF KvInv, AbsentIsAbsent
<1> QED BY <1>4, <1>5, <1>6, <1>7, <1>8, <1>9, <1>10 DEF KvInv

\* An error of the server changes nothing but the answer.
LEMMA RefuseFits ==
  ASSUME KvInv, NEW cl \in Clients, Refuse(cl)
  PROVE  KvInv'
<1>1. /\ faults < MaxFaults /\ faults' = faults + 1
      /\ UNCHANGED <<use, store, index, call, req, outcome, seen, holds, wins>>
  BY DEF Refuse
<1>2. KvTypes /\ call[cl].op # "none"
  BY DEF KvInv, Calling, Refuse, NoReq
<1>3. /\ reply'[cl].code = 500 /\ reply'[cl].ok = FALSE /\ reply'[cl].entry = NoEntry
      /\ \A d \in Clients : d # cl => reply'[d] = reply[d]
      /\ DOMAIN reply' = Clients
  BY <1>2 DEF KvTypes, Refuse, NoReply
<1>4. KvTypes'
  BY <1>1, <1>2, <1>3, KvAssumption DEF KvTypes
<1>5. Entries' /\ UsedUp' /\ NoLostUpdate' /\ LockExclusive' /\ AbsentIsAbsent'
  BY <1>1 DEF KvInv, Entries, UsedUp, NoLostUpdate, LockExclusive, AbsentIsAbsent
<1>6. ASSUME NEW d \in Clients PROVE Calling(d)'
  <2>1. CASE d = cl
    BY <1>1, <1>2, <2>1 DEF KvInv, Calling
  <2>2. CASE d # cl
    BY <1>1, <1>3, <2>2 DEF KvInv, Calling
  <2> QED BY <2>1, <2>2
<1>7. ASSUME NEW d \in Clients PROVE Read(d)'
  <2>1. Read(d) /\ 0 \in 0 .. index
    BY <1>2 DEF KvInv, KvTypes
  <2>2. CASE d = cl
    BY <1>1, <1>3, <2>1, <2>2 DEF Read, NoEntry
  <2>3. CASE d # cl
    BY <1>1, <1>3, <2>1, <2>3 DEF Read
  <2> QED BY <2>2, <2>3
<1>8. Counting' /\ RefusedMeansChanged'
  <2>1. \A d \in Clients : reply'[d].code \in {200, 404} => reply'[d] = reply[d]
    BY <1>3
  <2> QED BY <1>1, <2>1 DEF KvInv, Counting, Older, RefusedMeansChanged
<1>9. Locking'
  <2>1. \A d \in Clients : reply'[d].ok => reply'[d] = reply[d]
    BY <1>3
  <2> QED BY <1>1, <2>1 DEF KvInv, Locking
<1> QED BY <1>4, <1>5, <1>6, <1>7, <1>8, <1>9 DEF KvInv

\* A client that is in a call has sent the request that its operation asks for.
LEMMA Busy ==
  ASSUME KvInv, NEW cl \in Clients, call[cl].op # "none"
  PROVE  /\ call[cl].op \in AllOps /\ call[cl].op \in use.ops /\ call[cl].params \in Params
         /\ RequestFits(cl, call[cl]) /\ req[cl] = KvRequest(cl, call[cl])
         /\ HasArguments(req[cl].query, call[cl].params)
         /\ call[cl].key \in Keys \/ (call[cl].op \in AnyKey /\ call[cl].key = <<>>)
<1>1. KvTypes /\ Calling(cl)
  BY DEF KvInv
<1>2. use \in Uses
  BY <1>1 DEF KvTypes
<1>3. /\ call[cl].op \in use.ops /\ call[cl].params \in use.params \cup {<<>>}
      /\ call[cl].op \in Erases => call[cl].params = <<>>
      /\ req[cl] = KvRequest(cl, call[cl])
      /\ call[cl].key \in Keys \/ (call[cl].op \in AnyKey /\ call[cl].key = <<>>)
  BY <1>1 DEF Calling
<1>4. call[cl].op \in AllOps
  BY <1>2, <1>3, KvAssumption
<1>5. call[cl].params \in Params
  <2>1. use.params \subseteq Params
    BY <1>2, KvAssumption DEF Params
  <2>2. <<>> \in Params
    BY DEF Params
  <2> QED BY <1>3, <2>1, <2>2
<1>6. RequestFits(cl, call[cl]) /\ HasArguments(KvRequest(cl, call[cl]).query, call[cl].params)
  BY ONLY <1>3, <1>4, <1>5, cl \in Clients, RequestsFit
<1> QED BY ONLY <1>3, <1>4, <1>5, <1>6

\* Which of the answers are a success.
LEMMA Successes == success(200) /\ ~ success(404) /\ ~ success(500)
BY DEF success

\* An operation that returns leaves its client idle; an item() is seen as it was
\* answered, and a lock is held when it was granted.
LEMMA KvReturnFits ==
  ASSUME KvInv, NEW cl \in Clients, KvReturn(cl)
  PROVE  KvInv'
<1>1. PICK res : /\ res = ResultOf(call[cl], reply[cl])
                 /\ outcome' = [outcome EXCEPT ![cl] = res]
                 /\ seen' = IF call[cl].op = "item" /\ res.kind \in {"data", "absent"}
                            THEN [seen EXCEPT ![cl] = [key |-> call[cl].key, item |-> res.item]]
                            ELSE seen
                 /\ holds' = IF call[cl].op = "lock" /\ res.ok
                             THEN [holds EXCEPT ![cl] = @ \cup {call[cl].key}] ELSE holds
  BY DEF KvReturn
<1>2. /\ reply[cl].code # 0
      /\ call' = [call EXCEPT ![cl] = Idle] /\ req' = [req EXCEPT ![cl] = NoReq]
      /\ reply' = [reply EXCEPT ![cl] = NoReply]
      /\ UNCHANGED <<use, store, index, wins, faults>>
  BY DEF KvReturn
<1>3. KvTypes /\ Calling(cl) /\ Read(cl)
  BY DEF KvInv
<1>4. /\ call'[cl] = Idle /\ req'[cl] = NoReq /\ reply'[cl] = NoReply /\ outcome'[cl] = res
      /\ \A d \in Clients : d # cl =>
           /\ call'[d] = call[d] /\ req'[d] = req[d] /\ reply'[d] = reply[d]
           /\ outcome'[d] = outcome[d] /\ holds'[d] = holds[d] /\ seen'[d] = seen[d]
      /\ DOMAIN call' = Clients /\ DOMAIN req' = Clients /\ DOMAIN reply' = Clients
      /\ DOMAIN outcome' = Clients /\ DOMAIN seen' = Clients /\ DOMAIN holds' = Clients
  BY <1>1, <1>2, <1>3 DEF KvTypes
<1>5. call[cl].op # "none"
  BY <1>2, <1>3 DEF Calling, NoReply
<1>6. reply[cl].code \in {200, 404, 500}
  BY <1>2, <1>3 DEF Read
<1>7. res.kind = "absent" => reply[cl].code = 404 /\ res.there = reply[cl].there
  BY <1>1, <1>6, Successes DEF ResultOf, get_impl, throwStatusError
<1>8. ASSUME call[cl].op = "item"
      PROVE  /\ res.kind \in {"data", "absent"} => reply[cl].code \in {200, 404}
             /\ res.item = IF reply[cl].code = 200 THEN load(reply[cl].entry) ELSE KeyValue
  BY <1>1, <1>6, <1>8, Successes DEF ResultOf, get_impl, Reads
<1>9. ASSUME call[cl].op = "lock", res.ok
      PROVE  reply[cl].ok
  BY <1>1, <1>9 DEF ResultOf, Reads
<1>10. call[cl].op = "lock" => call[cl].key \in Keys
  BY <1>3 DEF Calling, AnyKey
<1>11. ASSUME seen'[cl] # seen[cl]
       PROVE  /\ call[cl].op = "item" /\ reply[cl].code \in {200, 404}
              /\ seen'[cl].key = call[cl].key
              /\ seen'[cl].item.modifyIndex = reply[cl].entry.ModifyIndex
              /\ seen'[cl].item.value = reply[cl].entry.Value
  <2>1. /\ call[cl].op = "item" /\ res.kind \in {"data", "absent"}
        /\ seen'[cl] = [key |-> call[cl].key, item |-> res.item]
    BY <1>1, <1>3, <1>11 DEF KvTypes
  <2>2. seen'[cl].key = call[cl].key /\ seen'[cl].item = res.item /\ reply[cl].code \in {200, 404}
    BY <1>8, <2>1
  <2>3. CASE reply[cl].code = 200
    BY <1>8, <2>1, <2>2, <2>3 DEF load
  <2>4. CASE reply[cl].code = 404
    <3>1. reply[cl].entry = NoEntry
      BY <1>3, <2>1, <2>4 DEF Read
    <3> QED BY <1>8, <2>1, <2>2, <2>4, <3>1 DEF KeyValue, NoEntry
  <2> QED BY <2>1, <2>2, <2>3, <2>4
<1>12. KvTypes'
  <2>1. \A d \in Clients : holds'[d] \subseteq Keys
    BY <1>1, <1>3, <1>10 DEF KvTypes
  <2> QED BY <1>2, <1>3, <1>4, <2>1 DEF KvTypes
<1>13. Entries' /\ UsedUp' /\ NoLostUpdate'
  BY <1>2 DEF KvInv, Entries, UsedUp, NoLostUpdate
<1>14. ASSUME NEW d \in Clients PROVE Calling(d)'
  <2>1. CASE d = cl
    BY <1>4, <2>1 DEF Calling, Idle
  <2>2. CASE d # cl
    BY <1>2, <1>4, <2>2 DEF KvInv, Calling
  <2> QED BY <2>1, <2>2
<1>15. ASSUME NEW d \in Clients PROVE Read(d)'
  <2>1. Read(d) /\ 0 \in 0 .. index
    BY <1>3 DEF KvInv, KvTypes
  <2>2. CASE d = cl
    <3>1. seen'[cl].item.modifyIndex \in 0 .. index /\ seen'[cl].item.value \in Nat
      BY <1>3, <1>11 DEF Read
    <3>2. reply'[cl].code = 0 /\ ~ reply'[cl].ok /\ reply'[cl].entry = NoEntry
      BY <1>4 DEF NoReply
    <3> QED BY <1>2, <2>1, <2>2, <3>1, <3>2 DEF Read, NoEntry
  <2>3. CASE d # cl
    BY <1>2, <1>4, <2>1, <2>3 DEF Read
  <2> QED BY <2>2, <2>3
<1>16. Counting'
  <2>1. \A d \in Clients : call'[d].op = "item" => call'[d] = call[d] /\ reply'[d] = reply[d]
    BY <1>4 DEF Idle
  <2>2. ASSUME use.ops \subseteq {"item", "compareSet"}, NEW d \in Clients, seen'[d].key \in Keys
        PROVE  Older(seen'[d].item.modifyIndex, seen'[d].item.value, seen'[d].key)
    <3>1. CASE seen'[d] = seen[d]
      BY <2>2, <3>1 DEF KvInv, Counting
    <3>2. CASE seen'[d] # seen[d]
      <4>1. d = cl
        BY <1>4, <3>2
      <4>2. Older(reply[cl].entry.ModifyIndex, reply[cl].entry.Value, call[cl].key)
        BY <1>11, <2>2, <3>2, <4>1 DEF KvInv, Counting
      <4> QED BY <1>11, <3>2, <4>1, <4>2
    <3> QED BY <3>1, <3>2
  <2> QED BY <1>2, <2>1, <2>2 DEF KvInv, Counting, Older
<1>17. RefusedMeansChanged' /\ Locking'
  <2>1. \A d \in Clients : call'[d].op # "none" =>
          call'[d] = call[d] /\ reply'[d] = reply[d] /\ seen'[d] = seen[d]
    BY <1>4 DEF Idle
  <2> QED BY <1>2, <2>1 DEF KvInv, RefusedMeansChanged, Locking
<1>18. LockExclusive'
  <2> SUFFICES ASSUME use.ops \subseteq {"lock", "unlock", "set", "item"},
                      NEW d \in Clients, NEW k \in holds'[d]
               PROVE  store[k].Session = d
    BY <1>2 DEF LockExclusive
  <2>1. CASE k \in holds[d]
    BY <2>1 DEF KvInv, LockExclusive
  <2>2. CASE k \notin holds[d]
    <3>1. d = cl /\ call[cl].op = "lock" /\ res.ok /\ k = call[cl].key
      BY <1>1, <1>3, <1>4, <2>2 DEF KvTypes
    <3> QED BY <1>9, <3>1 DEF KvInv, Locking
  <2> QED BY <2>1, <2>2
<1>19. AbsentIsAbsent'
  <2> SUFFICES ASSUME NEW d \in Clients, outcome'[d].kind = "absent" PROVE ~ outcome'[d].there
    BY DEF AbsentIsAbsent
  <2>1. CASE d = cl
    BY <1>3, <1>4, <1>7, <2>1 DEF Read
  <2>2. CASE d # cl
    BY <1>4, <2>2 DEF KvInv, AbsentIsAbsent
  <2> QED BY <2>1, <2>2
<1> QED BY <1>12, <1>13, <1>14, <1>15, <1>16, <1>17, <1>18, <1>19 DEF KvInv

\* What a granted PUT makes of an entry.
LEMMA WrittenFits ==
  ASSUME NEW e \in Entry, NEW cl \in Clients, NEW c, c.op \in Puts, c.val \in Nat, NEW r,
         r = KvRequest(cl, c), RequestFits(cl, c), NEW i \in Nat,
         e.CreateIndex <= e.ModifyIndex, e.ModifyIndex < i, NEW w, w = Written(e, r, i)
  PROVE  /\ w \in Entry /\ w.Value = c.val /\ w.ModifyIndex = i /\ w.CreateIndex <= i
         /\ w.Session = IF c.op = "lock" THEN cl ELSE IF c.op = "unlock" THEN NoText ELSE e.Session
<1>1. /\ r.data = c.val /\ (Has(r.query, "acquire") <=> c.op = "lock")
      /\ (Has(r.query, "release") <=> c.op = "unlock")
      /\ (c.op = "lock" => r.query["acquire"] = cl)
  BY DEF RequestFits, Puts, Reads, Erases
<1>2. /\ w = [Value |-> w.Value, CreateIndex |-> w.CreateIndex, ModifyIndex |-> w.ModifyIndex,
              LockIndex |-> w.LockIndex, Session |-> w.Session]
      /\ w.Value = r.data /\ w.ModifyIndex = i
      /\ w.CreateIndex = (IF e.ModifyIndex = 0 THEN i ELSE e.CreateIndex)
      /\ w.LockIndex \in {e.LockIndex, e.LockIndex + 1}
      /\ w.Session = IF Has(r.query, "acquire") THEN r.query["acquire"]
                     ELSE IF Has(r.query, "release") THEN NoText ELSE e.Session
  BY DEF Written, Entry
<1>3. /\ e.CreateIndex \in Nat /\ e.ModifyIndex \in Nat /\ e.LockIndex \in Nat
      /\ e.Session \in Clients \cup {NoText}
  BY DEF Entry
<1>4. w.CreateIndex \in Nat /\ w.CreateIndex <= i /\ w.LockIndex \in Nat
  BY <1>2, <1>3
<1>5. w.Session = IF c.op = "lock" THEN cl ELSE IF c.op = "unlock" THEN NoText ELSE e.Session
  BY <1>1, <1>2
<1>6. w.Session \in Clients \cup {NoText}
  BY <1>3, <1>5
<1>7. w \in Entry
  BY ONLY <1>1, <1>2, <1>4, <1>6, c.val \in Nat, i \in Nat DEF Entry
<1> QED BY <1>1, <1>2, <1>4, <1>5, <1>7

\* When a PUT or a DELETE of one key is granted.
LEMMA GrantedFor ==
  ASSUME NEW cl \in Clients, NEW c, c.op \in AllOps \ Reads, RequestFits(cl, c), NEW q,
         q = KvRequest(cl, c).query, NEW e
  PROVE  Granted(e, q) <=> /\ c.op \in Compares => c.arg = e.ModifyIndex
                           /\ c.op = "lock" => e.Session \in {NoText, cl}
                           /\ c.op = "unlock" => e.Session = cl
<1>1. /\ (Has(q, "cas") <=> c.op \in Compares) /\ (Has(q, "acquire") <=> c.op = "lock")
      /\ (Has(q, "release") <=> c.op = "unlock")
      /\ (c.op \in Compares => q["cas"] = c.arg) /\ (c.op = "lock" => q["acquire"] = cl)
      /\ (c.op = "unlock" => q["release"] = cl)
  BY DEF RequestFits
<1> QED BY <1>1 DEF Granted

\* What Consul makes of the store: nothing, a granted PUT, or an erasure.
Kept == store' = store /\ index' = index /\ wins' = wins

\* The compare-and-set of a client is counted.
Won(cl) == [wins EXCEPT ![call[cl].key][call[cl].arg] = @ + 1]

\* A PUT is granted: the entry is written under the next index.
PutDone(cl) ==
  LET c == call[cl]
  IN /\ c.op \in Puts /\ c.key \in Keys /\ Granted(store[c.key], req[cl].query)
     /\ store' = [store EXCEPT ![c.key] = Written(store[c.key], req[cl], index + 1)]
     /\ index' = index + 1 /\ index + 1 <= MaxIndex
     /\ wins' = IF c.op = "compareSet" THEN Won(cl) ELSE wins

\* A DELETE is granted and found something: entries are gone.
EraseDone(cl) ==
  LET c == call[cl]
  IN /\ c.op \in Erases
     /\ store' = [k \in Keys |-> store'[k]] /\ \A k \in Keys : store'[k] \in {store[k], NoEntry}
     /\ index' = index + 1 /\ index + 1 <= MaxIndex
     /\ c.op # "compareErase" => wins' = wins
     /\ c.op = "compareErase" => /\ c.key \in Keys /\ c.arg = store[c.key].ModifyIndex
                                 /\ store'[c.key] = NoEntry /\ wins' = Won(cl)

\* Serving a request is one of these three, and a PUT that is answered with yes
\* is done.
LEMMA ServeDoes ==
  ASSUME KvInv, NEW cl \in Clients, Serve(cl)
  PROVE  /\ call[cl].op # "none"
         /\ Kept \/ PutDone(cl) \/ EraseDone(cl)
         /\ (call[cl].op \in Puts /\ AnswerTo(store, req[cl]).ok) => PutDone(cl)
<1> DEFINE c == call[cl]
           r == req[cl]
           after == StoreAfter(store, r, index + 1)
<1>0. KvTypes /\ Entries /\ Calling(cl) /\ Read(cl)
  BY DEF KvInv
<1>1. /\ after # store => index < use.last
      /\ store' = after
      /\ index' = (IF after # store THEN index + 1 ELSE index)
      /\ wins' = IF c.op \in Compares /\ AnswerTo(store, r).ok /\ after # store
                 THEN [wins EXCEPT ![r.key][c.arg] = @ + 1] ELSE wins
      /\ r.verb # "none"
  BY DEF Serve, Compares
<1>2. c.op # "none"
  BY <1>0, <1>1 DEF Calling, NoReq
<1>3. /\ c.op \in AllOps /\ RequestFits(cl, c) /\ r = KvRequest(cl, c)
      /\ c.key \in Keys \/ (c.op \in AnyKey /\ c.key = <<>>)
  BY <1>2, Busy
<1>4. /\ r.key = c.key
      /\ r.verb = (IF c.op \in Reads THEN "GET" ELSE IF c.op \in Erases THEN "DELETE" ELSE "PUT")
      /\ (c.op \in Erases => (Has(r.query, "recurse") <=> c.op \in {"eraseAll", "clear"}))
  BY <1>3 DEF RequestFits, Reads, Erases
<1>5. c.op \in Reads \/ c.op \in Puts \/ c.op \in Erases
  BY <1>3 DEF AllOps, Puts, Erases
<1>6. /\ index \in Nat /\ use.last \in 0 .. MaxIndex /\ MaxIndex \in Nat
      /\ index < use.last => index + 1 <= MaxIndex
  <2>1. use \in Uses /\ index \in Nat
    BY <1>0 DEF KvTypes
  <2>2. use.last \in 0 .. MaxIndex /\ MaxIndex \in Nat
    BY <2>1, KvAssumption
  <2> QED BY <2>1, <2>2
<1>7. /\ r.verb # "GET" =>
           (AnswerTo(store, r).ok <=> (r.key \in Keys => Granted(store[r.key], r.query)))
      /\ r.verb = "GET" => ~ AnswerTo(store, r).ok
  BY DEF AnswerTo
<1> HIDE DEF c, r, after
<1>8. CASE c.op \in Reads
  <2>1. r.verb = "GET" /\ after = store /\ c.op \notin Puts
    BY <1>4, <1>8 DEF after, StoreAfter, Reads, Puts
  <2> QED BY <1>1, <1>2, <1>7, <2>1 DEF Kept, c
<1>9. CASE c.op \in Puts
  <2>1. r.verb = "PUT" /\ c.key \in Keys
    BY <1>3, <1>4, <1>9 DEF Puts, Reads, Erases, AnyKey
  <2>2. CASE Granted(store[c.key], r.query)
    <3>1. after = [store EXCEPT ![c.key] = Written(store[c.key], r, index + 1)]
      BY <1>4, <2>1, <2>2 DEF after, StoreAfter
    <3>2. after # store
      <4>1. after[c.key] = Written(store[c.key], r, index + 1)
        BY <1>0, <2>1, <3>1 DEF KvTypes
      <4>2. after[c.key].ModifyIndex = index + 1
        BY <4>1 DEF Written
      <4>3. store[c.key].ModifyIndex <= index /\ store[c.key].ModifyIndex \in Nat
        BY <1>0, <2>1 DEF Entries, KvTypes, Entry
      <4> QED BY <1>6, <4>2, <4>3
    <3>3. AnswerTo(store, r).ok
      BY <1>4, <1>7, <2>1, <2>2
    <3>4. c.op \in Compares <=> c.op = "compareSet"
      BY <1>9 DEF Compares, Puts
    <3> QED BY <1>1, <1>2, <1>4, <1>6, <1>9, <2>1, <2>2, <3>1, <3>2, <3>3, <3>4
            DEF PutDone, Won, c, r
  <2>3. CASE ~ Granted(store[c.key], r.query)
    <3>1. after = store
      BY <1>4, <2>1, <2>3 DEF after, StoreAfter
    <3>2. ~ AnswerTo(store, r).ok
      BY <1>4, <1>7, <2>1, <2>3
    <3> QED BY <1>1, <1>2, <3>1, <3>2 DEF Kept, c, r
  <2> QED BY <2>2, <2>3
<1>10. CASE c.op \in Erases
  <2>1. r.verb = "DELETE" /\ c.op \notin Puts
    BY <1>4, <1>10 DEF Puts, Reads, Erases
  <2>2. CASE after = store
    BY <1>1, <1>2, <2>1, <2>2 DEF Kept, c
  <2>3. CASE after # store
    <3>1. index' = index + 1 /\ index + 1 <= MaxIndex /\ store' = after
      BY <1>1, <1>6, <2>3
    <3>2. CASE Has(r.query, "recurse")
      <4>1. after = [k \in Keys |-> IF IsPrefixOf(r.key, k) THEN NoEntry ELSE store[k]]
        BY <2>1, <3>2 DEF after, StoreAfter
      <4>2. c.op \notin Compares /\ c.op # "compareErase"
        BY <1>4, <1>10, <3>2 DEF Compares
      <4>3. store' = [k \in Keys |-> store'[k]] /\ \A k \in Keys : store'[k] \in {store[k], NoEntry}
        BY <3>1, <4>1
      <4> QED BY <1>1, <1>2, <1>10, <2>1, <3>1, <4>2, <4>3 DEF EraseDone, c
    <3>3. CASE ~ Has(r.query, "recurse")
      <4>1. c.key \in Keys
        BY <1>3, <1>4, <1>10, <3>3 DEF AnyKey, Erases
      <4>2. Granted(store[c.key], r.query) /\ after = [store EXCEPT ![c.key] = NoEntry]
        BY <1>4, <2>1, <2>3, <3>3 DEF after, StoreAfter
      <4>3. AnswerTo(store, r).ok
        BY <1>4, <1>7, <2>1, <4>2
      <4>4. /\ store' = [k \in Keys |-> store'[k]] /\ store'[c.key] = NoEntry
            /\ \A k \in Keys : store'[k] \in {store[k], NoEntry}
        BY <1>0, <3>1, <4>1, <4>2 DEF KvTypes
      <4>5. c.op = "compareErase" => c.arg = store[c.key].ModifyIndex
        <5>1. c.op \in AllOps \ Reads
          BY <1>3, <1>10 DEF Erases, Reads
        <5>2. PICK q : q = r.query
          OBVIOUS
        <5>3. q = KvRequest(cl, c).query
          BY <1>3, <5>2
        <5>4. Granted(store[c.key], q)
          BY <4>2, <5>2
        <5> QED BY ONLY <1>3, <5>1, <5>3, <5>4, cl \in Clients, GrantedFor DEF Compares
      <4>6. c.op \in Compares <=> c.op = "compareErase"
        BY <1>10 DEF Compares, Erases
      <4> QED BY <1>1, <1>2, <1>4, <1>10, <2>1, <2>3, <3>1, <4>1, <4>3, <4>4, <4>5, <4>6
              DEF EraseDone, Won, c, r
    <3> QED BY <3>2, <3>3
  <2> QED BY <2>2, <2>3
<1> QED BY <1>5, <1>8, <1>9, <1>10

\* The answer to a request, for the properties.
LEMMA KvAnswerFits ==
  ASSUME KvInv, NEW cl \in Clients, call[cl].op # "none", NEW a, a = AnswerTo(store, req[cl])
  PROVE  /\ a.code \in {200, 404}
         /\ a.code = 404 => ~ a.there
         /\ a.ok => a.code = 200
         /\ \/ a.entry = NoEntry
            \/ call[cl].key \in Keys /\ a.entry = store[call[cl].key]
         /\ call[cl].key \in Keys => a.entry = store[call[cl].key]
         /\ (call[cl].op = "item" /\ a.code = 404) => a.entry = NoEntry
         /\ call[cl].op \in Puts => (a.ok <=> Granted(store[call[cl].key], req[cl].query))
<1> DEFINE c == call[cl]
           r == req[cl]
           one == r.key \in Present(store)
           there == IF Has(r.query, "recurse") \/ Has(r.query, "keys")
                    THEN Under(store, r.key) # {} ELSE one
<1>0. KvTypes /\ Entries
  BY DEF KvInv
<1>1. /\ c.op \in AllOps /\ RequestFits(cl, c) /\ r = KvRequest(cl, c)
      /\ c.key \in Keys \/ (c.op \in AnyKey /\ c.key = <<>>)
  BY Busy
<1>2. /\ r.key = c.key
      /\ (c.op = "item" => ~ Has(r.query, "recurse") /\ ~ Has(r.query, "keys"))
      /\ (c.op \in Puts => r.verb = "PUT")
  BY <1>1 DEF RequestFits, Reads, Erases, Puts
<1>3. /\ a.code = (IF r.verb = "GET" /\ ~ there THEN 404 ELSE 200)
      /\ a.ok <=> (r.verb # "GET" /\ (r.key \in Keys => Granted(store[r.key], r.query)))
      /\ a.entry = (IF one THEN store[r.key] ELSE NoEntry)
      /\ a.there <=> there
  BY DEF AnswerTo
<1>4. /\ one => r.key \in Keys
      /\ (~ one /\ r.key \in Keys) => store[r.key] = NoEntry
  BY <1>0 DEF Present, Entries
<1>5. c.op = "item" => (there <=> one)
  BY <1>2
<1>6. c.op \in Puts => c.key \in Keys
  BY <1>1 DEF Puts, AnyKey
<1> HIDE DEF there, one
<1>7. a.code \in {200, 404} /\ (a.code = 404 => ~ a.there) /\ (a.ok => a.code = 200)
  BY <1>3
<1>8. /\ a.entry = NoEntry \/ (c.key \in Keys /\ a.entry = store[c.key])
      /\ c.key \in Keys => a.entry = store[c.key]
  BY <1>2, <1>3, <1>4
<1>9. (c.op = "item" /\ a.code = 404) => a.entry = NoEntry
  BY <1>3, <1>5
<1>10. c.op \in Puts => (a.ok <=> Granted(store[c.key], r.query))
  BY <1>2, <1>3, <1>6
<1> QED BY <1>7, <1>8, <1>9, <1>10

\* The index moves on by one with every change, and an entry that is changed is
\* erased or has the new index.
LEMMA ServeStore ==
  ASSUME KvInv, NEW cl \in Clients, Serve(cl)
  PROVE  /\ store' \in [Keys -> Entry] /\ Entries'
         /\ index' \in {index, index + 1} /\ index' \in 0 .. MaxIndex
         /\ \A k \in Keys : \/ store'[k] = store[k] \/ store'[k] = NoEntry
                            \/ store'[k].ModifyIndex = index + 1
<1>1. KvTypes /\ Entries /\ Calling(cl) /\ NoEntry \in Entry
  BY DEF KvInv, NoEntry, Entry
<1>2. /\ index \in Nat /\ index \in 0 .. MaxIndex /\ MaxIndex \in Nat /\ store \in [Keys -> Entry]
  BY <1>1, KvAssumption DEF KvTypes
<1>3. NoEntry.CreateIndex = 0 /\ NoEntry.ModifyIndex = 0
  BY DEF NoEntry
<1>4. CASE Kept
  BY <1>1, <1>2, <1>4 DEF Kept, Entries
<1>5. CASE PutDone(cl)
  <2>1. PICK w : w = Written(store[call[cl].key], req[cl], index + 1)
    OBVIOUS
  <2>2. /\ call[cl].op \in Puts /\ call[cl].key \in Keys
        /\ store' = [store EXCEPT ![call[cl].key] = w]
        /\ index' = index + 1 /\ index + 1 <= MaxIndex
    BY <1>5, <2>1 DEF PutDone
  <2>3. RequestFits(cl, call[cl]) /\ req[cl] = KvRequest(cl, call[cl]) /\ call[cl].val \in Nat
    BY <1>1, <2>2, Busy DEF Calling, Puts
  <2>4. PICK e \in Entry : e = store[call[cl].key]
    BY <1>2, <2>2
  <2>5. e.CreateIndex <= e.ModifyIndex /\ e.ModifyIndex < index + 1 /\ index + 1 \in Nat
    <3>1. e.CreateIndex <= e.ModifyIndex /\ e.ModifyIndex <= index /\ e.ModifyIndex \in Nat
      BY <1>1, <2>2, <2>4 DEF Entries, Entry
    <3> QED BY <1>2, <3>1
  <2>6. w \in Entry /\ w.ModifyIndex = index + 1 /\ w.CreateIndex <= index + 1
    BY <2>1, <2>2, <2>3, <2>4, <2>5, WrittenFits
  <2>7. \A k \in Keys : store'[k] = store[k] \/ store'[k] = w
    BY <1>2, <2>2
  <2>8. Entries'
    <3>1. ASSUME NEW k \in Keys
          PROVE  /\ store'[k].CreateIndex <= store'[k].ModifyIndex
                 /\ store'[k].ModifyIndex <= index'
                 /\ store'[k].ModifyIndex = 0 => store'[k] = NoEntry
      <4>1. CASE store'[k] = w
        BY <1>2, <2>2, <2>6, <4>1
      <4>2. CASE store'[k] = store[k]
        <5>1. store[k].ModifyIndex \in Nat
          BY <1>2 DEF Entry
        <5> QED BY <1>1, <1>2, <2>2, <4>2, <5>1 DEF Entries
      <4> QED BY <2>7, <4>1, <4>2
    <3> QED BY <3>1 DEF Entries
  <2> QED BY <1>2, <2>2, <2>6, <2>7, <2>8
<1>6. CASE EraseDone(cl)
  <2>1. /\ store' = [k \in Keys |-> store'[k]] /\ \A k \in Keys : store'[k] \in {store[k], NoEntry}
        /\ index' = index + 1 /\ index + 1 <= MaxIndex
    BY <1>6 DEF EraseDone
  <2>2. store' \in [Keys -> Entry]
    BY <1>1, <1>2, <2>1
  <2>3. Entries'
    <3>1. ASSUME NEW k \in Keys
          PROVE  /\ store'[k].CreateIndex <= store'[k].ModifyIndex
                 /\ store'[k].ModifyIndex <= index'
                 /\ store'[k].ModifyIndex = 0 => store'[k] = NoEntry
      <4>1. store[k].ModifyIndex \in Nat
        BY <1>2 DEF Entry
      <4> QED BY <1>1, <1>2, <1>3, <2>1, <4>1 DEF Entries
    <3> QED BY <3>1 DEF Entries
  <2> QED BY <1>2, <2>1, <2>2, <2>3
<1> QED BY <1>4, <1>5, <1>6, ServeDoes

\* Consul serves a request: the store, the indexes and what compare-and-set
\* operations have used up.
LEMMA ServeUsesUp ==
  ASSUME KvInv, NEW cl \in Clients, Serve(cl)
  PROVE  /\ wins' \in [Keys -> [0 .. MaxIndex -> Nat]]
         /\ UsedUp'
<1>1. /\ KvTypes /\ UsedUp /\ Entries /\ Calling(cl) /\ Read(cl)
  BY DEF KvInv
<1>2. /\ index \in Nat /\ index <= MaxIndex /\ MaxIndex \in Nat /\ store \in [Keys -> Entry]
      /\ wins \in [Keys -> [0 .. MaxIndex -> Nat]]
  BY <1>1, KvAssumption DEF KvTypes
<1>3. /\ index' \in {index, index + 1}
      /\ \A k \in Keys : \/ store'[k] = store[k] \/ store'[k] = NoEntry
                         \/ store'[k].ModifyIndex = index + 1
  BY ServeStore
<1>4. NoEntry.ModifyIndex = 0
  BY DEF NoEntry
<1>5. ASSUME NEW k \in Keys, NEW i \in 1 .. MaxIndex, i <= index, store[k].ModifyIndex # i
      PROVE  i <= index' /\ store'[k].ModifyIndex # i
  <2>1. i <= index' /\ i # 0 /\ i # index + 1
    BY <1>2, <1>3, <1>5
  <2> QED BY <1>3, <1>4, <1>5, <2>1
<1>6. CASE wins' = wins
  <2>1. \A k \in Keys, i \in 1 .. MaxIndex : wins[k][i] # 0 => i <= index' /\ store'[k].ModifyIndex # i
    BY <1>1, <1>5 DEF UsedUp
  <2> QED BY <1>1, <1>2, <1>6, <2>1 DEF UsedUp
<1>7. CASE wins' # wins
  <2>0. /\ call[cl].key \in Keys /\ wins' = Won(cl)
        /\ call[cl].arg = store[call[cl].key].ModifyIndex
        /\ \/ store'[call[cl].key] = NoEntry
           \/ store'[call[cl].key].ModifyIndex = index + 1
    <3>2. CASE PutDone(cl)
      <4>1. call[cl].op = "compareSet" /\ wins' = Won(cl) /\ call[cl].key \in Keys
        BY <1>7, <3>2 DEF PutDone
      <4>2. call[cl].arg = store[call[cl].key].ModifyIndex
        <5>1. Granted(store[call[cl].key], req[cl].query)
          BY <3>2 DEF PutDone
        <5>2. RequestFits(cl, call[cl]) /\ req[cl] = KvRequest(cl, call[cl])
          BY <4>1, Busy
        <5>3. call[cl].op \in AllOps \ Reads /\ call[cl].op \in Compares
          BY <4>1 DEF AllOps, Reads, Compares
        <5>4. PICK c, q, e : c = call[cl] /\ q = req[cl].query /\ e = store[call[cl].key]
          OBVIOUS
        <5>5. /\ c.op \in AllOps \ Reads /\ RequestFits(cl, c) /\ q = KvRequest(cl, c).query
              /\ Granted(e, q) /\ c.op \in Compares
          BY <5>1, <5>2, <5>3, <5>4
        <5>6. c.arg = e.ModifyIndex
          BY ONLY <5>5, cl \in Clients, GrantedFor
        <5> QED BY <5>4, <5>6
      <4>3. store'[call[cl].key].ModifyIndex = index + 1
        BY <1>2, <3>2, <4>1 DEF PutDone, Written
      <4> QED BY <4>1, <4>2, <4>3
    <3>3. CASE EraseDone(cl)
      BY <1>7, <3>3 DEF EraseDone
    <3> QED BY <1>7, <3>2, <3>3, ServeDoes DEF Kept
  <2>1. PICK k \in Keys, i \in 0 .. MaxIndex :
          /\ i = store[k].ModifyIndex /\ i <= index
          /\ wins' = [wins EXCEPT ![k][i] = @ + 1]
          /\ store'[k] = NoEntry \/ store'[k].ModifyIndex = index + 1
    <3>1. PICK k, i : k = call[cl].key /\ i = call[cl].arg
      OBVIOUS
    <3>2. /\ k \in Keys /\ i = store[k].ModifyIndex /\ wins' = [wins EXCEPT ![k][i] = @ + 1]
          /\ store'[k] = NoEntry \/ store'[k].ModifyIndex = index + 1
      BY <2>0, <3>1 DEF Won
    <3>3. i <= index /\ i \in 0 .. MaxIndex
      <4>1. store[k].ModifyIndex \in Nat /\ store[k].ModifyIndex <= index
        BY <1>1, <1>2, <3>2 DEF Entries, Entry
      <4> QED BY <1>2, <3>2, <4>1
    <3> QED BY <3>2, <3>3
  <2>2. /\ wins' \in [Keys -> [0 .. MaxIndex -> Nat]]
        /\ wins'[k][i] = wins[k][i] + 1
        /\ \A l \in Keys, j \in 0 .. MaxIndex : l # k \/ j # i => wins'[l][j] = wins[l][j]
    BY <1>2, <2>1
  <2>3. ASSUME NEW l \in Keys, NEW j \in 1 .. MaxIndex
        PROVE  wins'[l][j] <= 1 /\ (wins'[l][j] # 0 => j <= index' /\ store'[l].ModifyIndex # j)
    <3>1. j \in 0 .. MaxIndex /\ wins[l][j] \in Nat
      BY <1>2
    <3>2. CASE l = k /\ j = i
      <4>1. wins[k][i] = 0
        BY <1>1, <2>1, <2>3, <3>2 DEF UsedUp
      <4>2. store'[k].ModifyIndex # i
        BY <1>2, <1>4, <2>1, <2>3, <3>2
      <4>3. i <= index'
        BY <1>2, <1>3, <2>1
      <4> QED BY <2>2, <3>2, <4>1, <4>2, <4>3
    <3>3. CASE l # k \/ j # i
      <4>1. wins'[l][j] = wins[l][j]
        BY <2>2, <3>1, <3>3
      <4> QED BY <1>1, <1>5, <4>1 DEF UsedUp
    <3> QED BY <3>2, <3>3
  <2> QED BY <2>2, <2>3 DEF UsedUp
<1> QED BY <1>6, <1>7

\* The step leaves the clients' variables alone, apart from the answer.
LEMMA ServeAnswers ==
  ASSUME KvInv, NEW cl \in Clients, Serve(cl)
  PROVE  /\ UNCHANGED <<use, call, req, outcome, seen, holds, faults>>
         /\ reply'[cl] = AnswerTo(store, req[cl]) /\ DOMAIN reply' = Clients
         /\ \A d \in Clients : d # cl => reply'[d] = reply[d]
<1>1. DOMAIN reply = Clients
  BY DEF KvInv, KvTypes
<1> QED BY <1>1 DEF Serve

\* What a granted PUT of a client does, in the terms of its call.
LEMMA PutDoes ==
  ASSUME KvInv, NEW cl \in Clients, PutDone(cl), NEW c, c = call[cl]
  PROVE  /\ c.key \in Keys /\ index' = index + 1
         /\ \A k \in Keys : k # c.key => store'[k] = store[k]
         /\ store'[c.key].ModifyIndex = index + 1 /\ store'[c.key].Value = c.val
         /\ store'[c.key].Session =
              IF c.op = "lock" THEN cl ELSE IF c.op = "unlock" THEN NoText ELSE store[c.key].Session
         /\ c.op \in Compares => c.arg = store[c.key].ModifyIndex
         /\ c.op = "lock" => store[c.key].Session \in {NoText, cl}
         /\ c.op = "unlock" => store[c.key].Session = cl
<1>1. PICK w, e : e = store[c.key] /\ w = Written(e, req[cl], index + 1)
  OBVIOUS
<1>2. /\ c.op \in Puts /\ c.key \in Keys /\ Granted(e, req[cl].query)
      /\ store' = [store EXCEPT ![c.key] = w] /\ index' = index + 1
  BY <1>1 DEF PutDone
<1>3. KvTypes /\ Entries /\ Calling(cl)
  BY DEF KvInv
<1>4. RequestFits(cl, c) /\ req[cl] = KvRequest(cl, c) /\ c.val \in Nat
  BY <1>2, <1>3, Busy DEF Calling, Puts
<1>5. e \in Entry /\ index \in Nat /\ store \in [Keys -> Entry]
  BY <1>1, <1>2, <1>3 DEF KvTypes
<1>6. e.CreateIndex <= e.ModifyIndex /\ e.ModifyIndex < index + 1 /\ index + 1 \in Nat
  <2>1. e.CreateIndex <= e.ModifyIndex /\ e.ModifyIndex <= index /\ e.ModifyIndex \in Nat
    BY <1>1, <1>2, <1>3, <1>5 DEF Entries, Entry
  <2> QED BY <1>5, <2>1
<1>7. /\ w.Value = c.val /\ w.ModifyIndex = index + 1
      /\ w.Session = IF c.op = "lock" THEN cl ELSE IF c.op = "unlock" THEN NoText ELSE e.Session
  BY ONLY <1>1, <1>2, <1>4, <1>5, <1>6, cl \in Clients, WrittenFits
<1>8. store'[c.key] = w /\ \A k \in Keys : k # c.key => store'[k] = store[k]
  BY <1>2, <1>5
<1>9. c.op \in AllOps \ Reads
  BY <1>2 DEF AllOps, Reads, Puts
<1>10. PICK q : q = req[cl].query
  OBVIOUS
<1>11. q = KvRequest(cl, c).query /\ Granted(e, q)
  BY <1>2, <1>4, <1>10
<1>12. /\ c.op \in Compares => c.arg = e.ModifyIndex
       /\ c.op = "lock" => e.Session \in {NoText, cl}
       /\ c.op = "unlock" => e.Session = cl
  BY ONLY <1>4, <1>9, <1>11, cl \in Clients, GrantedFor
<1> QED BY <1>1, <1>2, <1>7, <1>8, <1>12

\* Where the clients only count, a step of the store is nothing or one increment.
LEMMA ServeCounts ==
  ASSUME KvInv, NEW cl \in Clients, Serve(cl), use.ops \subseteq {"item", "compareSet"}
  PROVE  \/ Kept
         \/ /\ PutDone(cl) /\ call[cl].op = "compareSet" /\ call[cl].key \in Keys
            /\ call[cl].arg = store[call[cl].key].ModifyIndex
            /\ store'[call[cl].key].Value = store[call[cl].key].Value + 1
            /\ store'[call[cl].key].ModifyIndex = index + 1
            /\ wins' = Won(cl)
<1>1. call[cl].op # "none" /\ (Kept \/ PutDone(cl) \/ EraseDone(cl))
  BY ServeDoes
<1>2. call[cl].op \in {"item", "compareSet"}
  BY <1>1, Busy
<1>3. ~ EraseDone(cl)
  BY <1>2 DEF EraseDone, Erases
<1>4. CASE PutDone(cl)
  <2>1. call[cl].op = "compareSet" /\ wins' = Won(cl)
    BY <1>2, <1>4 DEF PutDone, Puts
  <2>2. PICK c : c = call[cl]
    OBVIOUS
  <2>3. /\ c.key \in Keys /\ store'[c.key].ModifyIndex = index + 1 /\ store'[c.key].Value = c.val
        /\ c.arg = store[c.key].ModifyIndex
    BY <1>4, <2>1, <2>2, PutDoes DEF Compares
  <2>4. /\ seen[cl].key = c.key /\ c.arg = seen[cl].item.modifyIndex
        /\ c.val = seen[cl].item.value + 1
    BY <2>1, <2>2 DEF KvInv, Calling, Compares
  <2>5. Older(seen[cl].item.modifyIndex, seen[cl].item.value, seen[cl].key)
    BY <2>3, <2>4 DEF KvInv, Counting
  <2>6. c.val = store[c.key].Value + 1
    BY <2>3, <2>4, <2>5 DEF Older
  <2> QED BY <1>4, <2>1, <2>2, <2>3, <2>6
<1> QED BY <1>1, <1>3, <1>4

\* An entry grows older with every increment.
LEMMA StillOlder ==
  ASSUME KvInv, NEW cl \in Clients, Serve(cl), use.ops \subseteq {"item", "compareSet"},
         NEW k \in Keys, NEW i \in Nat, NEW v \in Nat, Older(i, v, k)
  PROVE  Older(i, v, k)'
<1>1. /\ store[k].ModifyIndex \in Nat /\ store[k].Value \in Nat /\ store[k].ModifyIndex <= index
      /\ index \in Nat
  BY DEF KvInv, KvTypes, Entries, Entry
<1>2. CASE store'[k] = store[k]
  BY <1>2 DEF Older
<1>3. CASE store'[k] # store[k]
  <2>1. PutDone(cl) /\ ~ Kept
    BY <1>3, ServeCounts DEF Kept
  <2>2. k = call[cl].key
    BY <1>3, <2>1, PutDoes
  <2>3. store'[k].Value = store[k].Value + 1 /\ store'[k].ModifyIndex = index + 1
    BY <2>1, <2>2, ServeCounts
  <2> QED BY <1>1, <2>3 DEF Older
<1> QED BY <1>2, <1>3

\* Serving a request loses no increment.
LEMMA CountingKept ==
  ASSUME KvInv, NEW cl \in Clients, Serve(cl)
  PROVE  Counting' /\ NoLostUpdate'
<1>1. /\ UNCHANGED <<use, call, req, outcome, seen, holds, faults>>
      /\ reply'[cl] = AnswerTo(store, req[cl])
      /\ \A d \in Clients : d # cl => reply'[d] = reply[d]
  BY ServeAnswers
<1> SUFFICES ASSUME use.ops \subseteq {"item", "compareSet"}
             PROVE  Counting' /\ NoLostUpdate'
  BY <1>1 DEF Counting, NoLostUpdate
<1>2. /\ index \in Nat /\ MaxIndex \in Nat /\ index <= MaxIndex
      /\ wins \in [Keys -> [0 .. MaxIndex -> Nat]]
      /\ \A k \in Keys : /\ store[k].ModifyIndex \in Nat /\ store[k].Value \in Nat
                         /\ store[k].ModifyIndex <= index
  BY KvAssumption DEF KvInv, KvTypes, Entries, Entry
<1>3. \A k \in Keys, i \in 0 .. MaxIndex :
        wins[k][i] <= 1 /\ (wins[k][i] # 0 => i < store[k].ModifyIndex)
  BY DEF KvInv, Counting
<1>4. \A k \in Keys : store[k].Value = Cardinality({i \in 0 .. MaxIndex : wins[k][i] = 1})
  BY DEF KvInv, NoLostUpdate
<1>5. \A d \in Clients : seen'[d].key \in Keys =>
        Older(seen[d].item.modifyIndex, seen[d].item.value, seen[d].key)'
  <2> SUFFICES ASSUME NEW d \in Clients, seen[d].key \in Keys
               PROVE  Older(seen[d].item.modifyIndex, seen[d].item.value, seen[d].key)'
    BY <1>1
  <2>1. PICK i, v, k : i = seen[d].item.modifyIndex /\ v = seen[d].item.value /\ k = seen[d].key
    OBVIOUS
  <2>2. i \in Nat /\ v \in Nat /\ k \in Keys /\ Older(i, v, k)
    BY <2>1 DEF KvInv, Counting, Read
  <2>3. Older(i, v, k)'
    BY <2>2, StillOlder
  <2> QED BY <1>1, <2>1, <2>3 DEF Older
<1>6. \A d \in Clients : (call'[d].op = "item" /\ reply'[d].code \in {200, 404}) =>
        Older(reply[d].entry.ModifyIndex, reply[d].entry.Value, call[d].key)'
  <2> SUFFICES ASSUME NEW d \in Clients, call[d].op = "item", reply'[d].code \in {200, 404}
               PROVE  Older(reply[d].entry.ModifyIndex, reply[d].entry.Value, call[d].key)'
    BY <1>1
  <2>1. call[d].key \in Keys
    BY Busy DEF AnyKey
  <2>2. CASE d = cl
    <3>1. reply'[cl].entry = store[call[cl].key]
      BY <1>1, <2>1, <2>2, KvAnswerFits
    <3>2. store'[call[cl].key] = store[call[cl].key]
      BY <2>2, ServeCounts DEF Kept
    <3> QED BY <1>1, <1>2, <2>1, <2>2, <3>1, <3>2 DEF Older
  <2>3. CASE d # cl
    <3>1. PICK i, v, k : i = reply[d].entry.ModifyIndex /\ v = reply[d].entry.Value /\ k = call[d].key
      OBVIOUS
    <3>2. i \in Nat /\ v \in Nat /\ k \in Keys /\ Older(i, v, k)
      BY <1>1, <2>1, <2>3, <3>1 DEF KvInv, Counting, Read
    <3>3. Older(i, v, k)'
      BY <3>2, StillOlder
    <3> QED BY <1>1, <2>3, <3>1, <3>3 DEF Older
  <2> QED BY <2>2, <2>3
<1>7. CASE Kept
  <2>1. NoLostUpdate'
    BY <1>1, <1>7 DEF KvInv, Kept, NoLostUpdate
  <2>2. \A k \in Keys, i \in 0 .. MaxIndex :
          wins'[k][i] <= 1 /\ (wins'[k][i] # 0 => i < store'[k].ModifyIndex)
    BY <1>3, <1>7 DEF Kept
  <2> QED BY <1>5, <1>6, <2>1, <2>2 DEF Counting
<1>8. CASE ~ Kept
  <2>1. PICK k, a : k = call[cl].key /\ a = call[cl].arg
    OBVIOUS
  <2>2. /\ k \in Keys /\ a = store[k].ModifyIndex /\ wins' = [wins EXCEPT ![k][a] = @ + 1]
        /\ store'[k].Value = store[k].Value + 1 /\ store'[k].ModifyIndex = index + 1
        /\ \A l \in Keys : l # k => store'[l] = store[l]
    BY <1>8, <2>1, ServeCounts, PutDoes DEF Won
  <2>3. a \in 0 .. MaxIndex /\ a < index + 1
    BY <1>2, <2>2
  <2>4. /\ wins'[k][a] = wins[k][a] + 1
        /\ \A l \in Keys, j \in 0 .. MaxIndex : l # k \/ j # a => wins'[l][j] = wins[l][j]
    BY <1>2, <2>2, <2>3
  <2>5. wins[k][a] = 0
    BY <1>2, <1>3, <2>2, <2>3
  <2>6. ASSUME NEW l \in Keys, NEW j \in 0 .. MaxIndex
        PROVE  wins'[l][j] <= 1 /\ (wins'[l][j] # 0 => j < store'[l].ModifyIndex)
    <3>1. CASE l = k /\ j = a
      BY <2>2, <2>3, <2>4, <2>5, <3>1
    <3>2. CASE l = k /\ j # a
      <4>1. wins'[l][j] = wins[l][j]
        BY <2>4, <3>2
      <4>2. wins[l][j] # 0 => j < index + 1
        BY <1>2, <1>3
      <4> QED BY <1>3, <2>2, <3>2, <4>1, <4>2
    <3>3. CASE l # k
      BY <1>3, <2>2, <2>4, <3>3
    <3> QED BY <3>1, <3>2, <3>3
  <2>7. ASSUME NEW l \in Keys
        PROVE  store'[l].Value = Cardinality({i \in 0 .. MaxIndex : wins'[l][i] = 1})
    <3>1. PICK S : S = {i \in 0 .. MaxIndex : wins[l][i] = 1}
      OBVIOUS
    <3>2. store[l].Value = Cardinality(S)
      BY <1>4, <3>1
    <3>3. CASE l = k
      <4>1. {i \in 0 .. MaxIndex : wins'[l][i] = 1} = S \cup {a}
        BY <2>3, <2>4, <2>5, <3>1, <3>3
      <4>2. IsFiniteSet(S) /\ a \notin S
        <5>1. IsFiniteSet(0 .. MaxIndex)
          <6>1. 0 \in Int /\ MaxIndex \in Int
            BY <1>2
          <6> QED BY ONLY <6>1, FS_Interval
        <5>2. S \subseteq 0 .. MaxIndex
          BY <3>1
        <5>3. IsFiniteSet(S)
          BY <5>1, <5>2, FS_Subset
        <5> QED BY <2>5, <3>1, <3>3, <5>3
      <4>3. Cardinality(S \cup {a}) = Cardinality(S) + 1
        BY <4>2, FS_AddElement
      <4> QED BY <2>2, <3>2, <3>3, <4>1, <4>3
    <3>4. CASE l # k
      <4>1. {i \in 0 .. MaxIndex : wins'[l][i] = 1} = S
        BY <2>4, <3>1, <3>4
      <4> QED BY <2>2, <3>2, <3>4, <4>1
    <3> QED BY <3>3, <3>4
  <2>8. NoLostUpdate'
    BY <2>6, <2>7 DEF NoLostUpdate
  <2> QED BY <1>5, <1>6, <2>6, <2>8 DEF Counting
<1> QED BY <1>7, <1>8

\* A compareSet that is refused goes by an index that is behind, and so by a value.
LEMMA RefusalKept ==
  ASSUME KvInv, NEW cl \in Clients, Serve(cl)
  PROVE  RefusedMeansChanged'
<1>1. /\ UNCHANGED <<use, call, req, outcome, seen, holds, faults>>
      /\ reply'[cl] = AnswerTo(store, req[cl])
      /\ \A d \in Clients : d # cl => reply'[d] = reply[d]
  BY ServeAnswers
<1> SUFFICES ASSUME NEW d \in Clients, use.ops \subseteq {"item", "compareSet"},
                    call[d].op = "compareSet", reply'[d].code = 200, ~ reply'[d].ok
             PROVE  reply'[d].entry.Value # seen[d].item.value
  BY <1>1 DEF RefusedMeansChanged
<1>2. CASE d # cl
  BY <1>1, <1>2 DEF KvInv, RefusedMeansChanged
<1>3. CASE d = cl
  <2>1. PICK c, a, e, q : /\ c = call[cl] /\ a = AnswerTo(store, req[cl]) /\ q = req[cl].query
                          /\ e = store[call[cl].key]
    OBVIOUS
  <2>2. c.op = "compareSet" /\ ~ a.ok
    BY <1>1, <1>3, <2>1
  <2>3. /\ c.key \in Keys /\ RequestFits(cl, c) /\ q = KvRequest(cl, c).query
    BY <2>1, <2>2, Busy DEF AnyKey
  <2>4. a.entry = e /\ (a.ok <=> Granted(e, q))
    <3>1. call[cl].op # "none" /\ call[cl].op \in Puts /\ call[cl].key \in Keys
      BY <2>1, <2>2, <2>3 DEF Puts
    <3>2. a.entry = store[call[cl].key] /\ (a.ok <=> Granted(store[call[cl].key], req[cl].query))
      BY <2>1, <3>1, KvAnswerFits
    <3> QED BY <2>1, <3>2
  <2>5. c.op \in AllOps \ Reads /\ c.op # "lock" /\ c.op # "unlock"
    BY <2>2 DEF AllOps, Reads
  <2>6. c.arg # e.ModifyIndex
    BY ONLY <2>2, <2>3, <2>4, <2>5, cl \in Clients, GrantedFor
  <2>7. seen[cl].key = c.key /\ c.arg = seen[cl].item.modifyIndex
    BY <2>1, <2>2 DEF KvInv, Calling, Compares
  <2>8. Older(seen[cl].item.modifyIndex, seen[cl].item.value, seen[cl].key)
    BY <2>3, <2>7 DEF KvInv, Counting
  <2>9. /\ seen[cl].item.modifyIndex \in Nat /\ seen[cl].item.value \in Nat
        /\ e.ModifyIndex \in Nat /\ e.Value \in Nat
    BY <2>1, <2>3 DEF KvInv, KvTypes, Read, Entry
  <2>10. seen[cl].item.value < e.Value
    BY <2>1, <2>6, <2>7, <2>8, <2>9 DEF Older
  <2> QED BY <1>1, <1>3, <2>1, <2>4, <2>9, <2>10
<1> QED BY <1>2, <1>3

\* The session of a key is taken only from nobody, and given up only by its own.
LEMMA LocksKept ==
  ASSUME KvInv, NEW cl \in Clients, Serve(cl)
  PROVE  Locking' /\ LockExclusive'
<1>1. /\ UNCHANGED <<use, call, req, outcome, seen, holds, faults>>
      /\ reply'[cl] = AnswerTo(store, req[cl])
      /\ \A d \in Clients : d # cl => reply'[d] = reply[d]
  BY ServeAnswers
<1> SUFFICES ASSUME use.ops \subseteq {"lock", "unlock", "set", "item"}
             PROVE  /\ \A d \in Clients : (call[d].op = "lock" /\ reply'[d].ok) =>
                                             store'[call[d].key].Session = d
                    /\ \A d \in Clients : \A k \in holds[d] : store'[k].Session = d
  BY <1>1 DEF Locking, LockExclusive
<1>2. call[cl].op # "none" /\ (Kept \/ PutDone(cl) \/ EraseDone(cl))
  BY ServeDoes
<1>3. call[cl].op \in {"lock", "unlock", "set", "item"}
  BY <1>2, Busy
<1>4. Kept \/ PutDone(cl)
  BY <1>2, <1>3 DEF EraseDone, Erases
<1>5. \A d \in Clients : d # NoText
  BY KvAssumption
<1>6. ASSUME NEW d \in Clients, NEW k \in Keys, store[k].Session = d,
             ~ (d = cl /\ call[cl].op = "unlock" /\ call[cl].key = k)
      PROVE  store'[k].Session = d
  <2>1. CASE Kept
    BY <1>6, <2>1 DEF Kept
  <2>2. CASE PutDone(cl) /\ k # call[cl].key
    BY <1>6, <2>2, PutDoes
  <2>3. CASE PutDone(cl) /\ k = call[cl].key
    <3>1. PICK c : c = call[cl]
      OBVIOUS
    <3>2. /\ store'[c.key].Session =
               (IF c.op = "lock" THEN cl ELSE IF c.op = "unlock" THEN NoText ELSE store[c.key].Session)
          /\ c.op = "lock" => store[c.key].Session \in {NoText, cl}
          /\ c.op = "unlock" => store[c.key].Session = cl
      BY <2>3, <3>1, PutDoes
    <3> QED BY <1>5, <1>6, <2>3, <3>1, <3>2
  <2> QED BY <1>4, <2>1, <2>2, <2>3
<1>7. ASSUME NEW d \in Clients, call[d].op = "lock", reply'[d].ok
      PROVE  store'[call[d].key].Session = d
  <2>1. call[d].key \in Keys
    BY <1>7, Busy DEF AnyKey
  <2>2. CASE d = cl
    <3>1. PutDone(cl)
      BY <1>1, <1>7, <2>2, ServeDoes DEF Puts
    <3> QED BY <1>7, <2>2, <3>1, PutDoes
  <2>3. CASE d # cl
    <3>1. store[call[d].key].Session = d
      BY <1>1, <1>7, <2>3 DEF KvInv, Locking
    <3> QED BY <1>6, <2>1, <2>3, <3>1
  <2> QED BY <2>2, <2>3
<1>8. ASSUME NEW d \in Clients, NEW k \in holds[d]
      PROVE  store'[k].Session = d
  <2>1. k \in Keys /\ store[k].Session = d
    BY DEF KvInv, KvTypes, LockExclusive
  <2>2. (d = cl /\ call[cl].op = "unlock") => call[cl].key # k
    BY DEF KvInv, Calling
  <2> QED BY <1>6, <2>1, <2>2
<1> QED BY <1>7, <1>8

\* Serving a request keeps the invariant.
LEMMA ServeFits ==
  ASSUME KvInv, NEW cl \in Clients, Serve(cl)
  PROVE  KvInv'
<1>1. /\ UNCHANGED <<use, call, req, outcome, seen, holds, faults>>
      /\ reply'[cl] = AnswerTo(store, req[cl]) /\ DOMAIN reply' = Clients
      /\ \A d \in Clients : d # cl => reply'[d] = reply[d]
  BY ServeAnswers
<1>2. /\ store' \in [Keys -> Entry] /\ Entries'
      /\ index' \in {index, index + 1} /\ index' \in 0 .. MaxIndex
  BY ServeStore
<1>3. wins' \in [Keys -> [0 .. MaxIndex -> Nat]] /\ UsedUp'
  BY ServeUsesUp
<1>4. Counting' /\ NoLostUpdate' /\ RefusedMeansChanged' /\ Locking' /\ LockExclusive'
  BY CountingKept, RefusalKept, LocksKept
<1>5. KvTypes'
  BY <1>1, <1>2, <1>3 DEF KvInv, KvTypes
<1>6. call[cl].op # "none"
  BY ServeDoes
<1>7. ASSUME NEW d \in Clients PROVE Calling(d)'
  <2>1. CASE d = cl
    BY <1>1, <1>6, <2>1 DEF KvInv, Calling
  <2>2. CASE d # cl
    BY <1>1, <2>2 DEF KvInv, Calling
  <2> QED BY <2>1, <2>2
<1>8. ASSUME NEW d \in Clients PROVE Read(d)'
  <2>1. Read(d) /\ index \in Nat
    BY DEF KvInv, KvTypes
  <2>2. CASE d # cl
    BY <1>1, <1>2, <2>1, <2>2 DEF Read
  <2>3. CASE d = cl
    <3>1. PICK a : a = AnswerTo(store, req[cl])
      OBVIOUS
    <3>2. /\ a.code \in {200, 404} /\ (a.code = 404 => ~ a.there) /\ (a.ok => a.code = 200)
          /\ a.entry = NoEntry \/ (call[cl].key \in Keys /\ a.entry = store[call[cl].key])
          /\ (call[cl].op = "item" /\ a.code = 404) => a.entry = NoEntry
      BY <1>6, <3>1, KvAnswerFits
    <3>3. a.entry.ModifyIndex \in 0 .. index /\ a.entry.Value \in Nat
      <4>1. NoEntry.ModifyIndex = 0 /\ NoEntry.Value = 0
        BY DEF NoEntry
      <4>2. \A k \in Keys : store[k].ModifyIndex \in 0 .. index /\ store[k].Value \in Nat
        BY <2>1 DEF KvInv, KvTypes, Entries, Entry
      <4> QED BY <2>1, <3>2, <4>1, <4>2
    <3>4. seen[cl].item.modifyIndex \in 0 .. index' /\ a.entry.ModifyIndex \in 0 .. index'
      BY <1>2, <2>1, <2>3, <3>3 DEF Read
    <3> QED BY <1>1, <2>1, <2>3, <3>1, <3>2, <3>3, <3>4 DEF Read
  <2> QED BY <2>2, <2>3
<1>9. AbsentIsAbsent'
  BY <1>1 DEF KvInv, AbsentIsAbsent
<1> QED BY <1>2, <1>3, <1>4, <1>5, <1>7, <1>8, <1>9 DEF KvInv

-----------------------------------------------------------------------------
\* Whatever is lost, refused or tried again, the invariant holds.
THEOREM KvInvariant == KvSpec => []KvInv
<1>1. KvInit => KvInv
  BY KvInitFits
<1>2. ASSUME KvInv, [KvNext]_kvVars PROVE KvInv'
  <2>1. CASE KvNext
    <3>1. PICK cl \in Clients : \/ Call(cl) \/ Serve(cl) \/ Refuse(cl)
                                \/ KvReturn(cl) \/ Lose(cl)
      BY <2>1 DEF KvNext
    <3> QED BY <1>2, <3>1, CallFits, ServeFits, RefuseFits, KvReturnFits, LoseFits
  <2>2. CASE UNCHANGED kvVars
    <3>1. UNCHANGED <<use, store, index, call, req, reply, outcome, seen, holds, wins, faults>>
      BY <2>2 DEF kvVars
    <3>2. KvTypes' /\ Entries' /\ UsedUp'
      BY <1>2, <3>1 DEF KvInv, KvTypes, Entries, UsedUp
    <3>3. \A cl \in Clients : Calling(cl)' /\ Read(cl)'
      BY <1>2, <3>1 DEF KvInv, Calling, Read
    <3>4. Counting' /\ NoLostUpdate' /\ RefusedMeansChanged'
      BY <1>2, <3>1 DEF KvInv, Counting, Older, NoLostUpdate, RefusedMeansChanged
    <3>5. Locking' /\ LockExclusive' /\ AbsentIsAbsent'
      BY <1>2, <3>1 DEF KvInv, Locking, LockExclusive, AbsentIsAbsent
    <3> QED BY <3>2, <3>3, <3>4, <3>5 DEF KvInv
  <2> QED BY <1>2, <2>1, <2>2
<1> QED BY <1>1, <1>2, PTL DEF KvSpec

\* What the invariant says of the types and of compare-and-set.
LEMMA KvTypeFollows == KvInv => KvTypeOK /\ CasOnce
<1> SUFFICES ASSUME KvInv PROVE KvTypeOK /\ CasOnce
  OBVIOUS
<1>1. KvTypes /\ Entries /\ UsedUp
  BY DEF KvInv
<1>2. \A k \in Keys : store[k].Session \in Clients \cup {NoText}
  BY <1>1 DEF KvTypes, Entry
<1>3. ASSUME NEW cl \in Clients
      PROVE  /\ call[cl].op \in use.ops \cup {"none"}
             /\ (call[cl].op = "none") = (req[cl].verb = "none")
             /\ seen[cl].item.modifyIndex <= index
  <2>1. seen[cl].item.modifyIndex <= index
    BY <1>1 DEF KvInv, Read, KvTypes
  <2>2. CASE call[cl].op = "none"
    BY <2>1, <2>2 DEF KvInv, Calling, NoReq
  <2>3. CASE call[cl].op # "none"
    <3>1. call[cl].op \in use.ops /\ RequestFits(cl, call[cl]) /\ req[cl] = KvRequest(cl, call[cl])
      BY <2>3, Busy
    <3>2. req[cl].verb # "none"
      BY <3>1 DEF RequestFits
    <3> QED BY <2>1, <2>3, <3>1, <3>2
  <2> QED BY <2>2, <2>3
<1>4. KvTypeOK
  BY <1>1, <1>2, <1>3 DEF KvTypeOK, Entries, KvTypes
<1>5. CasOnce
  BY <1>1 DEF UsedUp, CasOnce
<1> QED BY <1>4, <1>5

\* The token of a request is the one its arguments say.
LEMMA TokenFollows == KvInv => TokenSent
<1> SUFFICES ASSUME KvInv, NEW cl \in Clients, req[cl].verb # "none",
                    NEW t, t = get_opt("token", Kv.token, call[cl].params)
             PROVE  /\ Has(req[cl].query, "token") <=> t # NoText
                    /\ t # NoText => req[cl].query["token"] = t
  BY DEF TokenSent
<1>1. call[cl].op # "none" /\ KvTypes /\ Calling(cl)
  BY DEF KvInv, Calling, NoReq
<1>2. PICK ps, q : ps = call[cl].params /\ q = req[cl].query
  OBVIOUS
<1>3. ps \in Params /\ HasArguments(q, ps) /\ t = get_opt("token", Kv.token, ps)
  BY <1>1, <1>2, Busy
<1>4. PICK args : \E n \in Nat : n >= 3 /\ q = makeQuery(args) /\ Arguments(args, n, ps)
  BY <1>3 DEF HasArguments
<1>5. (Has(q, "token") <=> t # NoText) /\ (t # NoText => q["token"] = t)
  BY ONLY <1>3, <1>4, TokenOf
<1> QED BY <1>2, <1>5

\* For any number of clients, keys, losses and errors: no index of a key serves two
\* compare-and-set operations (Kv::compareSet, compareErase), counting with item() and
\* compareSet() loses nothing, a refusal means a change, a lock that lock() reported is
\* Consul's session until unlock(), an error is never taken for an absent key, and the
\* token is the one TokenSent says, whatever tokens the Consul object, the Kv object and
\* the calls are given, empty ones and none among them.
THEOREM KvAlwaysReliable == KvSpec => []KvReliable
<1>1. KvInv => KvReliable
  BY KvTypeFollows, TokenFollows DEF KvInv, KvReliable
<1> QED BY <1>1, KvInvariant, PTL

-----------------------------------------------------------------------------
(***************************************************************************)
(* The Base64 code: what is decoded is what was encoded.                   *)
(***************************************************************************)
Octet == 0 .. 255

\* Byte i of a text; the encoder fills the last group with zeros.
ByteOf(t, i) == IF i \in 1 .. Len(t) THEN t[i] ELSE 0

\* The four characters of group q of a text (cencode.c, step_A to step_C).
First(t, q)  == ByteOf(t, 3 * q + 1) \div 4
Second(t, q) == (ByteOf(t, 3 * q + 1) % 4) * 16 + (ByteOf(t, 3 * q + 2) \div 16)
Third(t, q)  == (ByteOf(t, 3 * q + 2) % 16) * 4 + (ByteOf(t, 3 * q + 3) \div 64)
Fourth(t, q) == ByteOf(t, 3 * q + 3) % 64

\* v is character k of the code of t, when padding and line ends are left out.
CodeChar(t, k, v) ==
  /\ v \in 0 .. 63
  /\ \A q \in Nat : /\ k = 4 * q + 1 => v = First(t, q)
                    /\ k = 4 * q + 2 => v = Second(t, q)
                    /\ k = 4 * q + 3 => v = Third(t, q)
                    /\ k = 4 * q + 4 => v = Fourth(t, q)

\* at[k] is the place of character k in c, for the first n; all else in c is
\* outside the alphabet.
Alphabet(t, c, at, n) ==
  /\ \A k \in 1 .. n : at[k] \in 1 .. Len(c) /\ at[k] >= k /\ CodeChar(t, k, c[at[k]])
  /\ \A k, l \in 1 .. n : k < l => at[k] < at[l]
  /\ \A i \in 1 .. Len(c) : (\A k \in 1 .. n : at[k] # i) => c[i] >= 64

\* c has the first n characters of the code of t.
HasCode(t, c, n) == \E at : Alphabet(t, c, at, n)

\* A character of the code is written behind the others.
LEMMA CodeCharAdded ==
  ASSUME NEW t, NEW c \in Seq(Nat), NEW n \in Nat, n <= Len(c), HasCode(t, c, n),
         NEW v \in Nat, CodeChar(t, n + 1, v)
  PROVE  HasCode(t, Append(c, v), n + 1)
<1>1. PICK at : Alphabet(t, c, at, n)
  BY DEF HasCode
<1>2. PICK d : d = Append(c, v)
  OBVIOUS
<1>3. /\ Len(c) \in Nat /\ Len(d) = Len(c) + 1 /\ d[Len(c) + 1] = v
      /\ \A i \in 1 .. Len(c) : d[i] = c[i]
  BY <1>2
<1>4. PICK b : b = [k \in 1 .. (n + 1) |-> IF k = n + 1 THEN Len(c) + 1 ELSE at[k]]
  OBVIOUS
<1>5. b[n + 1] = Len(c) + 1 /\ \A k \in 1 .. n : b[k] = at[k]
  BY <1>4
<1>6. \A k \in 1 .. (n + 1) : k \in 1 .. n \/ k = n + 1
  OBVIOUS
<1>7. \A k \in 1 .. n : at[k] \in 1 .. Len(c) /\ at[k] >= k /\ CodeChar(t, k, c[at[k]])
  BY <1>1 DEF Alphabet
<1>8. ASSUME NEW k \in 1 .. (n + 1)
      PROVE  b[k] \in 1 .. Len(d) /\ b[k] >= k /\ CodeChar(t, k, d[b[k]])
  <2>1. CASE k \in 1 .. n
    <3>1. b[k] = at[k] /\ at[k] \in 1 .. Len(c) /\ at[k] >= k /\ d[at[k]] = c[at[k]]
      BY <1>3, <1>5, <1>7, <2>1
    <3>2. at[k] \in 1 .. Len(d)
      BY <1>3, <3>1
    <3> QED BY <1>7, <2>1, <3>1, <3>2
  <2>2. CASE k = n + 1
    BY <1>3, <1>5, <2>2
  <2> QED BY <1>6, <2>1, <2>2
<1>9. ASSUME NEW k \in 1 .. (n + 1), NEW l \in 1 .. (n + 1), k < l PROVE b[k] < b[l]
  <2>1. k \in 1 .. n
    BY <1>9
  <2>2. CASE l \in 1 .. n
    BY <1>1, <1>5, <1>9, <2>1, <2>2 DEF Alphabet
  <2>3. CASE l = n + 1
    BY <1>3, <1>5, <1>7, <2>1, <2>3
  <2> QED BY <1>6, <2>2, <2>3
<1>10. ASSUME NEW i \in 1 .. Len(d), \A k \in 1 .. (n + 1) : b[k] # i PROVE d[i] >= 64
  <2>1. i # Len(c) + 1
    BY <1>5, <1>10
  <2>2. i \in 1 .. Len(c)
    BY <1>3, <2>1
  <2>3. \A k \in 1 .. n : at[k] # i
    BY <1>5, <1>10
  <2> QED BY <1>1, <1>3, <2>2, <2>3 DEF Alphabet
<1>11. Alphabet(t, d, b, n + 1)
  BY <1>8, <1>9, <1>10 DEF Alphabet
<1> QED BY <1>2, <1>11 DEF HasCode

\* Where a place comes to be when something is inserted after place i.
Shifted(i, x) == IF x > i THEN x + 1 ELSE x

LEMMA ShiftedOrder ==
  \A i, x, y, n \in Nat :
     /\ Shifted(i, x) \in Nat /\ Shifted(i, x) >= x
     /\ x <= n => Shifted(i, x) <= n + 1
     /\ x < y => Shifted(i, x) < Shifted(i, y)
BY DEF Shifted

\* A character outside the alphabet may stand anywhere.
LEMMA OtherAdded ==
  ASSUME NEW t, NEW c \in Seq(Nat), NEW n \in Nat, HasCode(t, c, n), NEW i \in 0 .. Len(c),
         NEW d \in Seq(Nat), Len(d) = Len(c) + 1, d[i + 1] >= 64,
         \A j \in 1 .. i : d[j] = c[j],
         \A j \in (i + 1) .. Len(c) : d[j + 1] = c[j]
  PROVE  HasCode(t, d, n)
<1>1. PICK at : Alphabet(t, c, at, n)
  BY DEF HasCode
<1>2. Len(c) \in Nat /\ i \in Nat /\ i <= Len(c) /\ Len(d) = Len(c) + 1
  OBVIOUS
<1>3. PICK b : b = [k \in 1 .. n |-> Shifted(i, at[k])]
  OBVIOUS
<1>x. ASSUME NEW k \in 1 .. n
      PROVE  /\ at[k] \in Nat /\ at[k] \in 1 .. Len(c) /\ at[k] >= k /\ CodeChar(t, k, c[at[k]])
             /\ b[k] = Shifted(i, at[k])
  <2>1. at[k] \in 1 .. Len(c) /\ at[k] >= k /\ CodeChar(t, k, c[at[k]])
    BY <1>1 DEF Alphabet
  <2>2. at[k] \in Nat
    BY <1>2, <2>1, SMTT(30)
  <2>3. b[k] = Shifted(i, at[k])
    BY <1>3
  <2> QED BY <2>1, <2>2, <2>3
<1>4. ASSUME NEW k \in 1 .. n
      PROVE  b[k] \in 1 .. Len(d) /\ b[k] >= k /\ CodeChar(t, k, d[b[k]])
  <2>1. PICK x \in Nat : x = at[k]
    BY <1>x
  <2>2. x \in 1 .. Len(c) /\ x >= k /\ CodeChar(t, k, c[x]) /\ b[k] = Shifted(i, x)
    BY <1>x, <2>1
  <2>3. k \in Nat /\ k >= 1
    OBVIOUS
  <2>4. Shifted(i, x) \in 1 .. Len(d) /\ Shifted(i, x) >= k
    BY ONLY <1>2, <2>2, <2>3, x \in Nat DEF Shifted
  <2>5. d[Shifted(i, x)] = c[x]
    BY <1>2, <2>2, SMTT(30) DEF Shifted
  <2> QED BY <2>2, <2>4, <2>5
<1>5. ASSUME NEW k \in 1 .. n, NEW l \in 1 .. n, k < l PROVE b[k] < b[l]
  <2>1. at[k] \in Nat /\ at[l] \in Nat /\ at[k] < at[l]
    BY <1>1, <1>5, <1>x DEF Alphabet
  <2>2. Shifted(i, at[k]) < Shifted(i, at[l])
    BY <1>2, <2>1, ShiftedOrder
  <2> QED BY <1>x, <2>2
<1>6. ASSUME NEW j \in 1 .. Len(d), \A k \in 1 .. n : b[k] # j PROVE d[j] >= 64
  <2>1. CASE j \in 1 .. i
    <3>1. ASSUME NEW k \in 1 .. n, at[k] = j PROVE FALSE
      <4>1. Shifted(i, j) = j
        BY <1>2, <2>1 DEF Shifted
      <4>2. b[k] = j
        BY <1>x, <3>1, <4>1
      <4> QED BY <1>6, <4>2
    <3>2. j \in 1 .. Len(c)
      BY <1>2, <2>1
    <3> QED BY <1>1, <2>1, <3>1, <3>2 DEF Alphabet
  <2>2. CASE j = i + 1
    BY <2>2
  <2>3. CASE j > i + 1
    <3>1. j - 1 \in (i + 1) .. Len(c) /\ j - 1 \in 1 .. Len(c) /\ (j - 1) + 1 = j
      BY <1>2, <2>3
    <3>2. \A k \in 1 .. n : at[k] # j - 1
      <4> SUFFICES ASSUME NEW k \in 1 .. n, at[k] = j - 1 PROVE FALSE
        OBVIOUS
      <4>1. Shifted(i, j - 1) = j
        BY <1>2, <3>1 DEF Shifted
      <4>2. b[k] = j
        BY <1>x, <4>1
      <4> QED BY <1>6, <4>2
    <3>3. c[j - 1] >= 64
      BY <1>1, <3>1, <3>2 DEF Alphabet
    <3> QED BY <3>1, <3>3
  <2> QED BY <1>2, <2>1, <2>2, <2>3
<1>7. Alphabet(t, d, b, n)
  BY <1>4, <1>5, <1>6 DEF Alphabet
<1> QED BY <1>7 DEF HasCode

\* Where a place comes to be when place i is left out.
Closed(i, x) == IF x > i THEN x - 1 ELSE x

LEMMA ClosedOrder ==
  \A i, x, y, n \in Nat :
     /\ x # i /\ i >= 1 /\ i <= n + 1 /\ x \in 1 .. (n + 1) => Closed(i, x) \in 1 .. n
     /\ x # i /\ y # i /\ x < y => Closed(i, x) < Closed(i, y)
BY DEF Closed

\* Places in ascending order: none is smaller than its number.
LEMMA Ascending ==
  ASSUME NEW n \in Nat, NEW b, \A k \in 1 .. n : b[k] \in Nat /\ b[k] >= 1,
         \A k, l \in 1 .. n : k < l => b[k] < b[l]
  PROVE  \A k \in 1 .. n : b[k] >= k
<1> SUFFICES ASSUME NEW j \in 1 .. n, ~ (b[j] >= j) PROVE FALSE
  OBVIOUS
<1>1. PICK S : S = {x \in 1 .. n : ~ (b[n + 1 - x] >= n + 1 - x)}
  OBVIOUS
<1>2. n + 1 - j \in S
  <2>1. n + 1 - j \in 1 .. n /\ n + 1 - (n + 1 - j) = j
    OBVIOUS
  <2> QED BY <1>1, <2>1
<1>3. S \subseteq 1 .. n /\ S # {}
  BY <1>1, <1>2
<1>4. PICK x \in S : \A y \in S : y <= x
  BY ONLY <1>3, n \in Nat, LastPlace
<1>5. PICK k \in 1 .. n : k = n + 1 - x
  BY <1>3
<1>6. ~ (b[k] >= k) /\ b[k] \in Nat /\ b[k] >= 1
  BY <1>1, <1>5
<1>7. CASE k = 1
  BY <1>6, <1>7
<1>8. CASE k # 1
  <2>1. k - 1 \in 1 .. n /\ k - 1 < k /\ x + 1 \in 1 .. n /\ n + 1 - (x + 1) = k - 1
    BY <1>3, <1>5, <1>8
  <2>2. x + 1 \notin S
    BY <1>3, <1>4
  <2>3. b[k - 1] >= k - 1
    BY <1>1, <2>1, <2>2
  <2>4. b[k - 1] < b[k] /\ b[k - 1] \in Nat
    BY <2>1
  <2> QED BY <1>6, <2>1, <2>3, <2>4
<1> QED BY <1>7, <1>8

\* A character outside the alphabet may be left out.
LEMMA OtherOmitted ==
  ASSUME NEW t, NEW c \in Seq(Nat), NEW n \in Nat, HasCode(t, c, n), NEW i \in 1 .. Len(c),
         c[i] >= 64, NEW d \in Seq(Nat), Len(d) + 1 = Len(c),
         \A j \in 1 .. (i - 1) : d[j] = c[j],
         \A j \in i .. Len(d) : d[j] = c[j + 1]
  PROVE  HasCode(t, d, n)
<1>1. PICK at : Alphabet(t, c, at, n)
  BY DEF HasCode
<1>2. Len(c) \in Nat /\ Len(d) \in Nat /\ i \in Nat /\ i >= 1 /\ i <= Len(d) + 1 /\ Len(c) = Len(d) + 1
  OBVIOUS
<1>3. PICK b : b = [k \in 1 .. n |-> Closed(i, at[k])]
  OBVIOUS
<1>x. ASSUME NEW k \in 1 .. n
      PROVE  /\ at[k] \in Nat /\ at[k] \in 1 .. Len(c) /\ CodeChar(t, k, c[at[k]])
             /\ at[k] # i /\ b[k] = Closed(i, at[k])
  <2>1. at[k] \in 1 .. Len(c) /\ CodeChar(t, k, c[at[k]])
    BY <1>1 DEF Alphabet
  <2>2. at[k] \in Nat
    BY <1>2, <2>1, SMTT(30)
  <2>3. c[at[k]] \in 0 .. 63
    BY <2>1 DEF CodeChar
  <2>4. at[k] # i
    <3>1. SUFFICES ASSUME at[k] = i PROVE FALSE
      OBVIOUS
    <3>2. c[i] \in 0 .. 63
      BY ONLY <2>3, <3>1
    <3>3. \A v \in 0 .. 63 : ~ (v >= 64)
      BY ONLY SMT
    <3> QED BY <3>2, <3>3
  <2>5. b[k] = Closed(i, at[k])
    BY <1>3
  <2> QED BY <2>1, <2>2, <2>4, <2>5
<1>4. ASSUME NEW k \in 1 .. n
      PROVE  b[k] \in 1 .. Len(d) /\ CodeChar(t, k, d[b[k]])
  <2>1. PICK x \in Nat : x = at[k]
    BY <1>x
  <2>2. x \in 1 .. Len(c) /\ x # i /\ CodeChar(t, k, c[x]) /\ b[k] = Closed(i, x)
    BY <1>x, <2>1
  <2>3. Closed(i, x) \in 1 .. Len(d)
    BY ONLY <1>2, <2>2, x \in Nat DEF Closed
  <2>4. d[Closed(i, x)] = c[x]
    <3>1. CASE x < i
      <4>1. Closed(i, x) = x /\ x \in 1 .. (i - 1)
        BY ONLY <1>2, <2>2, <3>1, x \in Nat DEF Closed
      <4> QED BY <4>1
    <3>2. CASE x > i
      <4>1. Closed(i, x) = x - 1 /\ x - 1 \in i .. Len(d) /\ (x - 1) + 1 = x
        BY ONLY <1>2, <2>2, <3>2, x \in Nat DEF Closed
      <4> QED BY <4>1
    <3> QED BY <1>2, <2>2, <3>1, <3>2
  <2> QED BY <2>2, <2>3, <2>4
<1>5. ASSUME NEW k \in 1 .. n, NEW l \in 1 .. n, k < l PROVE b[k] < b[l]
  <2>1. at[k] \in Nat /\ at[l] \in Nat /\ at[k] < at[l] /\ at[k] # i /\ at[l] # i
    BY <1>1, <1>5, <1>x DEF Alphabet
  <2>2. Closed(i, at[k]) < Closed(i, at[l])
    BY <1>2, <2>1, ClosedOrder
  <2> QED BY <1>x, <2>2
<1>y. \A k \in 1 .. n : b[k] >= k
  <2>1. \A k \in 1 .. n : b[k] \in Nat /\ b[k] >= 1
    BY <1>2, <1>4
  <2>2. \A k, l \in 1 .. n : k < l => b[k] < b[l]
    BY <1>5
  <2> QED BY ONLY <2>1, <2>2, n \in Nat, Ascending
<1>6. ASSUME NEW j \in 1 .. Len(d), \A k \in 1 .. n : b[k] # j PROVE d[j] >= 64
  <2>1. CASE j < i
    <3>1. j \in 1 .. (i - 1) /\ j \in 1 .. Len(c) /\ Closed(i, j) = j
      BY <1>2, <2>1 DEF Closed
    <3>2. \A k \in 1 .. n : at[k] # j
      BY <1>6, <1>x, <3>1
    <3> QED BY <1>1, <3>1, <3>2 DEF Alphabet
  <2>2. CASE j >= i
    <3>1. j \in i .. Len(d) /\ j + 1 \in 1 .. Len(c) /\ Closed(i, j + 1) = j
      BY <1>2, <2>2 DEF Closed
    <3>2. \A k \in 1 .. n : at[k] # j + 1
      BY <1>6, <1>x, <3>1
    <3> QED BY <1>1, <3>1, <3>2 DEF Alphabet
  <2> QED BY <1>2, <2>1, <2>2
<1>7. Alphabet(t, d, b, n)
  BY <1>4, <1>5, <1>6, <1>y DEF Alphabet
<1> QED BY <1>7 DEF HasCode

\* Quotient and remainder of a byte by the powers of 2 of the code.
LEMMA Halves ==
  ASSUME NEW x \in 0 .. 255
  PROVE  /\ x \div 4 \in 0 .. 63 /\ x % 4 \in 0 .. 3 /\ x = 4 * (x \div 4) + (x % 4)
         /\ x \div 16 \in 0 .. 15 /\ x % 16 \in 0 .. 15 /\ x = 16 * (x \div 16) + (x % 16)
         /\ x \div 64 \in 0 .. 3 /\ x % 64 \in 0 .. 63 /\ x = 64 * (x \div 64) + (x % 64)
<1>1. x \div 4 \in 0 .. 63 /\ x % 4 \in 0 .. 3 /\ x = 4 * (x \div 4) + (x % 4)
  OBVIOUS
<1>2. x \div 16 \in 0 .. 15 /\ x % 16 \in 0 .. 15 /\ x = 16 * (x \div 16) + (x % 16)
  OBVIOUS
<1>3. x \div 64 \in 0 .. 3 /\ x % 64 \in 0 .. 63 /\ x = 64 * (x \div 64) + (x % 64)
  OBVIOUS
<1> QED BY <1>1, <1>2, <1>3

\* The bits of two bytes in a character, and back.
LEMMA Joined16 ==
  ASSUME NEW u \in 0 .. 3, NEW v \in 0 .. 15
  PROVE  u * 16 + v \in 0 .. 63 /\ (u * 16 + v) \div 16 = u /\ (u * 16 + v) % 16 = v
OBVIOUS

LEMMA Joined4 ==
  ASSUME NEW u \in 0 .. 15, NEW v \in 0 .. 3
  PROVE  u * 4 + v \in 0 .. 63 /\ (u * 4 + v) \div 4 = u /\ (u * 4 + v) % 4 = v
OBVIOUS

LEMMA ByteOfType ==
  ASSUME NEW t \in Seq(Octet), NEW i \in Nat
  PROVE  ByteOf(t, i) \in 0 .. 255
<1>1. CASE i \in 1 .. Len(t)
  <2>1. t[i] \in Octet
    BY <1>1
  <2> QED BY <1>1, <2>1 DEF ByteOf, Octet
<1>2. CASE i \notin 1 .. Len(t)
  BY <1>2 DEF ByteOf
<1> QED BY <1>1, <1>2

\* A code is at least as long as the characters it has.
LEMMA CodeLength ==
  ASSUME NEW t, NEW c \in Seq(Nat), NEW n \in Nat, HasCode(t, c, n)
  PROVE  n <= Len(c)
<1>1. PICK at : Alphabet(t, c, at, n)
  BY DEF HasCode
<1>2. CASE n = 0
  BY <1>2
<1>3. CASE n # 0
  <2>1. n \in 1 .. n
    BY <1>3
  <2>2. at[n] \in 1 .. Len(c) /\ at[n] >= n
    BY <1>1, <2>1 DEF Alphabet
  <2> QED BY <2>2
<1> QED BY <1>2, <1>3

\* The characters of a group are those that CodeChar speaks of.
LEMMA CharOfGroup ==
  ASSUME NEW t \in Seq(Octet), NEW q \in Nat
  PROVE  /\ CodeChar(t, 4 * q + 1, First(t, q)) /\ CodeChar(t, 4 * q + 2, Second(t, q))
         /\ CodeChar(t, 4 * q + 3, Third(t, q)) /\ CodeChar(t, 4 * q + 4, Fourth(t, q))
<1>a. PICK x \in 0 .. 255, y \in 0 .. 255, z \in 0 .. 255 :
        x = ByteOf(t, 3 * q + 1) /\ y = ByteOf(t, 3 * q + 2) /\ z = ByteOf(t, 3 * q + 3)
  <2>1. 3 * q + 1 \in Nat /\ 3 * q + 2 \in Nat /\ 3 * q + 3 \in Nat
    OBVIOUS
  <2> QED BY <2>1, ByteOfType
<1>b. x \div 4 \in 0 .. 63 /\ x % 4 \in 0 .. 3 /\ y \div 16 \in 0 .. 15 /\ y % 16 \in 0 .. 15
      /\ z \div 64 \in 0 .. 3 /\ z % 64 \in 0 .. 63
  BY Halves
<1>1. /\ First(t, q) \in 0 .. 63 /\ Second(t, q) \in 0 .. 63
      /\ Third(t, q) \in 0 .. 63 /\ Fourth(t, q) \in 0 .. 63
  <2>1. (x % 4) * 16 + (y \div 16) \in 0 .. 63
    BY <1>b, Joined16
  <2>2. (y % 16) * 4 + (z \div 64) \in 0 .. 63
    BY <1>b, Joined4
  <2> QED BY <1>a, <1>b, <2>1, <2>2 DEF First, Second, Third, Fourth
<1>2. \A p \in Nat : /\ 4 * q + 1 = 4 * p + 1 => p = q
                     /\ 4 * q + 1 # 4 * p + 2 /\ 4 * q + 1 # 4 * p + 3 /\ 4 * q + 1 # 4 * p + 4
  OBVIOUS
<1>3. \A p \in Nat : /\ 4 * q + 2 = 4 * p + 2 => p = q
                     /\ 4 * q + 2 # 4 * p + 1 /\ 4 * q + 2 # 4 * p + 3 /\ 4 * q + 2 # 4 * p + 4
  OBVIOUS
<1>4. \A p \in Nat : /\ 4 * q + 3 = 4 * p + 3 => p = q
                     /\ 4 * q + 3 # 4 * p + 1 /\ 4 * q + 3 # 4 * p + 2 /\ 4 * q + 3 # 4 * p + 4
  OBVIOUS
<1>5. \A p \in Nat : /\ 4 * q + 4 = 4 * p + 4 => p = q
                     /\ 4 * q + 4 # 4 * p + 1 /\ 4 * q + 4 # 4 * p + 2 /\ 4 * q + 4 # 4 * p + 3
  OBVIOUS
<1>6. CodeChar(t, 4 * q + 1, First(t, q))
  BY <1>1, <1>2 DEF CodeChar
<1>7. CodeChar(t, 4 * q + 2, Second(t, q))
  BY <1>1, <1>3 DEF CodeChar
<1>8. CodeChar(t, 4 * q + 3, Third(t, q))
  BY <1>1, <1>4 DEF CodeChar
<1>9. CodeChar(t, 4 * q + 4, Fourth(t, q))
  BY <1>1, <1>5 DEF CodeChar
<1> QED BY <1>6, <1>7, <1>8, <1>9

\* Bytes of the group that the encoder has taken, and characters of it that it
\* has written.
EncOffset(step) == IF step = "A" THEN 0 ELSE IF step = "B" THEN 1 ELSE 2

\* Every place up to p is in a line that ends at p or before.
Lined(c, p) == \A i \in 1 .. p : \E j \in i .. (i + CharsPerLine) : j <= p /\ c[j] = NewLine

\* Where the encoder is: in group q, with the bits of the last byte, and in a
\* line that has room for the group.
EncInv ==
  /\ \E q \in Nat : /\ pos = 3 * q + EncOffset(enc.step)
                    /\ HasCode(text, code, 4 * q + EncOffset(enc.step))
                    /\ enc.step = "B" => enc.result = (ByteOf(text, 3 * q + 1) % 4) * 16
                    /\ enc.step = "C" => enc.result = (ByteOf(text, 3 * q + 2) % 16) * 4
  /\ \E p \in 0 .. Len(code) : /\ Len(code) = p + 4 * enc.stepcount + EncOffset(enc.step)
                               /\ Lined(code, p)

B64Types ==
  /\ text \in Seq(Octet) /\ pos \in 0 .. Len(text)
  /\ enc \in [step : {"A", "B", "C"}, result : 0 .. 63, stepcount : Nat]
  /\ enc.stepcount < CharsPerLine \div 4
  /\ code \in Seq(Nat) /\ foreign \in Nat /\ size \in Nat
  /\ phase \in {"encode", "send", "decode", "done"}

\* The number of characters of the code of a text.
CodeSize(t, n) ==
  \E q \in Nat : \/ Len(t) = 3 * q /\ n = 4 * q
                 \/ Len(t) = 3 * q + 1 /\ n = 4 * q + 2
                 \/ Len(t) = 3 * q + 2 /\ n = 4 * q + 3

LEMMA EncodeValue ==
  ASSUME NEW v \in 0 .. 63
  PROVE  encode_value(v) = v /\ v \in Nat
BY DEF encode_value

\* The bits kept for the next character.
LEMMA KeptBits ==
  /\ \A u \in 0 .. 3 : u * 16 \in 0 .. 63
  /\ \A u \in 0 .. 15 : u * 4 \in 0 .. 63
OBVIOUS

\* Lines stay when more is written behind them.
LEMMA LinedGrows ==
  ASSUME NEW c \in Seq(Nat), NEW d \in Seq(Nat), NEW p \in 0 .. Len(c), Lined(c, p),
         \A i \in 1 .. Len(c) : d[i] = c[i]
  PROVE  Lined(d, p)
<1> SUFFICES ASSUME NEW i \in 1 .. p
             PROVE  \E j \in i .. (i + CharsPerLine) : j <= p /\ d[j] = NewLine
  BY DEF Lined
<1>1. PICK j \in i .. (i + CharsPerLine) : j <= p /\ c[j] = NewLine
  BY DEF Lined
<1>2. Len(c) \in Nat /\ CharsPerLine \in Nat
  BY Base64Assumption
<1>3. j \in 1 .. Len(c)
  BY <1>1, <1>2
<1>4. d[j] = c[j]
  BY <1>3
<1> QED BY <1>1, <1>4

\* Steps of the encoder: each adds its characters to the code.
LEMMA StepAAdds ==
  ASSUME B64Types, EncInv, enc.step = "A", pos < Len(text),
         code' = code \o StepA(enc, text[pos + 1]).chars,
         enc' = StepA(enc, text[pos + 1]).state,
         pos' = pos + 1, text' = text
  PROVE  /\ EncInv'
         /\ code' \in Seq(Nat)
         /\ enc' \in [step : {"A", "B", "C"}, result : 0 .. 63, stepcount : Nat]
         /\ enc'.stepcount < CharsPerLine \div 4
<1>1. PICK q \in Nat : pos = 3 * q /\ HasCode(text, code, 4 * q)
  BY DEF EncInv, EncOffset
<1>2. PICK x : x = text[pos + 1]
  OBVIOUS
<1>3. pos + 1 \in 1 .. Len(text) /\ text \in Seq(Octet) /\ pos + 1 = 3 * q + 1
  BY <1>1 DEF B64Types
<1>4. x \in Octet /\ x = ByteOf(text, 3 * q + 1)
  BY <1>2, <1>3 DEF ByteOf
<1>5. x \div 4 \in 0 .. 63 /\ x % 4 \in 0 .. 3
  BY <1>4, Halves DEF Octet
<1>7. PICK v \in Nat : v = x \div 4 /\ v \in 0 .. 63
  BY <1>5
<1>6. encode_value(x \div 4) = v
  BY <1>7, EncodeValue
<1>8. code' = Append(code, v)
  <2>1. code' = code \o <<v>>
    BY <1>2, <1>6, <1>7 DEF StepA
  <2>2. code \in Seq(Nat)
    BY DEF B64Types
  <2> QED BY <2>1, <2>2
<1>9. /\ enc'.step = "B" /\ enc'.result = (x % 4) * 16 /\ enc'.stepcount = enc.stepcount
      /\ enc' \in [step : {"A", "B", "C"}, result : 0 .. 63, stepcount : Nat]
  <2>1. (x % 4) * 16 \in 0 .. 63
    BY <1>5, KeptBits
  <2> QED BY <1>2, <2>1 DEF StepA, B64Types
<1>10. HasCode(text, code', 4 * q + 1)
  <2>1. CodeChar(text, 4 * q + 1, v)
    BY <1>1, <1>3, <1>4, <1>7, CharOfGroup DEF First
  <2>2. code \in Seq(Nat) /\ 4 * q \in Nat
    BY DEF B64Types
  <2>3. 4 * q <= Len(code)
    BY <1>1, <2>2, CodeLength
  <2> QED BY <1>1, <1>8, <2>1, <2>2, <2>3, CodeCharAdded
<1>11. PICK p \in 0 .. Len(code) : /\ Len(code) = p + 4 * enc.stepcount + EncOffset(enc.step)
                                   /\ Lined(code, p)
  BY DEF EncInv
<1>12. code \in Seq(Nat) /\ enc.stepcount \in Nat
  BY DEF B64Types
<1>13. /\ code' \in Seq(Nat) /\ Len(code') = Len(code) + 1
       /\ \A i \in 1 .. Len(code) : code'[i] = code[i]
  BY <1>8, <1>12
<1>14. Lined(code', p)
  BY ONLY <1>11, <1>12, <1>13, p \in 0 .. Len(code), LinedGrows
<1>15. p \in 0 .. Len(code') /\ Len(code') = p + 4 * enc'.stepcount + 1
  BY <1>9, <1>11, <1>12, <1>13 DEF EncOffset
<1>16. EncInv'
  BY <1>1, <1>3, <1>4, <1>9, <1>10, <1>14, <1>15 DEF EncInv, EncOffset
<1> QED BY <1>9, <1>13, <1>16 DEF B64Types

LEMMA StepBAdds ==
  ASSUME B64Types, EncInv, enc.step = "B", pos < Len(text),
         code' = code \o StepB(enc, text[pos + 1]).chars,
         enc' = StepB(enc, text[pos + 1]).state,
         pos' = pos + 1, text' = text
  PROVE  /\ EncInv'
         /\ code' \in Seq(Nat)
         /\ enc' \in [step : {"A", "B", "C"}, result : 0 .. 63, stepcount : Nat]
         /\ enc'.stepcount < CharsPerLine \div 4
<1>1. PICK q \in Nat : /\ pos = 3 * q + 1 /\ HasCode(text, code, 4 * q + 1)
                       /\ enc.result = (ByteOf(text, 3 * q + 1) % 4) * 16
  BY DEF EncInv, EncOffset
<1>2. PICK x : x = text[pos + 1]
  OBVIOUS
<1>3. pos + 1 \in 1 .. Len(text) /\ text \in Seq(Octet) /\ pos + 1 = 3 * q + 2
  BY <1>1 DEF B64Types
<1>4. x \in Octet /\ x = ByteOf(text, 3 * q + 2)
  BY <1>2, <1>3 DEF ByteOf
<1>5. x \div 16 \in 0 .. 15 /\ x % 16 \in 0 .. 15
  BY <1>4, Halves DEF Octet
<1>6. PICK v : v = Second(text, q)
  OBVIOUS
<1>7. CodeChar(text, 4 * q + 2, v) /\ v \in 0 .. 63 /\ v \in Nat
  <2>1. CodeChar(text, 4 * q + 2, v)
    BY <1>3, <1>6, CharOfGroup
  <2> QED BY <2>1 DEF CodeChar
<1>8. encode_value(enc.result + (x \div 16)) = v
  BY <1>1, <1>4, <1>6, <1>7, EncodeValue DEF Second
<1>9. code \in Seq(Nat) /\ enc.stepcount \in Nat
  BY DEF B64Types
<1>10. code' = Append(code, v)
  <2>1. code' = code \o <<v>>
    BY <1>2, <1>8 DEF StepB
  <2> QED BY <2>1, <1>7, <1>9
<1>11. /\ enc'.step = "C" /\ enc'.result = (x % 16) * 4 /\ enc'.stepcount = enc.stepcount
       /\ enc' \in [step : {"A", "B", "C"}, result : 0 .. 63, stepcount : Nat]
  <2>1. (x % 16) * 4 \in 0 .. 63
    BY <1>5, KeptBits
  <2> QED BY <1>2, <2>1 DEF StepB, B64Types
<1>12. HasCode(text, code', 4 * q + 2)
  <2>1. PICK n \in Nat : n = 4 * q + 1 /\ n + 1 = 4 * q + 2
    OBVIOUS
  <2>2. n <= Len(code)
    BY <1>1, <1>9, <2>1, CodeLength
  <2>3. HasCode(text, code, n) /\ CodeChar(text, n + 1, v)
    BY <1>1, <1>7, <2>1
  <2>4. HasCode(text, Append(code, v), n + 1)
    BY ONLY <1>7, <1>9, <2>2, <2>3, n \in Nat, CodeCharAdded
  <2> QED BY <1>10, <2>1, <2>4
<1>13. PICK p \in 0 .. Len(code) : /\ Len(code) = p + 4 * enc.stepcount + EncOffset(enc.step)
                                   /\ Lined(code, p)
  BY DEF EncInv
<1>14. /\ code' \in Seq(Nat) /\ Len(code') = Len(code) + 1
       /\ \A i \in 1 .. Len(code) : code'[i] = code[i]
  BY <1>7, <1>9, <1>10
<1>15. Lined(code', p)
  BY ONLY <1>9, <1>13, <1>14, p \in 0 .. Len(code), LinedGrows
<1>16. p \in 0 .. Len(code') /\ Len(code') = p + 4 * enc'.stepcount + 2
  BY <1>9, <1>11, <1>13, <1>14, SMTT(30) DEF EncOffset
<1>17. EncInv'
  BY <1>1, <1>3, <1>4, <1>11, <1>12, <1>15, <1>16 DEF EncInv, EncOffset
<1> QED BY <1>11, <1>14, <1>17 DEF B64Types

\* A line ends: its places have the new line end near enough.
LEMMA LineEnded ==
  ASSUME NEW c \in Seq(Nat), NEW d \in Seq(Nat), NEW p \in 0 .. Len(c), Lined(c, p),
         \A i \in 1 .. Len(c) : d[i] = c[i], Len(d) >= Len(c), d[Len(d)] = NewLine,
         Len(d) <= p + CharsPerLine + 1
  PROVE  Lined(d, Len(d))
<1> SUFFICES ASSUME NEW i \in 1 .. Len(d)
             PROVE  \E j \in i .. (i + CharsPerLine) : j <= Len(d) /\ d[j] = NewLine
  BY DEF Lined
<1>1. Len(c) \in Nat /\ Len(d) \in Nat /\ CharsPerLine \in Nat
  BY Base64Assumption
<1>2. CASE i \in 1 .. p
  <2>1. Lined(d, p)
    BY LinedGrows
  <2>2. PICK j \in i .. (i + CharsPerLine) : j <= p /\ d[j] = NewLine
    BY <1>2, <2>1 DEF Lined
  <2>3. j <= Len(d)
    BY <1>1, <2>2
  <2> QED BY <2>2, <2>3
<1>3. CASE i \notin 1 .. p
  <2>1. Len(d) \in i .. (i + CharsPerLine)
    BY <1>1, <1>3
  <2> QED BY <1>1, <2>1
<1> QED BY <1>2, <1>3

\* Sequences with the same elements are the same.
LEMMA SameSeq ==
  ASSUME NEW g \in Seq(Nat), NEW h \in Seq(Nat), Len(g) = Len(h),
         \A i \in 1 .. Len(g) : g[i] = h[i]
  PROVE  g = h
OBVIOUS

\* Characters that are written together are written one after the other.
LEMMA GroupWritten ==
  ASSUME NEW c \in Seq(Nat), NEW v \in Nat, NEW w \in Nat
  PROVE  /\ c \o (<<v, w>> \o <<>>) = Append(Append(c, v), w)
         /\ \A u \in Nat : c \o (<<v, w>> \o <<u>>) = Append(Append(Append(c, v), w), u)
<1>1. <<v, w>> \o <<>> = <<v, w>> /\ <<v, w>> \in Seq(Nat)
  OBVIOUS
<1>2. c \o <<v, w>> = Append(Append(c, v), w)
  OBVIOUS
<1>3. ASSUME NEW u \in Nat
      PROVE  c \o (<<v, w>> \o <<u>>) = Append(Append(Append(c, v), w), u)
  <2>1. <<v, w>> \o <<u>> = <<v, w, u>>
    <3>1. PICK g : g = <<v, w>> \o <<u>>
      OBVIOUS
    <3>2. g \in Seq(Nat) /\ Len(g) = 3 /\ g[1] = v /\ g[2] = w /\ g[3] = u
      BY <3>1
    <3>3. PICK h : h = <<v, w, u>>
      OBVIOUS
    <3>4. h \in Seq(Nat) /\ Len(h) = 3 /\ h[1] = v /\ h[2] = w /\ h[3] = u
      BY <3>3
    <3>5. \A i \in 1 .. 3 : i = 1 \/ i = 2 \/ i = 3
      OBVIOUS
    <3>6. \A i \in 1 .. Len(g) : g[i] = h[i]
      BY ONLY <3>2, <3>4, <3>5
    <3>7. g = h
      BY ONLY <3>2, <3>4, <3>6, SameSeq
    <3> QED BY <3>1, <3>3, <3>7
  <2>2. PICK d : d = Append(Append(c, v), w)
    OBVIOUS
  <2>3. d \in Seq(Nat) /\ Len(d) = Len(c) + 2 /\ d[Len(c) + 1] = v /\ d[Len(c) + 2] = w
        /\ \A i \in 1 .. Len(c) : d[i] = c[i]
    BY <2>2
  <2>4. PICK e : e = Append(d, u)
    OBVIOUS
  <2>5. e \in Seq(Nat) /\ Len(e) = Len(c) + 3 /\ e[Len(c) + 3] = u
        /\ \A i \in 1 .. (Len(c) + 2) : e[i] = d[i]
    BY <2>3, <2>4
  <2>6. PICK f : f = c \o <<v, w, u>>
    OBVIOUS
  <2>7. /\ f \in Seq(Nat) /\ Len(f) = Len(c) + 3 /\ f[Len(c) + 1] = v /\ f[Len(c) + 2] = w
        /\ f[Len(c) + 3] = u /\ \A i \in 1 .. Len(c) : f[i] = c[i]
    BY <2>6
  <2>8. ASSUME NEW i \in 1 .. (Len(c) + 3) PROVE f[i] = e[i]
    <3>1. i \in 1 .. Len(c) \/ i = Len(c) + 1 \/ i = Len(c) + 2 \/ i = Len(c) + 3
      OBVIOUS
    <3> QED BY <2>3, <2>5, <2>7, <3>1, SMTT(30)
  <2>9. f = e
    BY ONLY <2>5, <2>7, <2>8
  <2> QED BY <2>1, <2>2, <2>4, <2>6, <2>9
<1> QED BY <1>1, <1>2, <1>3

LEMMA StepCAdds ==
  ASSUME B64Types, EncInv, enc.step = "C", pos < Len(text),
         code' = code \o StepC(enc, text[pos + 1]).chars,
         enc' = StepC(enc, text[pos + 1]).state,
         pos' = pos + 1, text' = text
  PROVE  /\ EncInv'
         /\ code' \in Seq(Nat)
         /\ enc' \in [step : {"A", "B", "C"}, result : 0 .. 63, stepcount : Nat]
         /\ enc'.stepcount < CharsPerLine \div 4
<1>1. PICK q \in Nat : /\ pos = 3 * q + 2 /\ HasCode(text, code, 4 * q + 2)
                       /\ enc.result = (ByteOf(text, 3 * q + 2) % 16) * 4
  BY DEF EncInv, EncOffset
<1>2. PICK x : x = text[pos + 1]
  OBVIOUS
<1>3. pos + 1 \in 1 .. Len(text) /\ text \in Seq(Octet) /\ pos + 1 = 3 * q + 3
  BY <1>1 DEF B64Types
<1>4. x \in Octet /\ x = ByteOf(text, 3 * q + 3)
  BY <1>2, <1>3 DEF ByteOf
<1>5. x % 64 \in 0 .. 63
  BY <1>4, Halves DEF Octet
<1>6. PICK v, w : v = Third(text, q) /\ w = Fourth(text, q)
  OBVIOUS
<1>7. /\ CodeChar(text, 4 * q + 3, v) /\ v \in 0 .. 63 /\ v \in Nat
      /\ CodeChar(text, 4 * q + 4, w) /\ w \in 0 .. 63 /\ w \in Nat
  <2>1. CodeChar(text, 4 * q + 3, v) /\ CodeChar(text, 4 * q + 4, w)
    BY <1>3, <1>6, CharOfGroup
  <2> QED BY <2>1 DEF CodeChar
<1>8. encode_value(enc.result + (x \div 64)) = v /\ encode_value(x % 64) = w
  BY <1>1, <1>4, <1>6, <1>7, EncodeValue DEF Third, Fourth
<1>9. /\ code \in Seq(Nat) /\ enc.stepcount \in Nat /\ enc.stepcount < CharsPerLine \div 4
      /\ CharsPerLine \in Nat /\ CharsPerLine >= 4
  BY Base64Assumption DEF B64Types
<1>10. PICK c : c = Append(Append(code, v), w)
  OBVIOUS
<1>11. /\ c \in Seq(Nat) /\ Len(c) = Len(code) + 2
       /\ \A i \in 1 .. Len(code) : c[i] = code[i]
  BY <1>7, <1>9, <1>10
<1>12. HasCode(text, c, 4 * q + 4)
  <2>1. PICK n \in Nat : n = 4 * q + 2 /\ n + 1 = 4 * q + 3 /\ n + 2 = 4 * q + 4
    OBVIOUS
  <2>2. n <= Len(code)
    BY <1>1, <1>9, <2>1, CodeLength
  <2>3. HasCode(text, code, n) /\ CodeChar(text, n + 1, v)
    BY <1>1, <1>7, <2>1
  <2>4. PICK d : d = Append(code, v)
    OBVIOUS
  <2>5. HasCode(text, d, n + 1)
    BY ONLY <1>7, <1>9, <2>2, <2>3, <2>4, n \in Nat, CodeCharAdded
  <2>6. PICK m \in Nat : m = n + 1 /\ m + 1 = 4 * q + 4
    BY <2>1
  <2>x. d \in Seq(Nat) /\ Len(d) = Len(code) + 1 /\ Len(code) \in Nat
    BY <1>7, <1>9, <2>4
  <2>7. d \in Seq(Nat) /\ m <= Len(d) /\ HasCode(text, d, m) /\ CodeChar(text, m + 1, w)
    <3>1. m <= Len(d)
      BY ONLY <2>2, <2>6, <2>x, n \in Nat, m \in Nat
    <3> QED BY <1>7, <2>5, <2>6, <2>x, <3>1
  <2>8. HasCode(text, Append(d, w), m + 1)
    BY ONLY <1>7, <2>7, m \in Nat, CodeCharAdded
  <2> QED BY <1>10, <2>4, <2>6, <2>8
<1>13. PICK p \in 0 .. Len(code) : /\ Len(code) = p + 4 * enc.stepcount + EncOffset(enc.step)
                                   /\ Lined(code, p)
  BY DEF EncInv
<1>14. PICK z : z = CharsPerLine \div 4 /\ z \in Nat /\ z >= 1 /\ 4 * z <= CharsPerLine
  BY <1>9
<1>15. enc'.step = "A" /\ enc'.result \in 0 .. 63
  BY <1>2, <1>5 DEF StepC
<1>16. pos' = 3 * (q + 1) /\ q + 1 \in Nat /\ 4 * (q + 1) = 4 * q + 4
  BY <1>3
<1>17. CASE enc.stepcount + 1 # z
  <2>1. code' = code \o (<<v, w>> \o <<>>) /\ enc' = [step |-> "A", result |-> x % 64, stepcount |-> enc.stepcount + 1]
    BY <1>2, <1>8, <1>14, <1>17 DEF StepC
  <2>2. code' = c
    BY <1>7, <1>9, <1>10, <2>1, GroupWritten, SMTT(30)
  <2>3. Lined(code', p)
    BY ONLY <1>9, <1>11, <1>13, <2>2, p \in 0 .. Len(code), LinedGrows
  <2>y. enc'.stepcount = enc.stepcount + 1 /\ EncOffset(enc.step) = 2 /\ EncOffset(enc'.step) = 0
    BY <1>15, <2>1 DEF EncOffset
  <2>4. p \in 0 .. Len(code') /\ Len(code') = p + 4 * enc'.stepcount + EncOffset(enc'.step)
    <3>1. Len(code) \in Nat /\ Len(code') = Len(code) + 2
      BY <1>9, <1>11, <2>2
    <3>2. p \in 0 .. Len(code') /\ Len(code') = (p + 4 * enc.stepcount + 2) + 2
      BY ONLY <1>13, <2>y, <3>1, p \in 0 .. Len(code)
    <3>3. (p + 4 * enc.stepcount + 2) + 2 = p + 4 * (enc.stepcount + 1) + 0
      BY ONLY <1>9, <3>1, p \in 0 .. Len(code)
    <3> QED BY ONLY <2>y, <3>2, <3>3
  <2>5. /\ pos' = 3 * (q + 1) + EncOffset(enc'.step)
        /\ HasCode(text', code', 4 * (q + 1) + EncOffset(enc'.step))
    BY <1>12, <1>16, <2>2, <2>y
  <2>6. EncInv'
    BY <1>15, <1>16, <2>3, <2>4, <2>5 DEF EncInv
  <2>7. enc'.stepcount < CharsPerLine \div 4
    BY <1>9, <1>14, <1>17, <2>y, SMTT(30)
  <2>8. enc' \in [step : {"A", "B", "C"}, result : 0 .. 63, stepcount : Nat]
    BY <1>5, <1>9, <2>1
  <2> QED BY <1>11, <2>2, <2>6, <2>7, <2>8
<1>18. CASE enc.stepcount + 1 = z
  <2>1. code' = code \o (<<v, w>> \o <<NewLine>>) /\ enc' = [step |-> "A", result |-> x % 64, stepcount |-> 0]
    BY <1>2, <1>8, <1>14, <1>18 DEF StepC
  <2>2. code' = Append(c, NewLine) /\ NewLine \in Nat
    <3>1. NewLine \in Nat
      BY DEF NewLine
    <3>2. code \o (<<v, w>> \o <<NewLine>>) = Append(Append(Append(code, v), w), NewLine)
      BY ONLY <1>7, <1>9, <3>1, GroupWritten, SMTT(30)
    <3> QED BY ONLY <1>10, <2>1, <3>1, <3>2
  <2>3. /\ code' \in Seq(Nat) /\ Len(code') = Len(c) + 1 /\ code'[Len(c) + 1] = NewLine
        /\ \A i \in 1 .. Len(c) : code'[i] = c[i]
    BY <1>11, <2>2
  <2>4. Lined(code', Len(code'))
    <3>a. EncOffset(enc.step) = 2
      BY DEF EncOffset
    <3>1. Len(code') <= p + CharsPerLine + 1 /\ Len(code') >= Len(code)
      <4>1. Len(code) \in Nat /\ Len(code') = Len(code) + 3
        BY <1>9, <1>11, <2>3
      <4>2. Len(code') = (p + 4 * enc.stepcount + 2) + 3 /\ p \in Nat
        BY ONLY <1>13, <3>a, <4>1, p \in 0 .. Len(code)
      <4>3. (p + 4 * enc.stepcount + 2) + 3 = p + 4 * (enc.stepcount + 1) + 1
        BY ONLY <1>9, <4>2
      <4>4. Len(code') = p + 4 * z + 1
        BY ONLY <1>18, <4>2, <4>3
      <4> QED BY ONLY <1>9, <1>14, <4>1, <4>2, <4>4, SMTT(30)
    <3>2. code'[Len(code')] = NewLine /\ \A i \in 1 .. Len(code) : code'[i] = code[i]
      BY <1>9, <1>11, <2>3
    <3> QED BY ONLY <1>9, <1>13, <2>3, <3>1, <3>2, p \in 0 .. Len(code), LineEnded
  <2>5. HasCode(text', code', 4 * (q + 1))
    <3>1. HasCode(text, c, 4 * (q + 1)) /\ 4 * (q + 1) \in Nat
      BY <1>12, <1>16
    <3>2. Len(c) \in 0 .. Len(c) /\ code'[Len(c) + 1] >= 64
      BY <1>11, <2>3 DEF NewLine
    <3>3. \A j \in (Len(c) + 1) .. Len(c) : code'[j + 1] = c[j]
      BY <1>11
    <3>4. HasCode(text, code', 4 * (q + 1))
      BY ONLY <1>11, <2>3, <3>1, <3>2, <3>3, OtherAdded
    <3> QED BY <3>4
  <2>y. enc'.stepcount = 0 /\ EncOffset(enc'.step) = 0 /\ Len(code') \in Nat
    BY <1>15, <2>1, <2>3 DEF EncOffset
  <2>6. /\ Len(code') \in 0 .. Len(code')
        /\ Len(code') = Len(code') + 4 * enc'.stepcount + EncOffset(enc'.step)
    BY <2>y
  <2>z. pos' = 3 * (q + 1) + EncOffset(enc'.step) /\ 4 * (q + 1) = 4 * (q + 1) + EncOffset(enc'.step)
    BY ONLY <1>16, <2>y
  <2>7. EncInv'
    BY <1>15, <1>16, <2>4, <2>5, <2>6, <2>z DEF EncInv
  <2> QED BY <1>5, <1>14, <2>1, <2>3, <2>7
<1> QED BY <1>17, <1>18

\* What is outside the alphabet may follow the code.
LEMMA TailAdded ==
  ASSUME NEW t, NEW c \in Seq(Nat), NEW n \in Nat, HasCode(t, c, n),
         NEW d \in Seq(Nat), Len(d) >= Len(c), \A i \in 1 .. Len(c) : d[i] = c[i],
         \A i \in (Len(c) + 1) .. Len(d) : d[i] >= 64
  PROVE  HasCode(t, d, n)
<1>1. PICK at : Alphabet(t, c, at, n)
  BY DEF HasCode
<1>2. Len(c) \in Nat /\ Len(d) \in Nat
  OBVIOUS
<1>3. ASSUME NEW k \in 1 .. n
      PROVE  at[k] \in 1 .. Len(d) /\ at[k] >= k /\ CodeChar(t, k, d[at[k]])
  <2>1. at[k] \in 1 .. Len(c) /\ at[k] >= k /\ CodeChar(t, k, c[at[k]])
    BY <1>1 DEF Alphabet
  <2>2. d[at[k]] = c[at[k]] /\ at[k] \in 1 .. Len(d)
    BY <1>2, <2>1
  <2> QED BY <2>1, <2>2
<1>4. ASSUME NEW i \in 1 .. Len(d), \A k \in 1 .. n : at[k] # i PROVE d[i] >= 64
  <2>1. CASE i \in 1 .. Len(c)
    BY <1>1, <1>4, <2>1 DEF Alphabet
  <2>2. CASE i \notin 1 .. Len(c)
    BY <1>2, <2>2
  <2> QED BY <2>1, <2>2
<1>5. Alphabet(t, d, at, n)
  BY <1>1, <1>3, <1>4 DEF Alphabet
<1> QED BY <1>5 DEF HasCode

\* The last group of a text: the bytes it lacks are zero.
LEMMA LastGroup ==
  ASSUME NEW t \in Seq(Octet), NEW q \in Nat
  PROVE  /\ Len(t) = 3 * q + 1 => Second(t, q) = (ByteOf(t, 3 * q + 1) % 4) * 16
         /\ Len(t) = 3 * q + 2 => Third(t, q) = (ByteOf(t, 3 * q + 2) % 16) * 4
<1>1. ASSUME Len(t) = 3 * q + 1 PROVE Second(t, q) = (ByteOf(t, 3 * q + 1) % 4) * 16
  <2>1. ByteOf(t, 3 * q + 2) = 0
    BY <1>1 DEF ByteOf
  <2>2. 3 * q + 1 \in Nat
    OBVIOUS
  <2>3. PICK x \in 0 .. 255 : x = ByteOf(t, 3 * q + 1)
    BY <2>2, ByteOfType
  <2>4. PICK u \in 0 .. 3 : u = x % 4
    BY Halves
  <2>5. u * 16 + (0 \div 16) = u * 16
    OBVIOUS
  <2> QED BY <2>1, <2>3, <2>4, <2>5 DEF Second
<1>2. ASSUME Len(t) = 3 * q + 2 PROVE Third(t, q) = (ByteOf(t, 3 * q + 2) % 16) * 4
  <2>1. ByteOf(t, 3 * q + 3) = 0
    BY <1>2 DEF ByteOf
  <2>2. 3 * q + 2 \in Nat
    OBVIOUS
  <2>3. PICK x \in 0 .. 255 : x = ByteOf(t, 3 * q + 2)
    BY <2>2, ByteOfType
  <2>4. PICK u \in 0 .. 15 : u = x % 16
    BY Halves
  <2>5. u * 4 + (0 \div 64) = u * 4
    OBVIOUS
  <2> QED BY <2>1, <2>3, <2>4, <2>5 DEF Third
<1> QED BY <1>1, <1>2

\* The elements of a concatenation.
Joins(d, c, e) ==
  /\ d \in Seq(Nat) /\ Len(d) = Len(c) + Len(e)
  /\ \A i \in 1 .. Len(c) : d[i] = c[i]
  /\ \A i \in 1 .. Len(e) : d[Len(c) + i] = e[i]

LEMMA Concat == \A c, e \in Seq(Nat) : \A d : d = c \o e => Joins(d, c, e)
<1> SUFFICES ASSUME NEW c \in Seq(Nat), NEW e \in Seq(Nat) PROVE Joins(c \o e, c, e)
  OBVIOUS
<1> QED BY DEF Joins

\* The end of the code: the bits left, the padding and the end of the line.
LEMMA EndAdds ==
  ASSUME B64Types, EncInv, pos = Len(text), code' = code \o encode_blockend(enc), text' = text
  PROVE  /\ code' \in Seq(Nat) /\ Len(code') > 0
         /\ \E n \in Nat : HasCode(text, code', n) /\ CodeSize(text, n)
         /\ Lined(code', Len(code'))
<1>1. PICK q \in Nat : /\ pos = 3 * q + EncOffset(enc.step)
                       /\ HasCode(text, code, 4 * q + EncOffset(enc.step))
                       /\ enc.step = "B" => enc.result = (ByteOf(text, 3 * q + 1) % 4) * 16
                       /\ enc.step = "C" => enc.result = (ByteOf(text, 3 * q + 2) % 16) * 4
  BY DEF EncInv
<1>2. PICK p \in 0 .. Len(code) : /\ Len(code) = p + 4 * enc.stepcount + EncOffset(enc.step)
                                  /\ Lined(code, p)
  BY DEF EncInv
<1>3. /\ text \in Seq(Octet) /\ code \in Seq(Nat) /\ Len(code) \in Nat /\ enc.stepcount \in Nat
      /\ enc.stepcount < CharsPerLine \div 4 /\ CharsPerLine \in Nat /\ CharsPerLine >= 4
      /\ enc.step \in {"A", "B", "C"}
  BY Base64Assumption DEF B64Types
<1>4. PICK z : z = CharsPerLine \div 4 /\ z \in Nat /\ z >= 1 /\ 4 * z <= CharsPerLine
  BY <1>3
<1>5. PICK e, d : e = encode_blockend(enc) /\ d = code' /\ d = code \o e
  OBVIOUS
<1>d. PICK L \in Nat : L = Len(code)
  BY <1>3
<1>6. CASE enc.step = "A"
  <2>1. e = <<>> \o <<NewLine>> /\ EncOffset(enc.step) = 0
    BY <1>5, <1>6 DEF encode_blockend, EncOffset
  <2>2. e \in Seq(Nat) /\ Len(e) = 1 /\ e[1] = 65
    BY <2>1 DEF NewLine
  <2>3. /\ d \in Seq(Nat) /\ Len(d) = Len(code) + 1 /\ d[Len(code) + 1] = 65
        /\ \A i \in 1 .. Len(code) : d[i] = code[i]
    <3>1. /\ d \in Seq(Nat) /\ Len(d) = Len(code) + Len(e)
          /\ \A i \in 1 .. Len(code) : d[i] = code[i]
          /\ \A i \in 1 .. Len(e) : d[Len(code) + i] = e[i]
      <4>1. d = code \o e /\ code \in Seq(Nat) /\ e \in Seq(Nat)
        BY <1>3, <1>5, <2>2
      <4>2. Joins(d, code, e)
        BY ONLY <4>1, Concat
      <4> QED BY <4>2 DEF Joins
    <3>2. 1 \in 1 .. Len(e)
      BY <2>2
    <3> QED BY ONLY <2>2, <3>1, <3>2
  <2>4. \A i \in (Len(code) + 1) .. Len(d) : i = Len(code) + 1
    BY <1>3, <2>3
  <2>5. HasCode(text, code, 4 * q) /\ 4 * q \in Nat /\ Len(text) = 3 * q
    BY <1>1, <2>1
  <2>6. HasCode(text, d, 4 * q)
    <3>1. \A i \in (Len(code) + 1) .. Len(d) : d[i] >= 64
      BY <2>3, <2>4
    <3>2. Len(d) >= Len(code)
      BY <1>3, <2>3
    <3> QED BY ONLY <1>3, <2>3, <2>5, <3>1, <3>2, TailAdded
  <2>7. CodeSize(text, 4 * q)
    BY <2>5 DEF CodeSize
  <2>8. Lined(d, Len(d))
    <3>1. Len(d) <= p + CharsPerLine + 1 /\ Len(d) >= Len(code)
      BY ONLY <1>2, <1>3, <1>4, <2>1, <2>3, p \in 0 .. Len(code), SMTT(30)
    <3>2. d[Len(d)] = NewLine
      BY <2>3 DEF NewLine
    <3> QED BY ONLY <1>2, <1>3, <2>3, <3>1, <3>2, p \in 0 .. Len(code), LineEnded
  <2> QED BY <1>3, <1>5, <2>3, <2>5, <2>6, <2>7, <2>8
<1>7. CASE enc.step = "B"
  <2>1. PICK v : v = Second(text, q)
    OBVIOUS
  <2>2. EncOffset(enc.step) = 1 /\ Len(text) = 3 * q + 1
    BY <1>1, <1>7 DEF EncOffset
  <2>3. CodeChar(text, 4 * q + 2, v)
    BY <1>3, <2>1, CharOfGroup
  <2>4. v \in 0 .. 63 /\ v \in Nat /\ encode_value(enc.result) = v
    <3>1. v \in 0 .. 63
      BY <2>3 DEF CodeChar
    <3>2. enc.result = v
      BY <1>1, <1>3, <1>7, <2>1, <2>2, LastGroup
    <3> QED BY <3>1, <3>2, EncodeValue
  <2>5. e = <<v, 64, 64>> \o <<65>>
    BY <1>5, <1>7, <2>4 DEF encode_blockend, Pad, NewLine
  <2>6. e \in Seq(Nat) /\ Len(e) = 4 /\ e[1] = v /\ e[2] = 64 /\ e[3] = 64 /\ e[4] = 65
    BY <2>4, <2>5
  <2>7. /\ d \in Seq(Nat) /\ Len(d) = Len(code) + 4 /\ d[Len(code) + 1] = v
        /\ d[Len(code) + 2] = 64 /\ d[Len(code) + 3] = 64 /\ d[Len(code) + 4] = 65
        /\ \A i \in 1 .. Len(code) : d[i] = code[i]
    <3>1. /\ d \in Seq(Nat) /\ Len(d) = Len(code) + Len(e)
          /\ \A i \in 1 .. Len(code) : d[i] = code[i]
          /\ \A i \in 1 .. Len(e) : d[Len(code) + i] = e[i]
      <4>1. d = code \o e /\ code \in Seq(Nat) /\ e \in Seq(Nat)
        BY <1>3, <1>5, <2>6
      <4>2. Joins(d, code, e)
        BY ONLY <4>1, Concat
      <4> QED BY <4>2 DEF Joins
    <3>2. 1 \in 1 .. Len(e) /\ 2 \in 1 .. Len(e) /\ 3 \in 1 .. Len(e) /\ 4 \in 1 .. Len(e)
      BY <2>6
    <3> QED BY ONLY <2>6, <3>1, <3>2
  <2>8. PICK c : c = Append(code, v)
    OBVIOUS
  <2>9. c \in Seq(Nat) /\ Len(c) = Len(code) + 1 /\ \A i \in 1 .. Len(c) : d[i] = c[i]
    <3>1. /\ c \in Seq(Nat) /\ Len(c) = Len(code) + 1 /\ c[Len(code) + 1] = v
          /\ \A i \in 1 .. Len(code) : c[i] = code[i]
      BY ONLY <1>3, <2>4, <2>8
    <3>2. \A i \in 1 .. Len(c) : i \in 1 .. Len(code) \/ i = Len(code) + 1
      BY ONLY <1>3, <3>1
    <3> QED BY ONLY <2>7, <3>1, <3>2
  <2>10. HasCode(text, c, 4 * q + 2) /\ 4 * q + 2 \in Nat
    <3>1. PICK n \in Nat : n = 4 * q + 1 /\ n + 1 = 4 * q + 2
      OBVIOUS
    <3>2. HasCode(text, code, n) /\ CodeChar(text, n + 1, v)
      BY <1>1, <2>2, <2>3, <3>1
    <3>3. n <= Len(code)
      BY ONLY <1>3, <3>2, n \in Nat, CodeLength
    <3>4. HasCode(text, Append(code, v), n + 1)
      BY ONLY <1>3, <2>4, <3>2, <3>3, n \in Nat, CodeCharAdded
    <3> QED BY <2>8, <3>1, <3>4
  <2>11. HasCode(text, d, 4 * q + 2)
    <3>0. Len(c) + 1 = L + 2 /\ Len(d) = L + 4
      BY ONLY <1>d, <2>7, <2>9, L \in Nat
    <3>a. \A i \in (L + 2) .. (L + 4) : i = L + 2 \/ i = L + 3 \/ i = L + 4
      OBVIOUS
    <3>1. \A i \in (Len(c) + 1) .. Len(d) :
             i = Len(code) + 2 \/ i = Len(code) + 3 \/ i = Len(code) + 4
      BY ONLY <1>d, <3>0, <3>a
    <3>b. d[Len(code) + 2] >= 64 /\ d[Len(code) + 3] >= 64 /\ d[Len(code) + 4] >= 64
      BY ONLY <2>7
    <3>2. \A i \in (Len(c) + 1) .. Len(d) : d[i] >= 64
      BY ONLY <3>1, <3>b, Zenon
    <3>3. Len(d) >= Len(c)
      BY <1>3, <2>7, <2>9
    <3> QED BY ONLY <1>3, <2>7, <2>9, <2>10, <3>2, <3>3, TailAdded
  <2>12. CodeSize(text, 4 * q + 2)
    BY <2>2 DEF CodeSize
  <2>13. Lined(d, Len(d))
    <3>1. Len(d) = p + 4 * enc.stepcount + 1 + 4 /\ p \in Nat
      BY ONLY <1>2, <1>3, <2>2, <2>7, p \in 0 .. Len(code)
    <3>2. 4 * enc.stepcount + 4 <= 4 * z
      BY ONLY <1>3, <1>4
    <3>3. Len(d) <= p + CharsPerLine + 1 /\ Len(d) >= Len(code)
      <4>1. PICK s \in Nat : s = 4 * enc.stepcount
        BY <1>3
      <4>2. PICK y \in Nat : y = 4 * z
        BY <1>4
      <4>3. Len(d) = p + s + 5 /\ p \in Nat
        BY ONLY <3>1, <4>1
      <4>4. s + 4 <= y /\ y <= CharsPerLine /\ CharsPerLine \in Nat
        BY ONLY <1>3, <1>4, <3>2, <4>1, <4>2
      <4>5. Len(d) <= p + CharsPerLine + 1
        BY ONLY <4>3, <4>4, s \in Nat, y \in Nat
      <4>6. Len(d) >= Len(code)
        BY ONLY <1>3, <2>7
      <4> QED BY <4>5, <4>6
    <3>4. d[Len(d)] = NewLine
      BY <2>7 DEF NewLine
    <3> QED BY ONLY <1>2, <1>3, <2>7, <3>3, <3>4, p \in 0 .. Len(code), LineEnded
  <2> QED BY <1>3, <1>5, <2>7, <2>10, <2>11, <2>12, <2>13, SMTT(30)
<1>8. CASE enc.step = "C"
  <2>1. PICK v : v = Third(text, q)
    OBVIOUS
  <2>2. EncOffset(enc.step) = 2 /\ Len(text) = 3 * q + 2
    BY <1>1, <1>8 DEF EncOffset
  <2>3. CodeChar(text, 4 * q + 3, v)
    BY <1>3, <2>1, CharOfGroup
  <2>4. v \in 0 .. 63 /\ v \in Nat /\ encode_value(enc.result) = v
    <3>1. v \in 0 .. 63
      BY <2>3 DEF CodeChar
    <3>2. enc.result = v
      BY <1>1, <1>3, <1>8, <2>1, <2>2, LastGroup
    <3> QED BY <3>1, <3>2, EncodeValue
  <2>5. e = <<v, 64>> \o <<65>>
    BY <1>5, <1>8, <2>4 DEF encode_blockend, Pad, NewLine
  <2>6. e \in Seq(Nat) /\ Len(e) = 3 /\ e[1] = v /\ e[2] = 64 /\ e[3] = 65
    BY <2>4, <2>5
  <2>7. /\ d \in Seq(Nat) /\ Len(d) = Len(code) + 3 /\ d[Len(code) + 1] = v
        /\ d[Len(code) + 2] = 64 /\ d[Len(code) + 3] = 65
        /\ \A i \in 1 .. Len(code) : d[i] = code[i]
    <3>1. /\ d \in Seq(Nat) /\ Len(d) = Len(code) + Len(e)
          /\ \A i \in 1 .. Len(code) : d[i] = code[i]
          /\ \A i \in 1 .. Len(e) : d[Len(code) + i] = e[i]
      <4>1. d = code \o e /\ code \in Seq(Nat) /\ e \in Seq(Nat)
        BY <1>3, <1>5, <2>6
      <4>2. Joins(d, code, e)
        BY ONLY <4>1, Concat
      <4> QED BY <4>2 DEF Joins
    <3>2. 1 \in 1 .. Len(e) /\ 2 \in 1 .. Len(e) /\ 3 \in 1 .. Len(e)
      BY <2>6
    <3> QED BY ONLY <2>6, <3>1, <3>2
  <2>8. PICK c : c = Append(code, v)
    OBVIOUS
  <2>9. c \in Seq(Nat) /\ Len(c) = Len(code) + 1 /\ \A i \in 1 .. Len(c) : d[i] = c[i]
    <3>1. /\ c \in Seq(Nat) /\ Len(c) = Len(code) + 1 /\ c[Len(code) + 1] = v
          /\ \A i \in 1 .. Len(code) : c[i] = code[i]
      BY ONLY <1>3, <2>4, <2>8
    <3>2. \A i \in 1 .. Len(c) : i \in 1 .. Len(code) \/ i = Len(code) + 1
      BY ONLY <1>3, <3>1
    <3> QED BY ONLY <2>7, <3>1, <3>2, SMTT(30)
  <2>10. HasCode(text, c, 4 * q + 3) /\ 4 * q + 3 \in Nat
    <3>1. PICK n \in Nat : n = 4 * q + 2 /\ n + 1 = 4 * q + 3
      OBVIOUS
    <3>2. HasCode(text, code, n) /\ CodeChar(text, n + 1, v)
      BY <1>1, <2>2, <2>3, <3>1
    <3>3. n <= Len(code)
      BY ONLY <1>3, <3>2, n \in Nat, CodeLength
    <3>4. HasCode(text, Append(code, v), n + 1)
      BY ONLY <1>3, <2>4, <3>2, <3>3, n \in Nat, CodeCharAdded
    <3> QED BY <2>8, <3>1, <3>4
  <2>11. HasCode(text, d, 4 * q + 3)
    <3>1. \A i \in (Len(c) + 1) .. Len(d) : i = Len(code) + 2 \/ i = Len(code) + 3
      BY ONLY <1>3, <2>7, <2>9, SMTT(30)
    <3>b. d[Len(code) + 2] >= 64 /\ d[Len(code) + 3] >= 64
      BY ONLY <2>7
    <3>2. \A i \in (Len(c) + 1) .. Len(d) : d[i] >= 64
      BY ONLY <3>1, <3>b, Zenon
    <3>3. Len(d) >= Len(c)
      BY <1>3, <2>7, <2>9
    <3> QED BY ONLY <1>3, <2>7, <2>9, <2>10, <3>2, <3>3, TailAdded
  <2>12. CodeSize(text, 4 * q + 3)
    BY <2>2 DEF CodeSize
  <2>13. Lined(d, Len(d))
    <3>1. Len(d) = p + 4 * enc.stepcount + 2 + 3 /\ p \in Nat
      BY ONLY <1>2, <1>3, <2>2, <2>7, p \in 0 .. Len(code)
    <3>2. 4 * enc.stepcount + 4 <= 4 * z
      BY ONLY <1>3, <1>4
    <3>3. Len(d) <= p + CharsPerLine + 1 /\ Len(d) >= Len(code)
      <4>1. PICK s \in Nat : s = 4 * enc.stepcount
        BY <1>3
      <4>2. PICK y \in Nat : y = 4 * z
        BY <1>4
      <4>3. Len(d) = p + s + 5 /\ p \in Nat
        BY ONLY <3>1, <4>1
      <4>4. s + 4 <= y /\ y <= CharsPerLine /\ CharsPerLine \in Nat
        BY ONLY <1>3, <1>4, <3>2, <4>1, <4>2
      <4>5. Len(d) <= p + CharsPerLine + 1
        BY ONLY <4>3, <4>4, s \in Nat, y \in Nat
      <4>6. Len(d) >= Len(code)
        BY ONLY <1>3, <2>7
      <4> QED BY <4>5, <4>6
    <3>4. d[Len(d)] = NewLine
      BY <2>7 DEF NewLine
    <3> QED BY ONLY <1>2, <1>3, <2>7, <3>3, <3>4, p \in 0 .. Len(code), LineEnded
  <2> QED BY <1>3, <1>5, <2>7, <2>10, <2>11, <2>12, <2>13
<1> QED BY <1>3, <1>6, <1>7, <1>8

\* The first m characters of the code are among the first r of c.
ReadTo(at, n, m, r) ==
  /\ \A k \in 1 .. m : at[k] <= r
  /\ \A k \in (m + 1) .. n : at[k] > r

\* The next character the decoder reads is outside the alphabet, or it is the
\* next one of the code.
LEMMA ReadNext ==
  ASSUME NEW t, NEW c \in Seq(Nat), NEW n \in Nat, NEW at, Alphabet(t, c, at, n),
         NEW m \in 0 .. n, NEW r \in Nat, r < Len(c), ReadTo(at, n, m, r)
  PROVE  \/ c[r + 1] >= 64 /\ ReadTo(at, n, m, r + 1)
         \/ m < n /\ c[r + 1] < 64 /\ CodeChar(t, m + 1, c[r + 1]) /\ ReadTo(at, n, m + 1, r + 1)
<1>1. Len(c) \in Nat /\ r + 1 \in 1 .. Len(c) /\ m \in Nat /\ m <= n
  OBVIOUS
<1>2. \A k \in 1 .. n : at[k] \in Nat /\ CodeChar(t, k, c[at[k]])
  BY <1>1 DEF Alphabet
<1>3. \A k \in 1 .. m : at[k] \in Nat /\ at[k] <= r
  BY <1>1, <1>2 DEF ReadTo
<1>4. \A k \in (m + 1) .. n : at[k] \in Nat /\ at[k] > r
  BY <1>1, <1>2 DEF ReadTo
<1>5. CASE \A k \in 1 .. n : at[k] # r + 1
  <2>1. c[r + 1] >= 64
    BY <1>1, <1>5 DEF Alphabet
  <2>2. \A k \in 1 .. m : at[k] <= r + 1
    BY <1>3
  <2>3. ASSUME NEW k \in (m + 1) .. n PROVE at[k] > r + 1
    <3>1. k \in 1 .. n
      BY <1>1
    <3>2. at[k] # r + 1 /\ at[k] \in Nat /\ at[k] > r
      BY <1>4, <1>5, <3>1
    <3> QED BY <3>2
  <2> QED BY <2>1, <2>2, <2>3 DEF ReadTo
<1>6. ASSUME NEW k \in 1 .. n, at[k] = r + 1
      PROVE  m < n /\ c[r + 1] < 64 /\ CodeChar(t, m + 1, c[r + 1]) /\ ReadTo(at, n, m + 1, r + 1)
  <2>1. k \notin 1 .. m
    BY <1>3, <1>6
  <2>2. k \in (m + 1) .. n /\ m < n /\ m + 1 \in 1 .. n /\ m + 1 \in (m + 1) .. n
    BY <1>1, <2>1
  <2>3. k = m + 1
    <3> SUFFICES ASSUME k # m + 1 PROVE FALSE
      OBVIOUS
    <3>1. m + 1 < k
      BY <1>1, <2>2
    <3>2. at[m + 1] < at[k]
      BY <2>2, <3>1 DEF Alphabet
    <3>3. at[m + 1] \in Nat /\ at[m + 1] > r
      BY <1>4, <2>2
    <3> QED BY <1>6, <3>2, <3>3
  <2>4. CodeChar(t, m + 1, c[r + 1])
    BY <1>2, <1>6, <2>3
  <2>5. c[r + 1] < 64
    <3>1. PICK v : v = c[r + 1]
      OBVIOUS
    <3>2. v \in 0 .. 63
      BY <2>4, <3>1 DEF CodeChar
    <3>3. v < 64
      BY ONLY <3>2
    <3> QED BY ONLY <3>1, <3>3
  <2>6. \A l \in 1 .. (m + 1) : at[l] <= r + 1
    <3> SUFFICES ASSUME NEW l \in 1 .. (m + 1) PROVE at[l] <= r + 1
      OBVIOUS
    <3>1. CASE l = m + 1
      BY <1>6, <2>3, <3>1
    <3>2. CASE l # m + 1
      <4>1. l \in 1 .. m
        BY <1>1, <3>2
      <4>2. at[l] \in Nat /\ at[l] <= r
        BY <1>3, <4>1
      <4> QED BY <4>2
    <3> QED BY <3>1, <3>2
  <2>7. \A l \in (m + 2) .. n : at[l] > r + 1
    <3> SUFFICES ASSUME NEW l \in (m + 2) .. n PROVE at[l] > r + 1
      OBVIOUS
    <3>1. l \in 1 .. n /\ m + 1 < l
      BY <1>1
    <3>2. at[m + 1] < at[l] /\ at[l] \in Nat
      BY <1>2, <2>2, <3>1 DEF Alphabet
    <3> QED BY <1>6, <2>3, <3>2
  <2>8. (m + 1) + 1 = m + 2
    BY <1>1
  <2> QED BY <2>2, <2>4, <2>5, <2>6, <2>7, <2>8 DEF ReadTo
<1> QED BY <1>5, <1>6

DecSteps == {"a", "b", "c", "d"}

\* Characters of the group that the decoder has read, and bytes of it that it
\* has completed.
DecOffset(step) == IF step = "a" THEN 0 ELSE IF step = "b" THEN 1 ELSE IF step = "c" THEN 2 ELSE 3
OutOffset(step) == IF step \in {"a", "b"} THEN 0 ELSE IF step = "c" THEN 1 ELSE 2

\* The bits it has of the next byte.
BitsOf(t, q, step) ==
  IF step = "a" THEN 0
  ELSE IF step = "b" THEN (ByteOf(t, 3 * q + 1) \div 4) * 4
  ELSE IF step = "c" THEN (ByteOf(t, 3 * q + 2) \div 16) * 16
  ELSE (ByteOf(t, 3 * q + 3) \div 64) * 64

\* The decoder d, with o written, has read the first m characters of the code
\* of t.
DecodedTo(t, d, o, m, q) ==
  /\ d \in [step : DecSteps, plainchar : 0 .. 255]
  /\ m = 4 * q + DecOffset(d.step)
  /\ Len(o) = 3 * q + OutOffset(d.step)
  /\ \A i \in 1 .. Len(o) : o[i] = ByteOf(t, i)
  /\ d.plainchar = BitsOf(t, q, d.step)

\* The quotients of a byte, brought back to their place.
LEMMA Places == \A x \in 0 .. 255 : /\ (x \div 4) * 4 \in 0 .. 255
                                    /\ (x \div 16) * 16 \in 0 .. 255
                                    /\ (x \div 64) * 64 \in 0 .. 255
OBVIOUS

\* One more byte of t is in p than in o.
OneMore(t, o, p) ==
  /\ p \in Seq(Octet) /\ Len(p) = Len(o) + 1
  /\ \A i \in 1 .. Len(p) : p[i] = ByteOf(t, i)

\* A byte is completed.
LEMMA ByteDone ==
  ASSUME NEW t \in Seq(Octet), NEW o \in Seq(Octet), \A i \in 1 .. Len(o) : o[i] = ByteOf(t, i),
         NEW x, x = ByteOf(t, Len(o) + 1), NEW s, s = <<x>>, NEW p, p = o \o s
  PROVE  OneMore(t, o, p)
<1>1. Len(o) \in Nat /\ Len(o) + 1 \in Nat
  OBVIOUS
<1>2. x \in Octet
  BY <1>1, ByteOfType DEF Octet
<1>3. /\ p \in Seq(Octet) /\ Len(p) = Len(o) + 1 /\ p[Len(o) + 1] = x
      /\ \A i \in 1 .. Len(o) : p[i] = o[i]
  BY <1>2
<1>4. \A i \in 1 .. (Len(o) + 1) : i \in 1 .. Len(o) \/ i = Len(o) + 1
  BY <1>1
<1> QED BY <1>3, <1>4 DEF OneMore

\* A character of the code is decoded to the bits it was made of.
LEMMA CharDecoded ==
  ASSUME NEW t \in Seq(Octet), NEW o \in Seq(Octet), NEW d, NEW m \in Nat, NEW q \in Nat,
         DecodedTo(t, d, o, m, q), NEW f, CodeChar(t, m + 1, f)
  PROVE  LET r == DecodeStep(d, f)
             e == [step |-> r.step, plainchar |-> r.next]
         IN  /\ o \o r.done \in Seq(Octet)
             /\ \E k \in Nat : DecodedTo(t, e, o \o r.done, m + 1, k)
<1>1. PICK x \in 0 .. 255, y \in 0 .. 255, z \in 0 .. 255 :
        x = ByteOf(t, 3 * q + 1) /\ y = ByteOf(t, 3 * q + 2) /\ z = ByteOf(t, 3 * q + 3)
  <2>1. 3 * q + 1 \in Nat /\ 3 * q + 2 \in Nat /\ 3 * q + 3 \in Nat
    OBVIOUS
  <2> QED BY <2>1, ByteOfType
<1>2. /\ x \div 4 \in 0 .. 63 /\ x % 4 \in 0 .. 3 /\ x = 4 * (x \div 4) + (x % 4)
      /\ y \div 16 \in 0 .. 15 /\ y % 16 \in 0 .. 15 /\ y = 16 * (y \div 16) + (y % 16)
      /\ z \div 64 \in 0 .. 3 /\ z % 64 \in 0 .. 63 /\ z = 64 * (z \div 64) + (z % 64)
  BY Halves
<1>3. d.step \in DecSteps /\ m = 4 * q + DecOffset(d.step) /\ Len(o) = 3 * q + OutOffset(d.step)
      /\ (\A i \in 1 .. Len(o) : o[i] = ByteOf(t, i)) /\ d.plainchar = BitsOf(t, q, d.step)
  BY DEF DecodedTo
<1> DEFINE r == DecodeStep(d, f)
           e == [step |-> r.step, plainchar |-> r.next]
<1>4. CASE d.step = "a"
  <2>1. m + 1 = 4 * q + 1 /\ Len(o) = 3 * q
    BY <1>3, <1>4 DEF DecOffset, OutOffset
  <2>2. f = x \div 4
    BY <1>1, <2>1 DEF CodeChar, First
  <2>3. r = [done |-> <<>>, step |-> "b", next |-> f * 4]
    BY <1>4 DEF DecodeStep
  <2>4. o \o r.done = o
    BY <2>3
  <2>5. e = [step |-> "b", plainchar |-> (x \div 4) * 4]
    BY <2>2, <2>3
  <2>g. PICK g \in 0 .. 255 : g = (x \div 4) * 4
    BY ONLY x \in 0 .. 255, Places
  <2>6. e \in [step : DecSteps, plainchar : 0 .. 255] /\ e.step = "b" /\ e.plainchar = (x \div 4) * 4
    <3>1. PICK h : h = [step |-> "b", plainchar |-> g]
      OBVIOUS
    <3>2. h \in [step : DecSteps, plainchar : 0 .. 255] /\ h.step = "b" /\ h.plainchar = g
      BY ONLY <3>1, g \in 0 .. 255 DEF DecSteps
    <3>3. h = e
      BY ONLY <2>5, <2>g, <3>1
    <3> QED BY ONLY <2>g, <3>2, <3>3, Zenon
  <2>7. DecodedTo(t, e, o, m + 1, q)
    BY <1>1, <1>3, <2>1, <2>6 DEF DecodedTo, DecOffset, OutOffset, BitsOf
  <2> QED BY <2>4, <2>7
<1>5. CASE d.step = "b"
  <2>1. m + 1 = 4 * q + 2 /\ Len(o) = 3 * q /\ d.plainchar = (x \div 4) * 4
    BY <1>1, <1>3, <1>5 DEF DecOffset, OutOffset, BitsOf
  <2>2. PICK u, v : u = x % 4 /\ v = y \div 16 /\ u \in 0 .. 3 /\ v \in 0 .. 15
    BY <1>2
  <2>3. f = u * 16 + v
    BY <1>1, <2>1, <2>2 DEF CodeChar, Second
  <2>4. f \div 16 = u /\ f % 16 = v
    BY ONLY <2>2, <2>3, Joined16
  <2>5. d.plainchar + (f \div 16) = x
    BY <1>2, <2>1, <2>2, <2>4
  <2>6. r = [done |-> <<x>>, step |-> "c", next |-> v * 16]
    BY <1>5, <2>4, <2>5 DEF DecodeStep
  <2>s. PICK s : s = r.done /\ s = <<x>>
    BY <2>6
  <2>7. PICK p : p = o \o r.done /\ p = o \o s
    BY <2>s
  <2>8. x = ByteOf(t, Len(o) + 1)
    BY <1>1, <2>1
  <2>t. t \in Seq(Octet) /\ o \in Seq(Octet)
    OBVIOUS
  <2>o. OneMore(t, o, p)
    BY ONLY <1>3, <2>7, <2>8, <2>s, <2>t, ByteDone
  <2>9. p \in Seq(Octet) /\ Len(p) = Len(o) + 1 /\ \A i \in 1 .. Len(p) : p[i] = ByteOf(t, i)
    BY <2>o DEF OneMore
  <2>10. e = [step |-> "c", plainchar |-> (y \div 16) * 16]
    BY <2>2, <2>6
  <2>g. PICK g \in 0 .. 255 : g = (y \div 16) * 16
    BY ONLY y \in 0 .. 255, Places
  <2>11. e \in [step : DecSteps, plainchar : 0 .. 255] /\ e.step = "c" /\ e.plainchar = (y \div 16) * 16
    <3>1. PICK h : h = [step |-> "c", plainchar |-> g]
      OBVIOUS
    <3>2. h \in [step : DecSteps, plainchar : 0 .. 255] /\ h.step = "c" /\ h.plainchar = g
      BY ONLY <3>1, g \in 0 .. 255 DEF DecSteps
    <3>3. h = e
      BY ONLY <2>10, <2>g, <3>1
    <3> QED BY ONLY <2>g, <3>2, <3>3, Zenon
  <2>12. DecodedTo(t, e, p, m + 1, q)
    BY <1>1, <2>1, <2>9, <2>11 DEF DecodedTo, DecOffset, OutOffset, BitsOf
  <2> QED BY <2>7, <2>9, <2>12
<1>6. CASE d.step = "c"
  <2>1. m + 1 = 4 * q + 3 /\ Len(o) = 3 * q + 1 /\ d.plainchar = (y \div 16) * 16
    BY <1>1, <1>3, <1>6 DEF DecOffset, OutOffset, BitsOf
  <2>2. PICK u, v : u = y % 16 /\ v = z \div 64 /\ u \in 0 .. 15 /\ v \in 0 .. 3
    BY <1>2
  <2>3. f = u * 4 + v
    BY <1>1, <2>1, <2>2 DEF CodeChar, Third
  <2>4. f \div 4 = u /\ f % 4 = v
    BY ONLY <2>2, <2>3, Joined4
  <2>5. d.plainchar + (f \div 4) = y
    BY <1>2, <2>1, <2>2, <2>4
  <2>6. r = [done |-> <<y>>, step |-> "d", next |-> v * 64]
    BY <1>6, <2>4, <2>5 DEF DecodeStep
  <2>s. PICK s : s = r.done /\ s = <<y>>
    BY <2>6
  <2>7. PICK p : p = o \o r.done /\ p = o \o s
    BY <2>s
  <2>8. y = ByteOf(t, Len(o) + 1)
    BY <1>1, <2>1
  <2>t. t \in Seq(Octet) /\ o \in Seq(Octet)
    OBVIOUS
  <2>o. OneMore(t, o, p)
    BY ONLY <1>3, <2>7, <2>8, <2>s, <2>t, ByteDone
  <2>9. p \in Seq(Octet) /\ Len(p) = Len(o) + 1 /\ \A i \in 1 .. Len(p) : p[i] = ByteOf(t, i)
    BY <2>o DEF OneMore
  <2>10. e = [step |-> "d", plainchar |-> (z \div 64) * 64]
    BY <2>2, <2>6
  <2>g. PICK g \in 0 .. 255 : g = (z \div 64) * 64
    BY ONLY z \in 0 .. 255, Places
  <2>11. e \in [step : DecSteps, plainchar : 0 .. 255] /\ e.step = "d" /\ e.plainchar = (z \div 64) * 64
    <3>1. PICK h : h = [step |-> "d", plainchar |-> g]
      OBVIOUS
    <3>2. h \in [step : DecSteps, plainchar : 0 .. 255] /\ h.step = "d" /\ h.plainchar = g
      BY ONLY <3>1, g \in 0 .. 255 DEF DecSteps
    <3>3. h = e
      BY ONLY <2>10, <2>g, <3>1
    <3> QED BY ONLY <2>g, <3>2, <3>3, Zenon
  <2>l. Len(p) = 3 * q + 2
    BY ONLY <2>1, <2>9, q \in Nat
  <2>12. DecodedTo(t, e, p, m + 1, q)
    BY <1>1, <2>1, <2>9, <2>11, <2>l DEF DecodedTo, DecOffset, OutOffset, BitsOf
  <2> QED BY <2>7, <2>9, <2>12
<1>7. CASE d.step = "d"
  <2>1. m + 1 = 4 * q + 4 /\ Len(o) = 3 * q + 2 /\ d.plainchar = (z \div 64) * 64
    BY <1>1, <1>3, <1>7 DEF DecOffset, OutOffset, BitsOf
  <2>2. f = z % 64
    BY <1>1, <2>1 DEF CodeChar, Fourth
  <2>3. d.plainchar + f = z
    BY <1>2, <2>1, <2>2
  <2>4. r = [done |-> <<z>>, step |-> "a", next |-> 0]
    BY <1>7, <2>3 DEF DecodeStep
  <2>s. PICK s : s = r.done /\ s = <<z>>
    BY <2>4
  <2>5. PICK p : p = o \o r.done /\ p = o \o s
    BY <2>s
  <2>6. z = ByteOf(t, Len(o) + 1)
    BY <1>1, <2>1
  <2>t. t \in Seq(Octet) /\ o \in Seq(Octet)
    OBVIOUS
  <2>o. OneMore(t, o, p)
    BY ONLY <1>3, <2>5, <2>6, <2>s, <2>t, ByteDone
  <2>7. p \in Seq(Octet) /\ Len(p) = Len(o) + 1 /\ \A i \in 1 .. Len(p) : p[i] = ByteOf(t, i)
    BY <2>o DEF OneMore
  <2>8. e \in [step : DecSteps, plainchar : 0 .. 255] /\ e.step = "a" /\ e.plainchar = 0
    BY <2>4 DEF DecSteps
  <2>9. q + 1 \in Nat /\ m + 1 = 4 * (q + 1) + 0 /\ Len(p) = 3 * (q + 1) + 0
    BY <2>1, <2>7
  <2>10. DecodedTo(t, e, p, m + 1, q + 1)
    BY <2>7, <2>8, <2>9 DEF DecodedTo, DecOffset, OutOffset, BitsOf
  <2> QED BY <2>5, <2>7, <2>9, <2>10
<1> QED BY <1>3, <1>4, <1>5, <1>6, <1>7 DEF DecSteps

\* The code that is sent.
SendInv ==
  /\ \E n \in Nat : HasCode(text, code, n) /\ CodeSize(text, n)
  /\ foreign = 0 => Lined(code, Len(code))

\* Where the decoder is: it has read m of the n characters of the code.
DecInv ==
  \E n \in Nat : /\ CodeSize(text, n)
                 /\ \E at : /\ Alphabet(text, code, at, n)
                            /\ \E m \in 0 .. n, q \in Nat : /\ ReadTo(at, n, m, rd)
                                                            /\ DecodedTo(text, dec, out, m, q)

DecTypes ==
  /\ rd \in 0 .. Len(code) /\ out \in Seq(Octet)
  /\ dec \in [step : DecSteps, plainchar : 0 .. 255]

B64Inv ==
  /\ B64Types
  /\ DecTypes
  /\ phase \in {"encode", "send"} => rd = 0 /\ out = <<>>
  /\ phase = "encode" => EncInv
  /\ phase = "send" => SendInv
  /\ phase = "decode" => size = BufferFor(Len(code)) /\ DecInv
  /\ phase = "done" => out = text

LEMMA B64InvStarts == B64Init => B64Inv
<1> SUFFICES ASSUME NEW t \in B64Texts, B64Start(t) PROVE B64Inv
  BY DEF B64Init
<1>1. /\ text = t /\ pos = 0 /\ enc = [step |-> "A", result |-> 0, stepcount |-> 0] /\ code = <<>>
      /\ foreign = 0 /\ phase = "encode" /\ rd = 0 /\ dec = [step |-> "a", plainchar |-> 0]
      /\ out = <<>> /\ size = 0
  BY DEF B64Start
<1>2. text \in Seq(Octet)
  <2>1. PICK n \in 0 .. MaxBytes : t \in [1 .. n -> Bytes]
    BY DEF B64Texts
  <2>2. n \in Nat /\ Bytes \subseteq Octet
    BY Base64Assumption, <2>1 DEF Octet
  <2>3. t \in [1 .. n -> Octet]
    BY <2>1, <2>2
  <2> QED BY <1>1, <2>2, <2>3
<1>3. CharsPerLine \div 4 >= 1
  BY Base64Assumption
<1>4. B64Types
  BY <1>1, <1>2, <1>3, Base64Assumption DEF B64Types
<1>5. DecTypes
  BY <1>1 DEF DecTypes, DecSteps
<1>6. EncInv
  <2>1. HasCode(text, code, 0)
    <3>1. Alphabet(text, code, <<>>, 0)
      BY <1>1 DEF Alphabet
    <3> QED BY <3>1 DEF HasCode
  <2>2. Lined(code, 0)
    BY DEF Lined
  <2>3. enc.step = "A" /\ enc.stepcount = 0 /\ EncOffset(enc.step) = 0 /\ Len(code) = 0
    BY <1>1 DEF EncOffset
  <2>4. 0 \in 0 .. Len(code) /\ Len(code) = 0 + 4 * enc.stepcount + EncOffset(enc.step)
    BY <2>3
  <2>5. pos = 3 * 0 + EncOffset(enc.step) /\ 4 * 0 + EncOffset(enc.step) = 0 /\ 0 \in Nat
    BY <1>1, <2>3
  <2> QED BY <2>1, <2>2, <2>3, <2>4, <2>5 DEF EncInv
<1> QED BY <1>1, <1>4, <1>5, <1>6 DEF B64Inv

\* A block of the encoder.
LEMMA EncodeKeeps == ASSUME B64Inv, encode_block PROVE B64Inv'
<1>1. /\ phase = "encode" /\ pos < Len(text) /\ pos' = pos + 1
      /\ code' = code \o EncodeStep(enc, text[pos + 1]).chars
      /\ enc' = EncodeStep(enc, text[pos + 1]).state
      /\ text' = text /\ foreign' = foreign /\ phase' = phase /\ rd' = rd /\ dec' = dec /\ out' = out
      /\ size' = size
  BY DEF encode_block
<1>2. B64Types /\ EncInv /\ DecTypes /\ rd = 0 /\ out = <<>>
  BY <1>1 DEF B64Inv
<1>3. enc.step \in {"A", "B", "C"}
  BY <1>2 DEF B64Types
<1>4. /\ EncInv'
      /\ code' \in Seq(Nat)
      /\ enc' \in [step : {"A", "B", "C"}, result : 0 .. 63, stepcount : Nat]
      /\ enc'.stepcount < CharsPerLine \div 4
  <2>1. CASE enc.step = "A"
    <3>1. EncodeStep(enc, text[pos + 1]) = StepA(enc, text[pos + 1])
      BY <2>1 DEF EncodeStep
    <3>2. code' = code \o StepA(enc, text[pos + 1]).chars /\ enc' = StepA(enc, text[pos + 1]).state
      BY <1>1, <3>1
    <3> QED BY ONLY <1>1, <1>2, <2>1, <3>2, StepAAdds
  <2>2. CASE enc.step = "B"
    <3>1. EncodeStep(enc, text[pos + 1]) = StepB(enc, text[pos + 1])
      BY <2>2 DEF EncodeStep
    <3>2. code' = code \o StepB(enc, text[pos + 1]).chars /\ enc' = StepB(enc, text[pos + 1]).state
      BY <1>1, <3>1
    <3> QED BY ONLY <1>1, <1>2, <2>2, <3>2, StepBAdds
  <2>3. CASE enc.step = "C"
    <3>1. EncodeStep(enc, text[pos + 1]) = StepC(enc, text[pos + 1])
      BY <2>3 DEF EncodeStep
    <3>2. code' = code \o StepC(enc, text[pos + 1]).chars /\ enc' = StepC(enc, text[pos + 1]).state
      BY <1>1, <3>1
    <3> QED BY ONLY <1>1, <1>2, <2>3, <3>2, StepCAdds
  <2> QED BY <1>3, <2>1, <2>2, <2>3
<1>5. pos' \in 0 .. Len(text')
  <2>1. pos \in 0 .. Len(text) /\ Len(text) \in Nat
    BY <1>2 DEF B64Types
  <2> QED BY <1>1, <2>1
<1>6. B64Types'
  BY <1>1, <1>2, <1>4, <1>5 DEF B64Types
<1>7. DecTypes'
  BY <1>1, <1>2, <1>4 DEF DecTypes
<1> QED BY <1>1, <1>2, <1>4, <1>6, <1>7 DEF B64Inv

\* The end of the code.
LEMMA EndKeeps == ASSUME B64Inv, EncodeEnd PROVE B64Inv'
<1>1. /\ phase = "encode" /\ pos = Len(text) /\ code' = code \o encode_blockend(enc) /\ phase' = "send"
      /\ text' = text /\ pos' = pos /\ enc' = enc /\ foreign' = foreign /\ rd' = rd /\ dec' = dec
      /\ out' = out /\ size' = size
  BY DEF EncodeEnd
<1>2. B64Types /\ EncInv /\ DecTypes /\ rd = 0 /\ out = <<>>
  BY <1>1 DEF B64Inv
<1>3. /\ code' \in Seq(Nat) /\ Len(code') > 0
      /\ \E n \in Nat : HasCode(text, code', n) /\ CodeSize(text, n)
      /\ Lined(code', Len(code'))
  BY ONLY <1>1, <1>2, EndAdds
<1>4. SendInv'
  BY <1>1, <1>3 DEF SendInv
<1>5. B64Types'
  BY <1>1, <1>2, <1>3 DEF B64Types
<1>6. DecTypes'
  BY <1>1, <1>2, <1>3 DEF DecTypes
<1> QED BY <1>1, <1>2, <1>4, <1>5, <1>6 DEF B64Inv

\* Parts of a code.
LEMMA Parts ==
  ASSUME NEW c \in Seq(Nat), NEW i \in 0 .. Len(c)
  PROVE  /\ SubSeq(c, 1, i) \in Seq(Nat) /\ Len(SubSeq(c, 1, i)) = i
         /\ \A j \in 1 .. i : SubSeq(c, 1, i)[j] = c[j]
         /\ SubSeq(c, i + 1, Len(c)) \in Seq(Nat) /\ Len(SubSeq(c, i + 1, Len(c))) = Len(c) - i
         /\ \A j \in 1 .. (Len(c) - i) : SubSeq(c, i + 1, Len(c))[j] = c[i + j]
OBVIOUS

\* A character is put between two parts of a code.
LEMMA CharInserted ==
  ASSUME NEW t, NEW c \in Seq(Nat), NEW n \in Nat, HasCode(t, c, n), NEW i \in 0 .. Len(c),
         NEW d, d = SubSeq(c, 1, i) \o <<Foreign>> \o SubSeq(c, i + 1, Len(c))
  PROVE  d \in Seq(Nat) /\ Len(d) = Len(c) + 1 /\ HasCode(t, d, n)
<1>1. PICK a, b, f, e : /\ a = SubSeq(c, 1, i) /\ b = SubSeq(c, i + 1, Len(c)) /\ f = <<Foreign>>
                        /\ e = a \o f /\ d = e \o b
  OBVIOUS
<1>2. Len(c) \in Nat /\ i \in Nat /\ i <= Len(c)
  OBVIOUS
<1>3. /\ a \in Seq(Nat) /\ Len(a) = i /\ \A j \in 1 .. i : a[j] = c[j]
      /\ b \in Seq(Nat) /\ Len(b) = Len(c) - i /\ \A j \in 1 .. (Len(c) - i) : b[j] = c[i + j]
  <2>1. c \in Seq(Nat) /\ i \in 0 .. Len(c)
    OBVIOUS
  <2> QED BY ONLY <1>1, <2>1, Parts
<1>4. f \in Seq(Nat) /\ Len(f) = 1 /\ f[1] = 66
  BY <1>1 DEF Foreign
<1>5. e \in Seq(Nat) /\ Joins(e, a, f)
  <2>1. Joins(e, a, f)
    BY ONLY <1>1, <1>3, <1>4, Concat
  <2> QED BY <2>1 DEF Joins
<1>6. Joins(d, e, b)
  BY ONLY <1>1, <1>3, <1>5, Concat
<1>7. Len(e) = i + 1 /\ e[i + 1] = 66 /\ \A j \in 1 .. i : e[j] = c[j]
  BY <1>2, <1>3, <1>4, <1>5 DEF Joins
<1>8. d \in Seq(Nat) /\ Len(d) = Len(c) + 1
  <2>1. d \in Seq(Nat) /\ Len(d) = Len(e) + Len(b)
    BY <1>6 DEF Joins
  <2>a. Len(d) \in Nat
    BY ONLY <2>1
  <2>2. PICK u \in Nat, w \in Nat : u = Len(d) /\ w = Len(c)
    BY ONLY <1>2, <2>a
  <2>3. u = (i + 1) + (w - i)
    BY <1>3, <1>7, <2>1, <2>2
  <2>4. u = w + 1
    BY ONLY <1>2, <2>2, <2>3
  <2> QED BY <2>1, <2>2, <2>4
<1>9. d[i + 1] >= 64 /\ \A j \in 1 .. i : d[j] = c[j]
  <2>1. \A j \in 1 .. (i + 1) : d[j] = e[j]
    BY <1>6, <1>7 DEF Joins
  <2>2. i + 1 \in 1 .. (i + 1) /\ \A j \in 1 .. i : j \in 1 .. (i + 1)
    BY <1>2
  <2>3. d[i + 1] = 66 /\ \A j \in 1 .. i : d[j] = c[j]
    BY <1>7, <2>1, <2>2
  <2>4. d[i + 1] >= 64
    BY ONLY <2>3
  <2> QED BY <2>3, <2>4
<1>10. ASSUME NEW j \in (i + 1) .. Len(c) PROVE d[j + 1] = c[j]
  <2>1. PICK k \in 1 .. (Len(c) - i) : j = i + k
    <3>1. j - i \in 1 .. (Len(c) - i) /\ j = i + (j - i)
      BY <1>2
    <3> QED BY <3>1
  <2>2. d[Len(e) + k] = b[k]
    BY <1>3, <1>6, <2>1 DEF Joins
  <2>3. Len(e) + k = j + 1
    BY <1>2, <1>7, <2>1
  <2> QED BY <1>3, <2>1, <2>2, <2>3
<1>11. HasCode(t, d, n)
  BY <1>8, <1>9, <1>10, OtherAdded
<1> QED BY <1>8, <1>11

LEMMA InsertKeeps == ASSUME B64Inv, Insert PROVE B64Inv'
<1>1. /\ phase = "send" /\ foreign' = foreign + 1 /\ phase' = phase
      /\ text' = text /\ pos' = pos /\ enc' = enc /\ rd' = rd /\ dec' = dec
      /\ out' = out /\ size' = size
  BY DEF Insert
<1>2. B64Types /\ SendInv /\ DecTypes /\ rd = 0 /\ out = <<>>
  BY <1>1 DEF B64Inv
<1>3. PICK i \in 0 .. Len(code) :
        code' = SubSeq(code, 1, i) \o <<Foreign>> \o SubSeq(code, i + 1, Len(code))
  BY DEF Insert
<1>4. PICK n \in Nat : HasCode(text, code, n) /\ CodeSize(text, n)
  BY <1>2 DEF SendInv
<1>5. code \in Seq(Nat) /\ foreign \in Nat
  BY <1>2 DEF B64Types
<1>6. code' \in Seq(Nat) /\ Len(code') = Len(code) + 1 /\ HasCode(text, code', n)
  <2>1. PICK d : d = code' /\ d = SubSeq(code, 1, i) \o <<Foreign>> \o SubSeq(code, i + 1, Len(code))
    BY <1>3
  <2>2. i \in 0 .. Len(code) /\ n \in Nat
    OBVIOUS
  <2>3. d \in Seq(Nat) /\ Len(d) = Len(code) + 1 /\ HasCode(text, d, n)
    BY ONLY <1>4, <1>5, <2>1, <2>2, CharInserted
  <2> QED BY <2>1, <2>3
<1>7. Len(code) \in Nat /\ Len(code') > 0 /\ foreign' \in Nat /\ foreign' # 0
  BY <1>1, <1>5, <1>6
<1>8. SendInv'
  BY <1>1, <1>4, <1>6, <1>7 DEF SendInv
<1>9. B64Types'
  BY <1>1, <1>2, <1>6, <1>7 DEF B64Types
<1>10. DecTypes'
  BY <1>1, <1>2, <1>6, <1>7 DEF DecTypes
<1> QED BY <1>1, <1>2, <1>8, <1>9, <1>10 DEF B64Inv

\* A character is left out between two parts of a code.
LEMMA CharOmitted ==
  ASSUME NEW t, NEW c \in Seq(Nat), NEW n \in Nat, HasCode(t, c, n), NEW i \in 1 .. Len(c),
         c[i] >= 64, NEW d, d = SubSeq(c, 1, i - 1) \o SubSeq(c, i + 1, Len(c))
  PROVE  d \in Seq(Nat) /\ HasCode(t, d, n)
<1>1. PICK a, b : a = SubSeq(c, 1, i - 1) /\ b = SubSeq(c, i + 1, Len(c)) /\ d = a \o b
  OBVIOUS
<1>2. Len(c) \in Nat /\ i \in Nat /\ i >= 1 /\ i <= Len(c) /\ i - 1 \in 0 .. Len(c) /\ i \in 0 .. Len(c)
  OBVIOUS
<1>3. /\ a \in Seq(Nat) /\ Len(a) = i - 1 /\ \A j \in 1 .. (i - 1) : a[j] = c[j]
      /\ b \in Seq(Nat) /\ Len(b) = Len(c) - i /\ \A j \in 1 .. (Len(c) - i) : b[j] = c[i + j]
  <2>1. c \in Seq(Nat)
    OBVIOUS
  <2> QED BY ONLY <1>1, <1>2, <2>1, Parts
<1>4. Joins(d, a, b)
  BY ONLY <1>1, <1>3, Concat
<1>5. d \in Seq(Nat) /\ Len(d) + 1 = Len(c)
  <2>1. d \in Seq(Nat) /\ Len(d) = Len(a) + Len(b)
    BY <1>4 DEF Joins
  <2>2. Len(d) = (i - 1) + (Len(c) - i)
    BY ONLY <1>3, <2>1
  <2>3. PICK w \in Nat : w = Len(c)
    BY <1>2
  <2>4. (i - 1) + (w - i) + 1 = w
    BY ONLY <1>2, w \in Nat
  <2> QED BY <2>1, <2>2, <2>3, <2>4
<1>6. \A j \in 1 .. (i - 1) : d[j] = c[j]
  BY <1>3, <1>4 DEF Joins
<1>7. ASSUME NEW j \in i .. Len(d) PROVE d[j] = c[j + 1]
  <2>0. PICK w, u : w = Len(c) /\ u = Len(d)
    OBVIOUS
  <2>x. w \in Nat /\ u + 1 = w /\ i \in Nat /\ i >= 1 /\ j \in i .. u
    BY ONLY <1>2, <1>5, <2>0, j \in i .. Len(d)
  <2>y. u \in Nat
    BY ONLY <1>5, <2>0
  <2>1. PICK k \in 1 .. (Len(c) - i) : j = (i - 1) + k
    <3>1. j - (i - 1) \in 1 .. (w - i) /\ j = (i - 1) + (j - (i - 1))
      BY ONLY <2>x, <2>y
    <3> QED BY ONLY <2>0, <3>1
  <2>2. d[Len(a) + k] = b[k]
    BY <1>3, <1>4, <2>1 DEF Joins
  <2>3. Len(a) + k = j /\ i + k = j + 1
    BY <1>2, <1>3, <2>1
  <2> QED BY <1>3, <2>1, <2>2, <2>3
<1>8. HasCode(t, d, n)
  BY <1>5, <1>6, <1>7, OtherOmitted
<1> QED BY <1>5, <1>8

LEMMA OmitKeeps == ASSUME B64Inv, Omit PROVE B64Inv'
<1>1. /\ phase = "send" /\ foreign' = foreign + 1 /\ phase' = phase
      /\ text' = text /\ pos' = pos /\ enc' = enc /\ rd' = rd /\ dec' = dec
      /\ out' = out /\ size' = size
  BY DEF Omit
<1>2. B64Types /\ SendInv /\ DecTypes /\ rd = 0 /\ out = <<>>
  BY <1>1 DEF B64Inv
<1>3. PICK i \in 1 .. Len(code) :
        /\ code[i] >= 64
        /\ code' = SubSeq(code, 1, i - 1) \o SubSeq(code, i + 1, Len(code))
  BY DEF Omit, Pad
<1>4. PICK n \in Nat : HasCode(text, code, n) /\ CodeSize(text, n)
  BY <1>2 DEF SendInv
<1>5. code \in Seq(Nat) /\ foreign \in Nat
  BY <1>2 DEF B64Types
<1>6. code' \in Seq(Nat) /\ HasCode(text, code', n)
  <2>1. PICK d : d = code' /\ d = SubSeq(code, 1, i - 1) \o SubSeq(code, i + 1, Len(code))
    BY <1>3
  <2>2. i \in 1 .. Len(code) /\ n \in Nat
    OBVIOUS
  <2>3. d \in Seq(Nat) /\ HasCode(text, d, n)
    BY ONLY <1>3, <1>4, <1>5, <2>1, <2>2, CharOmitted
  <2> QED BY <2>1, <2>3
<1>7. Len(code') \in Nat /\ foreign' \in Nat /\ foreign' # 0
  BY <1>1, <1>5, <1>6
<1>8. SendInv'
  BY <1>1, <1>4, <1>6, <1>7 DEF SendInv
<1>9. B64Types'
  BY <1>1, <1>2, <1>6, <1>7 DEF B64Types
<1>10. DecTypes'
  BY <1>1, <1>2, <1>6, <1>7 DEF DecTypes
<1> QED BY <1>1, <1>2, <1>8, <1>9, <1>10 DEF B64Inv

\* Only an empty text has an empty code.
LEMMA EmptyCode ==
  ASSUME NEW t \in Seq(Octet), NEW n \in Nat, HasCode(t, <<>>, n), CodeSize(t, n)
  PROVE  t = <<>>
<1>1. <<>> \in Seq(Nat) /\ Len(<<>>) = 0 /\ Len(t) \in Nat
  OBVIOUS
<1>2. n = 0
  <2>1. PICK c : c = <<>> /\ c \in Seq(Nat) /\ HasCode(t, c, n) /\ Len(c) = 0
    BY <1>1
  <2>2. n \in Nat
    OBVIOUS
  <2>3. n <= Len(c)
    BY ONLY <2>1, <2>2, CodeLength
  <2> QED BY ONLY <2>1, <2>2, <2>3
<1>3. Len(t) = 0
  BY <1>1, <1>2 DEF CodeSize
<1> QED BY <1>3

\* Nothing is read when the decoder starts.
LEMMA StartKeeps == ASSUME B64Inv, decodeBase64 PROVE B64Inv'
<1>1. /\ phase = "send" /\ size' = BufferFor(Len(code)) /\ dec' = [step |-> "a", plainchar |-> 0]
      /\ phase' = IF code = <<>> THEN "done" ELSE "decode"
      /\ text' = text /\ pos' = pos /\ enc' = enc /\ code' = code /\ foreign' = foreign /\ rd' = rd
      /\ out' = out
  BY DEF decodeBase64
<1>2. B64Types /\ SendInv /\ DecTypes /\ rd = 0 /\ out = <<>>
  BY <1>1 DEF B64Inv
<1>3. phase' \in {"decode", "done"}
  BY <1>1
<1>4. code \in Seq(Nat) /\ Len(code) \in Nat /\ text \in Seq(Octet)
  BY <1>2 DEF B64Types
<1>5. size' \in Nat
  BY <1>1, <1>4 DEF BufferFor
<1>6. PICK n \in Nat : HasCode(text, code, n) /\ CodeSize(text, n)
  BY <1>2 DEF SendInv
<1>e. phase' = "done" => out' = text'
  <2>1. code = <<>> => text = <<>>
    BY <1>4, <1>6, EmptyCode
  <2> QED BY <1>1, <1>2, <2>1
<1>7. PICK at : Alphabet(text, code, at, n)
  BY <1>6 DEF HasCode
<1>8. ReadTo(at, n, 0, 0)
  <2>1. \A k \in 1 .. n : at[k] \in 1 .. Len(code)
    BY <1>7 DEF Alphabet
  <2>2. \A k \in 1 .. n : at[k] > 0
    BY <1>4, <2>1
  <2> QED BY <2>2 DEF ReadTo
<1>9. dec'.step = "a" /\ dec'.plainchar = 0 /\ dec' \in [step : DecSteps, plainchar : 0 .. 255]
  BY <1>1 DEF DecSteps
<1>10. DecodedTo(text, dec', out, 0, 0)
  BY <1>2, <1>9 DEF DecodedTo, DecOffset, OutOffset, BitsOf
<1>11. 0 \in 0 .. n /\ 0 \in Nat
  OBVIOUS
<1>12. DecInv'
  BY <1>1, <1>2, <1>6, <1>7, <1>8, <1>10, <1>11 DEF DecInv
<1>13. B64Types'
  BY <1>1, <1>2, <1>3, <1>5 DEF B64Types
<1>14. DecTypes'
  BY <1>1, <1>2, <1>9 DEF DecTypes
<1> QED BY <1>1, <1>3, <1>e, <1>12, <1>13, <1>14 DEF B64Inv

\* A character is skipped or decoded.
LEMMA DecodeKeeps == ASSUME B64Inv, decode_block PROVE B64Inv'
<1> DEFINE f == decode_value(code[rd + 1])
           r == DecodeStep(dec, f)
<1>1. /\ phase = "decode" /\ rd < Len(code) /\ rd' = rd + 1
      /\ text' = text /\ pos' = pos /\ enc' = enc /\ code' = code /\ foreign' = foreign
      /\ phase' = phase /\ size' = size
      /\ IF f = 64 THEN dec' = dec /\ out' = out
         ELSE out' = out \o r.done /\ dec' = [step |-> r.step, plainchar |-> r.next]
  BY DEF decode_block
<1>2. B64Types /\ DecTypes /\ DecInv /\ size = BufferFor(Len(code))
  BY <1>1 DEF B64Inv
<1>3. PICK n \in Nat : /\ CodeSize(text, n)
                       /\ \E at : /\ Alphabet(text, code, at, n)
                                  /\ \E m \in 0 .. n, q \in Nat : /\ ReadTo(at, n, m, rd)
                                                                  /\ DecodedTo(text, dec, out, m, q)
  BY <1>2 DEF DecInv
<1>4. PICK at : /\ Alphabet(text, code, at, n)
                /\ \E m \in 0 .. n, q \in Nat : /\ ReadTo(at, n, m, rd)
                                                /\ DecodedTo(text, dec, out, m, q)
  BY <1>3
<1>5. PICK m \in 0 .. n, q \in Nat : ReadTo(at, n, m, rd) /\ DecodedTo(text, dec, out, m, q)
  BY <1>4
<1>6. /\ text \in Seq(Octet) /\ code \in Seq(Nat) /\ Len(code) \in Nat /\ rd \in Nat /\ out \in Seq(Octet)
      /\ rd + 1 \in 1 .. Len(code) /\ rd + 1 \in 0 .. Len(code) /\ m \in Nat /\ m <= n
  BY <1>1, <1>2 DEF B64Types, DecTypes
<1>c. PICK v \in Nat : v = code[rd + 1]
  BY <1>6
<1>7. \/ v >= 64 /\ ReadTo(at, n, m, rd + 1)
      \/ m < n /\ v < 64 /\ CodeChar(text, m + 1, v) /\ ReadTo(at, n, m + 1, rd + 1)
  BY ONLY <1>1, <1>4, <1>5, <1>6, <1>c, ReadNext
<1>8. B64Types'
  BY <1>1, <1>2 DEF B64Types
<1>9. CASE v >= 64 /\ ReadTo(at, n, m, rd + 1)
  <2>1. f = 64
    BY <1>9, <1>c DEF decode_value
  <2>2. dec' = dec /\ out' = out
    BY <1>1, <2>1
  <2>3. DecInv'
    BY <1>1, <1>3, <1>4, <1>5, <1>9, <2>2 DEF DecInv
  <2>4. DecTypes'
    BY <1>1, <1>2, <1>6, <2>2 DEF DecTypes
  <2> QED BY <1>1, <1>2, <1>8, <2>3, <2>4 DEF B64Inv
<1>10. CASE m < n /\ v < 64 /\ CodeChar(text, m + 1, v) /\ ReadTo(at, n, m + 1, rd + 1)
  <2>1. f = v /\ f # 64
    BY <1>10, <1>c DEF decode_value
  <2>2. out' = out \o DecodeStep(dec, v).done
        /\ dec' = [step |-> DecodeStep(dec, v).step, plainchar |-> DecodeStep(dec, v).next]
    BY <1>1, <2>1
  <2>3. out' \in Seq(Octet) /\ \E k \in Nat : DecodedTo(text, dec', out', m + 1, k)
    BY ONLY <1>5, <1>6, <1>10, <2>2, CharDecoded
  <2>4. PICK k \in Nat : DecodedTo(text, dec', out', m + 1, k)
    BY <2>3
  <2>5. m + 1 \in 0 .. n
    BY <1>6, <1>10
  <2>6. DecInv'
    BY <1>1, <1>3, <1>4, <1>10, <2>4, <2>5 DEF DecInv
  <2>7. dec' \in [step : DecSteps, plainchar : 0 .. 255]
    BY <2>4 DEF DecodedTo
  <2>8. DecTypes'
    BY <1>1, <1>6, <2>3, <2>7 DEF DecTypes
  <2> QED BY <1>1, <1>2, <1>8, <2>6, <2>8 DEF B64Inv
<1> QED BY <1>7, <1>9, <1>10

\* When the code is read to its end, the text is complete.
LEMMA AllDecoded ==
  ASSUME NEW t, Len(t) \in Nat, NEW n \in Nat, CodeSize(t, n), NEW q \in Nat, NEW step \in DecSteps,
         n = 4 * q + DecOffset(step), NEW w, w = 3 * q + OutOffset(step)
  PROVE  w = Len(t)
<1>1. PICK k \in Nat, l \in Nat : /\ l = Len(t)
                                 /\ \/ l = 3 * k /\ n = 4 * k
                                    \/ l = 3 * k + 1 /\ n = 4 * k + 2
                                    \/ l = 3 * k + 2 /\ n = 4 * k + 3
  BY DEF CodeSize
<1>2. CASE step = "a"
  BY <1>1, <1>2 DEF DecOffset, OutOffset
<1>3. CASE step = "b"
  BY <1>1, <1>3 DEF DecOffset, OutOffset
<1>4. CASE step = "c"
  BY <1>1, <1>4 DEF DecOffset, OutOffset
<1>5. CASE step = "d"
  BY <1>1, <1>5 DEF DecOffset, OutOffset
<1> QED BY <1>2, <1>3, <1>4, <1>5 DEF DecSteps

LEMMA DoneKeeps == ASSUME B64Inv, DecodeEnd PROVE B64Inv'
<1>1. /\ phase = "decode" /\ rd = Len(code) /\ phase' = "done"
      /\ text' = text /\ pos' = pos /\ enc' = enc /\ code' = code /\ foreign' = foreign
      /\ rd' = rd /\ dec' = dec /\ out' = out /\ size' = size
  BY DEF DecodeEnd
<1>2. B64Types /\ DecTypes /\ DecInv
  BY <1>1 DEF B64Inv
<1>3. PICK n \in Nat : /\ CodeSize(text, n)
                       /\ \E at : /\ Alphabet(text, code, at, n)
                                  /\ \E m \in 0 .. n, q \in Nat : /\ ReadTo(at, n, m, rd)
                                                                  /\ DecodedTo(text, dec, out, m, q)
  BY <1>2 DEF DecInv
<1>4. PICK at : /\ Alphabet(text, code, at, n)
                /\ \E m \in 0 .. n, q \in Nat : /\ ReadTo(at, n, m, rd)
                                                /\ DecodedTo(text, dec, out, m, q)
  BY <1>3
<1>5. PICK m \in 0 .. n, q \in Nat : ReadTo(at, n, m, rd) /\ DecodedTo(text, dec, out, m, q)
  BY <1>4
<1>6. text \in Seq(Octet) /\ code \in Seq(Nat) /\ Len(code) \in Nat /\ out \in Seq(Octet)
  BY <1>2 DEF B64Types, DecTypes
<1>7. m = n
  <2> SUFFICES ASSUME m # n PROVE FALSE
    OBVIOUS
  <2>1. m + 1 \in (m + 1) .. n /\ m + 1 \in 1 .. n
    OBVIOUS
  <2>2. at[m + 1] > Len(code)
    BY <1>1, <1>5, <2>1 DEF ReadTo
  <2>3. at[m + 1] \in 1 .. Len(code)
    BY <1>4, <2>1 DEF Alphabet
  <2> QED BY <1>6, <2>2, <2>3
<1>8. /\ dec.step \in DecSteps /\ n = 4 * q + DecOffset(dec.step) /\ Len(out) = 3 * q + OutOffset(dec.step)
      /\ \A i \in 1 .. Len(out) : out[i] = ByteOf(text, i)
  BY <1>5, <1>7 DEF DecodedTo
<1>9. Len(out) \in Nat /\ Len(text) \in Nat
  BY <1>6
<1>10. n \in Nat /\ q \in Nat
  OBVIOUS
<1>11. Len(out) = Len(text)
  BY ONLY <1>3, <1>8, <1>9, <1>10, AllDecoded
<1>12. \A i \in 1 .. Len(out) : out[i] = text[i]
  BY <1>8, <1>11 DEF ByteOf
<1>13. out = text
  BY ONLY <1>6, <1>11, <1>12
<1>14. B64Types'
  BY <1>1, <1>2 DEF B64Types
<1>15. DecTypes'
  BY <1>1, <1>2 DEF DecTypes
<1> QED BY <1>1, <1>13, <1>14, <1>15 DEF B64Inv

LEMMA B64InvStutters == ASSUME B64Inv, UNCHANGED b64Vars PROVE B64Inv'
<1>1. /\ text' = text /\ pos' = pos /\ enc' = enc /\ code' = code /\ foreign' = foreign
      /\ phase' = phase /\ rd' = rd /\ dec' = dec /\ out' = out /\ size' = size
  BY DEF b64Vars
<1> QED BY <1>1 DEF B64Inv, B64Types, DecTypes, EncInv, SendInv, DecInv

\* Coder and decoder keep the code of the text and what has been read of it.
THEOREM CodeInvariant == B64Spec => []B64Inv
<1>1. B64Inv /\ [B64Next]_b64Vars => B64Inv'
  BY EncodeKeeps, EndKeeps, InsertKeeps, OmitKeeps, StartKeeps, DecodeKeeps, DoneKeeps, B64InvStutters DEF B64Next
<1> QED BY B64InvStarts, <1>1, PTL DEF B64Spec

\* What was completed is in the buffer that was made for the code.
LEMMA BufferHolds ==
  ASSUME NEW l \in Nat, NEW q \in Nat, NEW step \in DecSteps, NEW w, w = 3 * q + OutOffset(step),
         4 * q + DecOffset(step) <= l
  PROVE  w < BufferFor(l) \/ (w = BufferFor(l) /\ step = "a")
<1>1. PICK g \in Nat : g = (l + 3) \div 4 /\ 4 * g >= l
  OBVIOUS
<1>2. BufferFor(l) = g * 3
  BY <1>1 DEF BufferFor
<1>3. CASE step = "a"
  BY <1>1, <1>2, <1>3 DEF DecOffset, OutOffset
<1>4. CASE step # "a"
  <2>1. DecOffset(step) >= 1 /\ DecOffset(step) \in Nat /\ OutOffset(step) <= 2 /\ OutOffset(step) \in Nat
    BY <1>4 DEF DecOffset, OutOffset
  <2>2. 4 * q + 1 <= 4 * g
    BY <1>1, <2>1
  <2>3. q < g
    BY <2>2
  <2> QED BY <1>2, <2>1, <2>3
<1> QED BY <1>3, <1>4

LEMMA B64InvEnough == B64Inv => CodeKeepsValue
<1> SUFFICES ASSUME B64Inv PROVE CodeKeepsValue
  OBVIOUS
<1>1. B64Types /\ DecTypes
  BY DEF B64Inv
<1>2. code \in Seq(Nat) /\ Len(code) \in Nat /\ out \in Seq(Octet) /\ CharsPerLine \in Nat
  BY <1>1, Base64Assumption DEF B64Types, DecTypes
<1>3. B64TypeOK
  <2>1. \A i \in 1 .. Len(out) : out[i] \in 0 .. 255
    <3>1. \A i \in 1 .. Len(out) : out[i] \in Octet
      BY <1>2
    <3> QED BY <3>1 DEF Octet
  <2>2. enc.stepcount \in 0 .. (CharsPerLine \div 4)
    <3>1. enc.stepcount \in Nat /\ enc.stepcount < CharsPerLine \div 4
      BY <1>1 DEF B64Types
    <3> QED BY <1>2, <3>1
  <2>3. /\ pos \in 0 .. Len(text) /\ enc.step \in {"A", "B", "C"} /\ enc.result \in 0 .. 63
        /\ dec.step \in {"a", "b", "c", "d"} /\ dec.plainchar \in 0 .. 255
    BY <1>1 DEF B64Types, DecTypes, DecSteps
  <2> QED BY <2>1, <2>2, <2>3 DEF B64TypeOK
<1>4. RoundTrip
  BY DEF B64Inv, RoundTrip
<1>5. InBuffer
  <2> SUFFICES ASSUME phase = "decode"
               PROVE  Len(out) < size \/ (Len(out) = size /\ dec.step = "a")
    BY DEF InBuffer
  <2>1. size = BufferFor(Len(code)) /\ DecInv
    BY DEF B64Inv
  <2>2. PICK n \in Nat : \E at : /\ Alphabet(text, code, at, n)
                                 /\ \E m \in 0 .. n, q \in Nat : DecodedTo(text, dec, out, m, q)
    BY <2>1 DEF DecInv
  <2>3. HasCode(text, code, n)
    BY <2>2 DEF HasCode
  <2>4. n <= Len(code)
    BY <1>2, <2>3, CodeLength
  <2>5. PICK m \in 0 .. n, q \in Nat : DecodedTo(text, dec, out, m, q)
    BY <2>2
  <2>6. /\ dec.step \in DecSteps /\ m = 4 * q + DecOffset(dec.step)
        /\ Len(out) = 3 * q + OutOffset(dec.step)
    BY <2>5 DEF DecodedTo
  <2>7. 4 * q + DecOffset(dec.step) <= Len(code)
    BY <1>2, <2>4, <2>6
  <2>8. q \in Nat
    OBVIOUS
  <2> QED BY ONLY <1>2, <2>1, <2>6, <2>7, <2>8, BufferHolds
<1>6. LineLength
  <2> SUFFICES ASSUME phase = "send", foreign = 0, NEW i \in 1 .. Len(code)
               PROVE  \E j \in i .. (i + CharsPerLine) : code[j] = NewLine
    BY DEF LineLength
  <2>1. Lined(code, Len(code))
    BY DEF B64Inv, SendInv
  <2> QED BY <2>1 DEF Lined
<1> QED BY <1>3, <1>4, <1>5, <1>6 DEF CodeKeepsValue

\* Every text, with every number of foreign characters in its code and with line
\* ends and padding or without, is decoded as it was encoded, in a buffer that is never left and from lines of at most
\* CHARS_PER_LINE characters (cencode.c, cdecode.c, helpers::decodeBase64).
THEOREM ValueSurvives == B64Spec => []CodeKeepsValue
BY CodeInvariant, B64InvEnough, PTL
=============================================================================
