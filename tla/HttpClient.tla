----------------------------- MODULE HttpClient -----------------------------
(***************************************************************************)
(* ppconsul's HTTP client (ppconsul/src/curl/http_client.cpp): one libcurl *)
(* easy handle serves every request of a Consul object, and libcurl keeps  *)
(* an option until it is set again.  get, put and del each set the options *)
(* they need, one curl_easy_setopt after the other, and then perform the   *)
(* transfer, whose callbacks write through the pointers stored in the      *)
(* options.  Any setopt and the transfer itself may throw, which leaves    *)
(* the handle as it was at that moment for the next request.               *)
(*                                                                         *)
(* A pointer is <<what it points at, number of the call that owns it>>;    *)
(* the objects of a call die when the call returns or throws.              *)
(***************************************************************************)
EXTENDS Naturals, Sequences

CONSTANTS Urls,        \* request URLs, already put together by makeUrl
          DataSizes,   \* sizes of the data of a put
          BufferSize,  \* what libcurl offers readCallback at a time
          MaxCalls,    \* bound on the number of requests
          TlsConfigs   \* the TlsConfig records the client is built with

ASSUME SizesAssumption ==
  DataSizes \subseteq Nat /\ BufferSize \in Nat \ {0} /\ MaxCalls \in Nat

VARIABLES
  opts,    \* the options of the handle
  tls,     \* the TlsConfig given to the constructor
  cur,     \* the current call: its number, operation, URL and data size
  todo,    \* the curl_easy_setopt calls it still has to make
  pc,      \* "idle", "setopt", "transfer", "body"; "thrown" is idle again
           \* after an exception
  wire,    \* the request libcurl sent
  ctx,     \* ReadContext::second, how much of the data was handed over
  srv,     \* what the server answers: code, index and body
  response \* the response of the call

httpVars == <<opts, tls, cur, todo, pc, wire, ctx, srv, response>>

None == "none"
NULL == <<None, 0>>
Operations == {"get", "put", "del"}
Codes == {200, 404}
Indexes == 1..2
Bodies == 0..2                   \* number of chunks the body arrives in

----------------------------------------------------------------------------
(* libcurl, as the client uses it                                          *)

\* The options a fresh handle has.
FreshHandle ==
  [HEADERFUNCTION |-> None, CUSTOMREQUEST |-> None, URL |-> None,
   WRITEDATA |-> NULL, HEADERDATA |-> NULL, READDATA |-> NULL,
   INFILESIZE |-> 0, SSLCERT |-> None, SSLCERTTYPE |-> None,
   SSLKEY |-> None, SSLKEYTYPE |-> None, CAPATH |-> None, CAINFO |-> None,
   KEYPASSWD |-> None, SSL_VERIFYPEER |-> 1, SSL_VERIFYHOST |-> 2,
   SSL_VERIFYSTATUS |-> 0, method |-> "GET"]

\* curl_easy_setopt: HTTPGET, UPLOAD and PUT choose the method, every other
\* option keeps the value it is given.
SetOpt(o, name, value) ==
  CASE name = "HTTPGET" -> [o EXCEPT !.method = "GET"]
    [] name \in {"UPLOAD", "PUT"} -> [o EXCEPT !.method = "PUT"]
    [] OTHER -> [o EXCEPT ![name] = value]

\* The request curl_easy_perform sends for the options it finds.
CurlRequest(o) ==
  [verb |-> IF o.CUSTOMREQUEST # None THEN o.CUSTOMREQUEST ELSE o.method,
   url |-> o.URL,
   size |-> IF o.method = "PUT" THEN o.INFILESIZE ELSE 0]

----------------------------------------------------------------------------
(* The scripts of options                                                  *)

\* HttpClient::HttpClient with a TlsConfig: an empty setting leaves its option
\* alone.  The type of the certificate goes to CAPATH, where the directory of the
\* authorities, set last, replaces it; the type of the key goes nowhere.
constructor(c) ==
  [FreshHandle EXCEPT
     !.SSLCERT = c.cert, !.SSLKEY = c.key,
     !.CAPATH = IF c.caPath = None THEN c.certType ELSE c.caPath,
     !.CAINFO = c.caInfo, !.KEYPASSWD = c.keyPass,
     !.SSL_VERIFYPEER = IF c.verifyPeer THEN 1 ELSE 0,
     !.SSL_VERIFYHOST = IF c.verifyHost THEN 2 ELSE 0,
     !.SSL_VERIFYSTATUS = IF c.verifyStatus THEN 1 ELSE 0]

\* Mutant of get: the verb of an earlier del is not cleared.
GetKeepsVerb(n, url) ==
  << <<"HEADERFUNCTION", "headerCallback">>,
     <<"URL", url>>,
     <<"WRITEDATA", <<"body", n>>>>,
     <<"HEADERDATA", <<"GetResponse", n>>>>,
     <<"HTTPGET", 1>> >>

\* HttpClient::get.
get(n, url) ==
  << <<"HEADERFUNCTION", "headerCallback">>,
     <<"CUSTOMREQUEST", None>>,
     <<"URL", url>>,
     <<"WRITEDATA", <<"body", n>>>>,
     <<"HEADERDATA", <<"GetResponse", n>>>>,
     <<"HTTPGET", 1>> >>

\* HttpClient::put.
put(n, url, size) ==
  << <<"HEADERFUNCTION", "headerStatusCallback">>,
     <<"CUSTOMREQUEST", None>>,
     <<"URL", url>>,
     <<"WRITEDATA", <<"body", n>>>>,
     <<"HEADERDATA", <<"Status", n>>>>,
     <<"UPLOAD", 1>>,
     <<"PUT", 1>>,
     <<"INFILESIZE", size>>,
     <<"READDATA", <<"ReadContext", n>>>> >>

\* HttpClient::del.
del(n, url) ==
  << <<"HEADERFUNCTION", "headerStatusCallback">>,
     <<"URL", url>>,
     <<"WRITEDATA", <<"body", n>>>>,
     <<"HEADERDATA", <<"Status", n>>>>,
     <<"HTTPGET", 1>>,
     <<"CUSTOMREQUEST", "DELETE">> >>

Script(c) == CASE c.op = "get" -> get(c.n, c.url)
               [] c.op = "put" -> put(c.n, c.url, c.size)
               [] c.op = "del" -> del(c.n, c.url)

----------------------------------------------------------------------------
NoCall == [n |-> 0, op |-> None, url |-> None, size |-> 0]
NoRequest == [verb |-> None, url |-> None, size |-> 0]
NoAnswer == [code |-> 0, index |-> 0, body |-> 0]

\* The constructed client; a constructor that throws leaves no client.
HttpInit ==
  /\ tls \in TlsConfigs
  /\ opts = constructor(tls)
  /\ cur = NoCall
  /\ todo = <<>>
  /\ pc = "idle"
  /\ wire = NoRequest
  /\ ctx = 0
  /\ srv = NoAnswer
  /\ response = NoAnswer

\* Consul::get, put or del enters the client: its response and, for a put,
\* its ReadContext are fresh.
Begin ==
  /\ pc \in {"idle", "thrown"}
  /\ cur.n < MaxCalls
  /\ \E op \in Operations, url \in Urls, size \in DataSizes :
       LET c == [n |-> cur.n + 1, op |-> op, url |-> url,
                 size |-> IF op = "put" THEN size ELSE 0]
       IN /\ cur' = c
          /\ todo' = Script(c)
  /\ pc' = "setopt"
  /\ ctx' = 0
  /\ response' = NoAnswer
  /\ UNCHANGED <<opts, tls, wire, srv>>

\* HttpClient::setopt succeeds.
setopt ==
  /\ pc = "setopt"
  /\ todo # <<>>
  /\ opts' = SetOpt(opts, Head(todo)[1], Head(todo)[2])
  /\ todo' = Tail(todo)
  /\ UNCHANGED <<tls, cur, pc, wire, ctx, srv, response>>

\* throwCurlError in setopt: the exception leaves the call half way.
SetoptThrows ==
  /\ pc = "setopt"
  /\ todo # <<>>
  /\ pc' = "thrown"
  /\ todo' = <<>>
  /\ UNCHANGED <<opts, tls, cur, wire, ctx, srv, response>>

\* HttpClient::perform starts the transfer; the server decides its answer.
perform ==
  /\ pc = "setopt"
  /\ todo = <<>>
  /\ wire' = CurlRequest(opts)
  /\ srv' \in [code : Codes, index : Indexes, body : Bodies]
  /\ pc' = "transfer"
  /\ UNCHANGED <<opts, tls, cur, todo, ctx, response>>

\* The transfer breaks and perform throws.
PerformThrows ==
  /\ pc \in {"transfer", "body"}
  /\ pc' = "thrown"
  /\ UNCHANGED <<opts, tls, cur, todo, wire, ctx, srv, response>>

----------------------------------------------------------------------------
(* The callbacks.  A pointer of an earlier call makes them touch an object *)
(* that is gone, so they only act on the current call's.                   *)

Owned(p) == p[2] = cur.n

\* readCallback: min(buffer, remaining) bytes, until nothing remains.
readCallback ==
  /\ pc = "transfer"
  /\ wire.size > ctx
  /\ Owned(opts.READDATA)
  /\ ctx' = ctx + (IF wire.size - ctx < BufferSize THEN wire.size - ctx
                                                    ELSE BufferSize)
  /\ UNCHANGED <<opts, tls, cur, todo, pc, wire, srv, response>>

\* parseStatus: a status line of HTTP/1.1 replaces the status.
parseStatus(r, code) == [r EXCEPT !.code = code]

\* headerCallback keeps the status and X-Consul-Index, headerStatusCallback
\* only the status.
headerCallback(r, code, index) ==
  IF opts.HEADERFUNCTION = "headerCallback"
  THEN [parseStatus(r, code) EXCEPT !.index = index]
  ELSE parseStatus(r, code)

\* The server acknowledges the head of an upload before its body has come.
Continue ==
  /\ pc = "transfer"
  /\ wire.verb = "PUT"
  /\ response.code = 0
  /\ Owned(opts.HEADERDATA)
  /\ response' = parseStatus(response, 100)
  /\ UNCHANGED <<opts, tls, cur, todo, pc, wire, ctx, srv>>

\* The final head of the answer, once the whole request has been sent.
Headers ==
  /\ pc = "transfer"
  /\ ctx = wire.size
  /\ Owned(opts.HEADERDATA)
  /\ response' = headerCallback(response, srv.code, srv.index)
  /\ pc' = "body"
  /\ UNCHANGED <<opts, tls, cur, todo, wire, ctx, srv>>

\* writeCallback appends one chunk.
writeCallback ==
  /\ pc = "body"
  /\ response.body < srv.body
  /\ Owned(opts.WRITEDATA)
  /\ response' = [response EXCEPT !.body = @ + 1]
  /\ UNCHANGED <<opts, tls, cur, todo, pc, wire, ctx, srv>>

\* The transfer is over and the call returns its response.
HttpReturn ==
  /\ pc = "body"
  /\ response.body = srv.body
  /\ pc' = "idle"
  /\ UNCHANGED <<opts, tls, cur, todo, wire, ctx, srv, response>>

HttpNext == \/ Begin \/ setopt \/ SetoptThrows \/ perform \/ PerformThrows
            \/ readCallback \/ Continue \/ Headers \/ writeCallback \/ HttpReturn

HttpSpec == HttpInit /\ [][HttpNext]_httpVars

----------------------------------------------------------------------------
(* Properties                                                              *)

VerbOf == [get |-> "GET", put |-> "PUT", del |-> "DELETE"]

\* Every variable has its type.
HttpTypeOK ==
  /\ pc \in {"idle", "thrown", "setopt", "transfer", "body"}
  /\ cur.n \in 0..MaxCalls
  /\ cur.op \in Operations \cup {None}
  /\ ctx \in 0..cur.size
  /\ response \in [code : {0, 100} \cup Codes,
                 index : {0} \cup Indexes, body : Bodies]

\* Whatever options earlier calls left on the handle, also calls that threw
\* half way through, the request sent is the one the current call asked for:
\* its verb, its URL and, for a put, its data and for the others none.
RequestIsCall ==
  pc \in {"transfer", "body"} =>
     wire = [verb |-> VerbOf[cur.op], url |-> cur.url, size |-> cur.size]

\* While a transfer runs, every pointer a callback writes or reads through
\* belongs to the current call, and headerCallback, which casts its argument
\* to a GetResponse, is never given the Status of a put or a del.
BuffersLive ==
  pc \in {"transfer", "body"} =>
     /\ opts.WRITEDATA = <<"body", cur.n>>
     /\ opts.HEADERDATA =
          <<IF opts.HEADERFUNCTION = "headerCallback" THEN "GetResponse"
                                                      ELSE "Status", cur.n>>
     /\ wire.size > 0 => opts.READDATA = <<"ReadContext", cur.n>>

\* A call that returns hands back the server's final answer: the status after
\* any 100 Continue, the whole body, and for a get the index Consul sent; a
\* put has uploaded all of its data by then.
ResultIsAnswer ==
  (pc = "idle" /\ cur.n > 0) =>
     /\ response.code = srv.code
     /\ response.body = srv.body
     /\ cur.op = "get" => response.index = srv.index
     /\ ctx = cur.size

\* The calls of one Consul object are independent, although they share the
\* handle: whatever an earlier one left on it, returned or thrown, a call sends
\* its own request, touches its own buffers and returns its own answer.
CallsIndependent ==
  HttpTypeOK /\ RequestIsCall /\ BuffersLive /\ ResultIsAnswer

----------------------------------------------------------------------------
(* Configurations of the client                                            *)

PlainTls ==
  [cert |-> None, certType |-> None, key |-> None, keyType |-> None,
   caPath |-> None, caInfo |-> None, keyPass |-> None, verifyPeer |-> TRUE,
   verifyHost |-> TRUE, verifyStatus |-> FALSE]

PlainOnly == {PlainTls}
============================================================================
