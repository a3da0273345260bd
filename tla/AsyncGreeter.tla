---------------------------- MODULE AsyncGreeter ----------------------------
(***************************************************************************)
(* The asynchronous greeter (greeter_async_server.cc and the two clients   *)
(* greeter_async_client.cc, which makes one call, and                      *)
(* greeter_async_client2.cc, which makes many and reads the answers in a   *)
(* thread of its own).  The server keeps a CallData for each call; its     *)
(* address is the tag that the completion queue gives back, and is used    *)
(* again after the object is deleted.  HandleRpcs may run in several       *)
(* threads, as its comment allows.                                         *)
(*                                                                         *)
(* The gRPC runtime is external: it pairs a call with a CallData that has  *)
(* been requested, hands the events out in any order, and reports a Finish *)
(* for a call that is gone with ok = FALSE.                                *)
(***************************************************************************)
EXTENDS Naturals, FiniteSets

CONSTANTS Calls,     \* the calls of the client
          Slots,     \* the addresses a CallData can have
          Threads,   \* the threads in HandleRpcs
          Faults,    \* whether calls may break
          NoCall     \* the call of a CallData that has none yet

ASSUME GreeterAssumption ==
  /\ Faults \in BOOLEAN /\ NoCall \notin Calls
  /\ Slots \subseteq Nat \ {0} /\ IsFiniteSet(Slots) /\ IsFiniteSet(Threads)

VARIABLES
  call,     \* client: state of each AsyncClientCall
  wire,     \* runtime: calls that have not reached the server's code
  broken,   \* runtime: calls the connection of which is gone
  status,   \* server: status_ of the CallData at an address, "free"
  serves,   \* server: the call in the CallData, NoCall
  waiting,  \* runtime: addresses given to RequestSayHello
  cq,       \* server: completion queue, events [tag, ok]
  at,       \* server: where a thread is and the tag it works on
  answered, \* runtime: calls whose answer has been sent
  aborted   \* server: a GPR_ASSERT has failed

server == <<status, serves, waiting, cq, at, aborted>>
greeterVars == <<call, wire, broken, status, serves, waiting, cq, at, answered, aborted>>

NoSlot == 0
Event(s, ok) == [tag |-> s, ok |-> ok]

----------------------------------------------------------------------------
(* The client                                                              *)

\* SayHello: a new AsyncClientCall, the RPC started, Finish with its tag.
SayHello(c) ==
  /\ call[c] = "none"
  /\ call' = [call EXCEPT ![c] = "started"]
  /\ wire' = wire \cup {c}
  /\ UNCHANGED <<broken, answered, server>>

\* The client's runtime completes the call: the answer is there, or the
\* call has failed.  Its event has ok = TRUE in both cases.
CompleteCall(c) ==
  /\ call[c] = "started"
  /\ c \in answered \cup broken
  /\ call' = [call EXCEPT ![c] = "queued"]
  /\ UNCHANGED <<wire, broken, answered, server>>

\* AsyncCompleteRpc: the answer or "RPC failed" is printed, the call deleted.
AsyncCompleteRpc(c) ==
  /\ call[c] = "queued"
  /\ call' = [call EXCEPT ![c] = IF c \in broken THEN "failed" ELSE "printed"]
  /\ UNCHANGED <<wire, broken, answered, server>>

----------------------------------------------------------------------------
(* The runtime                                                             *)

\* A call meets a CallData that was requested for one.
Arrive(c, s) ==
  /\ c \in wire /\ s \in waiting /\ ~aborted
  /\ wire' = wire \ {c}
  /\ waiting' = waiting \ {s}
  /\ serves' = [serves EXCEPT ![s] = c]
  /\ cq' = cq \cup {Event(s, TRUE)}
  /\ UNCHANGED <<call, broken, status, at, answered, aborted>>

\* The connection of a call breaks, or its server is gone.
Break(c) ==
  /\ call[c] = "started" /\ c \notin broken /\ c \notin answered
  /\ Faults
  /\ broken' = broken \cup {c}
  /\ wire' = wire \ {c}
  /\ UNCHANGED <<call, answered, server>>

----------------------------------------------------------------------------
(* The server                                                              *)

\* CallData's constructor and Proceed in CREATE: the object at a free address
\* asks the runtime for a call.
NewCallData(s) ==
  /\ status[s] = "free"
  /\ status' = [status EXCEPT ![s] = "PROCESS"]
  /\ waiting' = waiting \cup {s}

MoveTo(t, pc, s) == at' = [at EXCEPT ![t] = [pc |-> pc, tag |-> s]]

\* HandleRpcs before its loop.
Start(t) ==
  /\ at[t].pc = "start"
  /\ \E s \in Slots : NewCallData(s)
  /\ MoveTo(t, "next", NoSlot)
  /\ UNCHANGED <<call, wire, broken, serves, cq, answered, aborted>>

\* cq_->Next, the assertions, and the branch of Proceed that the status
\* selects.
NextEvent(t) ==
  /\ at[t].pc = "next" /\ ~aborted
  /\ \E ev \in cq :
       /\ cq' = cq \ {ev}
       /\ \/ /\ ev.ok
             /\ MoveTo(t, IF status[ev.tag] = "PROCESS" THEN "spawn" ELSE "delete",
                     ev.tag)
             /\ UNCHANGED aborted
          \/ ~ev.ok /\ aborted' = TRUE /\ UNCHANGED at
  /\ UNCHANGED <<call, wire, broken, status, serves, waiting, answered>>

\* Proceed in PROCESS: first a CallData for the next call.
Spawn(t) ==
  /\ at[t].pc = "spawn" /\ ~aborted
  /\ \E s \in Slots : NewCallData(s)
  /\ MoveTo(t, "finish", at[t].tag)
  /\ UNCHANGED <<call, wire, broken, serves, cq, answered, aborted>>

\* Mutant of SetFinish: Finish is called first, and the status set after it.
FinishThenSet(t) ==
  /\ at[t].pc = "finish" /\ ~aborted
  /\ LET c == serves[at[t].tag]
     IN /\ cq' = cq \cup {Event(at[t].tag, c \notin broken)}
        /\ answered' = IF c \in broken THEN answered ELSE answered \cup {c}
  /\ MoveTo(t, "late", at[t].tag)
  /\ UNCHANGED <<call, wire, broken, status, serves, waiting, aborted>>

\* The status is FINISH before Finish is called, because the event may come
\* to another thread at once.
SetFinish(t) ==
  /\ at[t].pc = "finish" /\ ~aborted
  /\ status' = [status EXCEPT ![at[t].tag] = "FINISH"]
  /\ MoveTo(t, "send", at[t].tag)
  /\ UNCHANGED <<call, wire, broken, serves, waiting, cq, answered, aborted>>

\* responder_.Finish: the answer goes out, unless the call is gone.
Finish(t) ==
  /\ at[t].pc = "send" /\ ~aborted
  /\ LET c == serves[at[t].tag]
     IN /\ cq' = cq \cup {Event(at[t].tag, c \notin broken)}
        /\ answered' = IF c \in broken THEN answered ELSE answered \cup {c}
  /\ MoveTo(t, "next", NoSlot)
  /\ UNCHANGED <<call, wire, broken, status, serves, waiting, aborted>>

\* Proceed in FINISH: the object deletes itself.
Delete(t) ==
  /\ at[t].pc = "delete" /\ ~aborted
  /\ status' = [status EXCEPT ![at[t].tag] = "free"]
  /\ serves' = [serves EXCEPT ![at[t].tag] = NoCall]
  /\ MoveTo(t, "next", NoSlot)
  /\ UNCHANGED <<call, wire, broken, waiting, cq, answered, aborted>>

----------------------------------------------------------------------------
GreeterInit ==
  /\ call = [c \in Calls |-> "none"]
  /\ wire = {} /\ broken = {}
  /\ status = [s \in Slots |-> "free"]
  /\ serves = [s \in Slots |-> NoCall]
  /\ waiting = {} /\ cq = {}
  /\ at = [t \in Threads |-> [pc |-> "start", tag |-> NoSlot]]
  /\ answered = {}
  /\ aborted = FALSE

ServerStep(t) == Start(t) \/ NextEvent(t) \/ Spawn(t) \/ SetFinish(t)
                 \/ Finish(t) \/ Delete(t)

GreeterNext ==
  \/ \E c \in Calls : \/ SayHello(c) \/ CompleteCall(c) \/ AsyncCompleteRpc(c)
                      \/ Break(c) \/ \E s \in Slots : Arrive(c, s)
  \/ \E t \in Threads : ServerStep(t)

GreeterSpec == GreeterInit /\ [][GreeterNext]_greeterVars

----------------------------------------------------------------------------
(* Properties                                                              *)

\* Every variable has its type.
GreeterTypeOK ==
  /\ call \in [Calls -> {"none", "started", "queued", "printed", "failed"}]
  /\ status \in [Slots -> {"free", "PROCESS", "FINISH"}]
  /\ \A ev \in cq : ev.tag \in Slots
  /\ \A t \in Threads : at[t].pc \in {"start", "next", "spawn", "finish", "send",
                                      "delete"}

\* A tag in the queue is the address of a CallData that lives, and no other
\* event or thread has it: with several threads in HandleRpcs no thread works
\* on an object that another one serves or deletes.
TagsAlive ==
  /\ \A ev \in cq : status[ev.tag] # "free"
  /\ \A t \in Threads : at[t].tag # NoSlot =>
       /\ status[at[t].tag] # "free"
       /\ \A u \in Threads \ {t} : at[u].tag # at[t].tag
       /\ \A ev \in cq : ev.tag # at[t].tag

\* The CallData that wait for a call or have just got one.
Ready ==
  waiting \cup {s \in Slots : status[s] = "PROCESS" /\ \E ev \in cq : ev.tag = s}
          \cup {at[t].tag : t \in {u \in Threads : at[u].pc = "spawn"}}

InLoop == {t \in Threads : at[t].pc # "start"}

\* The server always takes another call: there is one such CallData for every
\* thread in the loop.
AlwaysWaiting == Cardinality(Ready) = Cardinality(InLoop)

\* Every object in FINISH is on its way to be deleted.
NoLeak ==
  \A s \in Slots : status[s] = "FINISH" =>
    \/ aborted
    \/ \E ev \in cq : ev.tag = s
    \/ \E t \in Threads : at[t].tag = s

\* The objects of the server are used as the comment on HandleRpcs says they
\* can be, by several threads at once.
ObjectsOwned == GreeterTypeOK /\ TagsAlive /\ AlwaysWaiting /\ NoLeak
============================================================================
