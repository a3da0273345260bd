------------------------------ MODULE SbaDemo ------------------------------
(***************************************************************************)
(* The SBA demonstration (client.cpp, grpc.classes.cpp and the averaging   *)
(* thread of server.cpp).  The client's main starts a round of threads     *)
(* that ask the load balancer for a server, call it, and add the time they *)
(* took to the global sum, without the mutex that is commented out.  It    *)
(* joins them and prints the average.  The server counts the requests and  *)
(* their times under its mutex, and another thread averages and resets     *)
(* them.  The owner of the service is taken to have set its Prometheus     *)
(* counters, which the constructor leaves NULL.                            *)
(***************************************************************************)
EXTENDS Naturals, FiniteSets

CONSTANTS Clients,     \* the threads of a round, and the handlers of their calls
          Times,       \* times a call can take, in ticks of the client's clock
          ServerTimes, \* milliseconds the server measures for a request
          MaxRounds    \* rounds of the client (its loop runs 52)

\* The client measures with a fraction of a millisecond: no call takes none.
ASSUME SbaAssumption ==
  /\ IsFiniteSet(Clients) /\ Times \subseteq Nat \ {0} /\ ServerTimes \subseteq Nat
  /\ MaxRounds \in Nat
  /\ "free" \notin Clients /\ "averager" \notin Clients

VARIABLES
  round,     \* time
  phase,     \* what main is at: "idle", "join", "broken" when a thread could
             \* not be created, or "dead"
  started,   \* the threads of this round
  place,     \* where each thread of runClient, or the server for it, is
  took,      \* elapsedTimeMs of each thread
  reg,       \* the sum a thread has read
  sum,       \* the global sum
  printed,   \* what main printed last: sum and threads
  cur,       \* server: currReponseTime and currTotalRequests
  total,     \* server: totalReponseTime and totalRequests
  lock,      \* server: who holds the mutex
  seen,      \* server: the current counters as a thread has read them
  averaging, \* server: whether calculateAverageReponseTime is under way
  averaged   \* the requests and times that averages have been made of

sbaClient == <<round, phase, started, took, reg, sum, printed>>
sbaServer == <<cur, total, lock, seen, averaging, averaged>>
sbaVars == <<sbaClient, place, sbaServer>>

NoCount == [time |-> 0, n |-> 0]
Plus(a, b) == [time |-> a.time + b.time, n |-> a.n + b.n]

----------------------------------------------------------------------------
(* The client                                                             *)

\* main: the threads of a round; their number is drawn from a distribution.
\* When one cannot be created the exception is caught and main goes on to
\* join all of them.
StartRound ==
  /\ round < MaxRounds
  /\ phase = "idle"
  /\ \E S \in SUBSET Clients :
       /\ started' = S
       /\ place' = [c \in Clients |-> IF c \in S THEN "ask" ELSE "idle"]
  /\ phase' \in {"join", "broken"}
  /\ sum' = 0
  /\ took' = [c \in Clients |-> 0]
  /\ UNCHANGED <<round, reg, printed, sbaServer>>

\* LoadBalancerClient::Servers: an address, or "-1" when the call fails, and
\* then the thread returns without a time.
Servers(c) ==
  /\ place[c] = "ask"
  /\ \E answer \in {"call", "done"} : place' = [place EXCEPT ![c] = answer]
  /\ UNCHANGED <<sbaClient, sbaServer>>

\* Mutant of lock_lock: the critical section has no mutex.
NoLock(who) == lock' = who

\* lock.lock() of Handle and of calculateAverageReponseTime.
lock_lock(who) == lock = "free" /\ lock' = who

\* SBAServiceImpl::Handle takes the mutex and reads the counters.
HandleLock(c) ==
  /\ place[c] = "call"
  /\ lock_lock(c)
  /\ seen' = [seen EXCEPT ![c] = cur]
  /\ place' = [place EXCEPT ![c] = "count"]
  /\ UNCHANGED <<sbaClient, cur, total, averaging, averaged>>

\* It adds the request with the whole milliseconds it took, and unlocks.
Handle(c) ==
  /\ place[c] = "count"
  /\ \E ms \in ServerTimes :
       /\ cur' = Plus(seen[c], [time |-> ms, n |-> 1])
       /\ total' = Plus(total, [time |-> ms, n |-> 1])
  /\ lock' = "free"
  /\ place' = [place EXCEPT ![c] = "reply"]
  /\ UNCHANGED <<sbaClient, seen, averaging, averaged>>

\* SBAServiceClient::Handle returns: with the reply, or because the call
\* failed before the server took it or after it had counted it.  The thread
\* measures its time in either case.
CallEnds(c) ==
  /\ place[c] \in {"call", "reply"}
  /\ \E t \in Times : took' = [took EXCEPT ![c] = t]
  /\ place' = [place EXCEPT ![c] = "read"]
  /\ UNCHANGED <<round, phase, started, reg, sum, printed, sbaServer>>

\* sum += elapsedTimeMs, a read and a write.
ReadSum(c) ==
  /\ place[c] = "read"
  /\ reg' = [reg EXCEPT ![c] = sum]
  /\ place' = [place EXCEPT ![c] = "write"]
  /\ UNCHANGED <<round, phase, started, took, sum, printed, sbaServer>>

WriteSum(c) ==
  /\ place[c] = "write"
  /\ sum' = reg[c] + took[c]
  /\ place' = [place EXCEPT ![c] = "done"]
  /\ UNCHANGED <<round, phase, started, took, reg, printed, sbaServer>>

Joined == \A c \in started : place[c] = "done"

\* main: join, print the average.
EndRound ==
  /\ phase = "join"
  /\ Joined
  /\ printed' = [sum |-> sum, threads |-> started]
  /\ round' = round + 1
  /\ phase' = "idle"
  /\ started' = {}
  /\ UNCHANGED <<place, took, reg, sum, sbaServer>>

\* join() of the first thread that was not created throws, and nobody
\* catches it: the client ends without the average of this round.
JoinThrows ==
  /\ phase = "broken"
  /\ Joined
  /\ phase' = "dead"
  /\ UNCHANGED <<round, started, place, took, reg, sum, printed, sbaServer>>

----------------------------------------------------------------------------
(* The server                                                             *)

\* calculateAverageReponseTime, called every second by a thread of its own,
\* takes the mutex and reads the counters.
AverageLock ==
  /\ ~ averaging
  /\ lock_lock("averager")
  /\ seen' = [seen EXCEPT !["averager"] = cur]
  /\ averaging' = TRUE
  /\ UNCHANGED <<sbaClient, place, cur, total, averaged>>

\* It makes the average of the requests since the last one, the counters
\* begin again, and it unlocks.
calculateAverageReponseTime ==
  /\ averaging
  /\ averaged' = Plus(averaged, seen["averager"])
  /\ cur' = NoCount
  /\ lock' = "free"
  /\ averaging' = FALSE
  /\ UNCHANGED <<sbaClient, place, total, seen>>

----------------------------------------------------------------------------
SbaInit ==
  /\ round = 0 /\ phase = "idle" /\ started = {}
  /\ place = [c \in Clients |-> "idle"]
  /\ took = [c \in Clients |-> 0]
  /\ reg = [c \in Clients |-> 0]
  /\ sum = 0
  /\ printed = [sum |-> 0, threads |-> {}]
  /\ cur = NoCount /\ total = NoCount /\ averaged = NoCount
  /\ lock = "free" /\ averaging = FALSE
  /\ seen = [who \in Clients \cup {"averager"} |-> NoCount]

ClientThread(c) ==
  \/ Servers(c) \/ HandleLock(c) \/ Handle(c) \/ CallEnds(c)
  \/ ReadSum(c) \/ WriteSum(c)

SbaNext ==
  \/ StartRound \/ EndRound \/ JoinThrows
  \/ AverageLock \/ calculateAverageReponseTime
  \/ \E c \in Clients : ClientThread(c)

SbaSpec == SbaInit /\ [][SbaNext]_sbaVars

----------------------------------------------------------------------------
(* Properties                                                              *)

ClientPlaces == {"idle", "ask", "call", "count", "reply", "read", "write", "done"}

\* Every variable has its type, and a thread is only busy in a round that has
\* started it.
SbaTypeOK ==
  /\ round \in 0..MaxRounds
  /\ phase \in {"idle", "join", "broken", "dead"}
  /\ started \subseteq Clients
  /\ \A c \in Clients : /\ place[c] \in ClientPlaces
                        /\ c \notin started => place[c] \in {"idle", "done"}

\* The ticks that the threads of S took, each with the thread it belongs to.
TicksOf(S) == UNION {{c} \X (1..took[c]) : c \in S}

TimeOf(S) == Cardinality(TicksOf(S))

Added == {c \in started : place[c] = "done"}

\* The threads of a round add to the sum without a lock, so additions are
\* lost; what is left is still the time of some of the threads that have added
\* theirs, of each once, and never of none when one has.
SumOfSome ==
  started # {} =>
    \E S \in SUBSET Added : TimeOf(S) = sum /\ (TimeOf(Added) > 0 => TimeOf(S) > 0)

\* Every request is in exactly one average or still to be averaged, with its
\* time, although handlers add while the averaging thread takes and resets.
EveryRequestAveraged == total = Plus(averaged, cur)

\* Nothing is counted twice: the client's sum may be short of some times, the
\* server's averages are of every request it has counted.
CountsOnce == SbaTypeOK /\ SumOfSome /\ EveryRequestAveraged

----------------------------------------------------------------------------
(* The inductive invariant behind CountsOnce                               *)

SbaCount == [time : Nat, n : Nat]

SbaTypes ==
  /\ place \in [Clients -> ClientPlaces]
  /\ took \in [Clients -> Nat] /\ reg \in [Clients -> Nat] /\ sum \in Nat
  /\ cur \in SbaCount /\ total \in SbaCount /\ averaged \in SbaCount
  /\ lock \in Clients \cup {"free", "averager"} /\ averaging \in BOOLEAN
  /\ seen \in [Clients \cup {"averager"} -> SbaCount]

\* The handler or the averaging thread between lock and unlock is the one
\* that holds the mutex, and what it has read is still true.
LockHeld ==
  /\ \A c \in Clients : place[c] = "count" <=> lock = c
  /\ averaging <=> lock = "averager"
  /\ lock # "free" => seen[lock] = cur

\* The time of some of the threads that have added theirs.
SomeTime(n) == \E S \in SUBSET Added : TimeOf(S) = n

\* A thread that is about to write has read such a sum, perhaps an old one,
\* and has a time of its own to add, so no write leaves a sum of nothing; one
\* whose call has not ended has no time.
SbaInv ==
  /\ SbaTypeOK /\ SbaTypes /\ EveryRequestAveraged /\ LockHeld
  /\ phase \in {"join", "broken"} => round < MaxRounds
  /\ phase = "idle" => started = {}
  /\ \A c \in Clients : /\ place[c] \in {"read", "write"} => took[c] \in Times
                        /\ place[c] \in {"ask", "call", "count", "reply"} => took[c] = 0
  /\ started # {} =>
       /\ SomeTime(sum)
       /\ \A c \in Clients : place[c] = "write" => SomeTime(reg[c])
       /\ \A c \in Added : took[c] > 0 => sum > 0
============================================================================
