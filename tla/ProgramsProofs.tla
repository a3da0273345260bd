-------------------------- MODULE ProgramsProofs ----------------------------
(***************************************************************************)
(* Proofs about four programs that share no state: the identifiers of the  *)
(* AMF, the threads of the RAN simulator, the asynchronous greeter and the *)
(* client and server of the SBA demonstration.                             *)
(***************************************************************************)
EXTENDS RanSched, UeIds, AsyncGreeter, SbaDemo, FiniteSetTheorems, TLAPS

-----------------------------------------------------------------------------
(***************************************************************************)
(* Identifiers lead to their UEs, also behind the wrap of their type.      *)
(***************************************************************************)
\* Two attaches fewer than Modulus apart have different identifiers.
LEMMA Multiple ==
  ASSUME NEW M \in Nat, M > 0, NEW k \in Int, k >= 1
  PROVE  M * k >= M
OBVIOUS

LEMMA Remainder ==
  ASSUME NEW M \in Nat, M > 0, NEW a \in Nat
  PROVE  a = M * (a \div M) + (a % M) /\ a \div M \in Int /\ a % M \in 0 .. (M - 1)
OBVIOUS

LEMMA ApartNumbers ==
  ASSUME NEW M \in Nat, M > 0, NEW a \in Nat, NEW b \in Nat, a < b, b - a < M
  PROVE  a % M # b % M
<1>1. PICK p, q : p = a \div M /\ q = b \div M
  OBVIOUS
<1>2. PICK r, s : r = a % M /\ s = b % M
  OBVIOUS
<1>3. p \in Int /\ q \in Int /\ r \in Int /\ s \in Int /\ a = M * p + r /\ b = M * q + s
  BY <1>1, <1>2, Remainder
<1>4. M * (q - p) = M * q - M * p
  BY ONLY <1>3, M \in Nat
<1>5. ASSUME r = s PROVE FALSE
  <2>1. PICK k \in Int : k = q - p
    BY <1>3
  <2>2. PICK x \in Int : x = M * k
    BY ONLY <2>1, M \in Nat
  <2>3. x = b - a
    BY <1>3, <1>4, <1>5, <2>1, <2>2
  <2>4. k >= 1 \/ k <= 0
    BY ONLY <2>1
  <2>5. k >= 1 => x >= M
    BY ONLY <2>1, <2>2, M \in Nat, M > 0, Multiple
  <2>6. k <= 0 => x <= 0
    BY ONLY <2>1, <2>2, M \in Nat, M > 0
  <2> QED BY <2>3, <2>4, <2>5, <2>6
<1> QED BY <1>2, <1>5

LEMMA IdsApart ==
  ASSUME NEW m \in Nat, NEW n \in Nat, m # n, m - n < Modulus, n - m < Modulus
  PROVE  mme_s1ap_ue_id(m) # mme_s1ap_ue_id(n)
<1>0. Modulus \in Nat /\ Modulus > 0
  BY UeIdsAssumption
<1>1. CASE m < n
  <2>1. m % Modulus # n % Modulus
    BY ONLY <1>0, <1>1, m \in Nat, n \in Nat, n - m < Modulus, ApartNumbers
  <2> QED BY <2>1 DEF mme_s1ap_ue_id
<1>2. CASE n < m
  <2>1. n % Modulus # m % Modulus
    BY ONLY <1>0, <1>2, m \in Nat, n \in Nat, m - n < Modulus, ApartNumbers
  <2> QED BY <2>1 DEF mme_s1ap_ue_id
<1> QED BY <1>1, <1>2

\* An identifier is one of the table's, and no mark of a detached UE.
LEMMA IdsTyped ==
  ASSUME NEW n \in Nat
  PROVE  mme_s1ap_ue_id(n) \in UeId /\ mme_s1ap_ue_id(n) # Detached
<1>1. n % Modulus \in 0 .. (Modulus - 1)
  BY Remainder, UeIdsAssumption
<1> QED BY <1>1, UeIdsAssumption DEF mme_s1ap_ue_id, UeId, Detached

\* However often the identifiers wrap (amf.cpp:507-509), two UEs or handlers that
\* share one are Modulus attaches apart: UeIdsInv is an inductive invariant.
THEOREM UeIdsInvariant == IdsSpec => []UeIdsInv
<1>1. IdsInit => UeIdsInv
  <2> SUFFICES ASSUME IdsInit PROVE UeIdsInv
    OBVIOUS
  <2>1. ue_count \in 0..MaxCount /\ given \in [Ues -> 0..ue_count] /\ leaving \subseteq 1..ue_count
    BY UeIdsAssumption DEF IdsInit
  <2>2. s1amf_id \in [UeId -> Ues \cup {0}] /\ mine \in [Ues -> UeId \cup {Detached}]
    BY DEF IdsInit
  <2>3. late \in BOOLEAN /\ \A u \in Ues : mine[u] = Detached
    BY DEF IdsInit
  <2> QED BY <2>1, <2>2, <2>3 DEF UeIdsInv, Recent
<1>2. UeIdsInv /\ [IdsNext]_idsVars => UeIdsInv'
  <2> SUFFICES ASSUME UeIdsInv, [IdsNext]_idsVars PROVE UeIdsInv'
    OBVIOUS
  <2>0. Modulus \in Nat /\ Modulus > 0 /\ MaxCount \in Nat /\ ue_count \in Nat
    BY UeIdsAssumption DEF UeIdsInv
  <2>1. ASSUME NEW u \in Ues, handle_initial_attach(u) PROVE UeIdsInv'
    <3>1. PICK n \in Nat : n = ue_count + 1
      BY <2>0
    <3>2. PICK id \in UeId : id = mme_s1ap_ue_id(n) /\ id # Detached
      BY IdsTyped
    <3>3. /\ ue_count' = n /\ leaving' = leaving /\ late' = late /\ n <= MaxCount
          /\ s1amf_id' = [s1amf_id EXCEPT ![id] = u]
          /\ mine' = [mine EXCEPT ![u] = id] /\ given' = [given EXCEPT ![u] = n]
      BY <2>0, <2>1, <3>1, <3>2 DEF handle_initial_attach
    <3>4. /\ ue_count' \in 0..MaxCount /\ late' \in BOOLEAN
          /\ s1amf_id' \in [UeId -> Ues \cup {0}]
          /\ mine' \in [Ues -> UeId \cup {Detached}]
          /\ given' \in [Ues -> 0..ue_count'] /\ leaving' \subseteq 1..ue_count'
      BY <2>0, <3>1, <3>3 DEF UeIdsInv
    <3>5. \A v \in Ues : mine'[v] # Detached =>
            given'[v] > 0 /\ given'[v] \notin leaving' /\ mine'[v] = mme_s1ap_ue_id(given'[v])
      BY <2>0, <3>1, <3>2, <3>3 DEF UeIdsInv
    <3>6. \A v, w \in Ues :
            v # w /\ mine'[v] # Detached /\ mine'[w] # Detached => given'[v] # given'[w]
      BY <2>0, <3>1, <3>2, <3>3 DEF UeIdsInv
    <3>7. ASSUME ~ late', NEW v \in Ues, Recent(v)' PROVE s1amf_id'[mine'[v]] = v
      <4>1. CASE v = u
        BY <3>2, <3>3, <4>1 DEF UeIdsInv
      <4>2. CASE v # u
        <5>1. /\ mine'[v] = mine[v] /\ mine[v] # Detached /\ given[v] \in 0 .. ue_count
              /\ n - given[v] < Modulus /\ mine[v] = mme_s1ap_ue_id(given[v])
          BY <3>3, <3>7, <4>2 DEF UeIdsInv, Recent
        <5>2. mine[v] # id
          <6>1. given[v] \in Nat /\ given[v] # n /\ given[v] - n < Modulus
            BY <2>0, <3>1, <5>1
          <6> QED BY <3>2, <5>1, <6>1, IdsApart
        <5>3. Recent(v)
          BY <2>0, <3>1, <5>1 DEF Recent
        <5>4. s1amf_id[mine[v]] = v
          BY <3>3, <3>7, <5>3 DEF UeIdsInv
        <5> QED BY <3>3, <5>1, <5>2, <5>4 DEF UeIdsInv
      <4> QED BY <4>1, <4>2
    <3> QED BY <3>4, <3>5, <3>6, <3>7 DEF UeIdsInv
  <2>2. ASSUME NEW u \in Ues, handle_detach(u) PROVE UeIdsInv'
    <3>1. /\ ue_count' = ue_count /\ late' = late /\ s1amf_id' = s1amf_id /\ given' = given
          /\ leaving' = leaving \cup {given[u]} /\ mine' = [mine EXCEPT ![u] = Detached]
          /\ mine[u] # Detached
      BY <2>2 DEF handle_detach
    <3>2. given[u] \in 1..ue_count
      BY <2>0, <3>1 DEF UeIdsInv
    <3>3. \A v \in Ues : mine'[v] # Detached =>
            v # u /\ mine'[v] = mine[v] /\ given[v] # given[u]
      BY <3>1 DEF UeIdsInv
    <3> QED BY <3>1, <3>2, <3>3 DEF UeIdsInv, Recent
  <2>3. ASSUME NEW u \in Ues, Restart(u) PROVE UeIdsInv'
    BY <2>3 DEF UeIdsInv, Restart, Recent
  <2>4. ASSUME NEW n \in leaving, rem_itfid(n) PROVE UeIdsInv'
    <3>1. n \in Nat /\ n \in 1..ue_count
      BY <2>0 DEF UeIdsInv
    <3>2. PICK id \in UeId : id = mme_s1ap_ue_id(n)
      BY <3>1, IdsTyped
    <3>3. /\ ue_count' = ue_count /\ mine' = mine /\ given' = given
          /\ leaving' = leaving \ {n} /\ late' = (late \/ ue_count - n >= Modulus)
          /\ s1amf_id' = [s1amf_id EXCEPT ![id] = 0]
      BY <2>4, <3>2 DEF rem_itfid
    <3>4. /\ late' \in BOOLEAN /\ s1amf_id' \in [UeId -> Ues \cup {0}]
          /\ leaving' \subseteq 1..ue_count
      BY <3>3 DEF UeIdsInv
    <3>5. ASSUME ~ late', NEW v \in Ues, Recent(v)' PROVE s1amf_id'[mine'[v]] = v
      <4>1. /\ ~ late /\ ue_count - n < Modulus /\ Recent(v) /\ given[v] \in 0 .. ue_count
            /\ given[v] # n /\ mine[v] = mme_s1ap_ue_id(given[v])
            /\ ue_count - given[v] < Modulus
        <5>1. ~ late /\ ~ (ue_count - n >= Modulus)
          BY <3>3, <3>5
        <5>2. ue_count - n < Modulus
          BY <2>0, <3>1, <5>1
        <5>3. mine[v] # Detached /\ ue_count - given[v] < Modulus
          BY <3>3, <3>5 DEF Recent
        <5> QED BY <5>1, <5>2, <5>3 DEF UeIdsInv, Recent
      <4>2. given[v] \in Nat /\ given[v] - n < Modulus /\ n - given[v] < Modulus
        BY <2>0, <3>1, <4>1
      <4>3. mine[v] # id
        BY <3>1, <3>2, <4>1, <4>2, IdsApart
      <4>4. s1amf_id[mine[v]] = v /\ mine[v] \in UeId
        BY <4>1, <4>2, IdsTyped DEF UeIdsInv
      <4> QED BY <3>3, <4>3, <4>4 DEF UeIdsInv
    <3> QED BY <3>3, <3>4, <3>5 DEF UeIdsInv
  <2>5. CASE UNCHANGED idsVars
    BY <2>5 DEF UeIdsInv, idsVars, Recent
  <2> QED  BY <2>1, <2>2, <2>3, <2>4, <2>5 DEF IdsNext
<1> QED  BY <1>1, <1>2, PTL DEF IdsSpec

\* Also behind the wrap, until Modulus further UEs have attached the identifier of an
\* attached UE leads to that UE (amf.h:119), unless an identifier was removed that late.
THEOREM IdLeadsHomeAlways == IdsSpec => []IdLeadsHome
<1>1. UeIdsInv => IdLeadsHome
  <2> SUFFICES ASSUME UeIdsInv PROVE IdLeadsHome
    OBVIOUS
  <2>1. ASSUME NEW u \in Ues, mine[u] = 0 PROVE given[u] >= Modulus
    <3>1. given[u] \in Nat /\ given[u] > 0 /\ given[u] % Modulus = 0 /\ Modulus \in Nat /\ Modulus > 0
      BY <2>1, UeIdsAssumption DEF UeIdsInv, Detached, mme_s1ap_ue_id
    <3>2. given[u] < Modulus => given[u] % Modulus = given[u]
      BY ONLY <3>1
    <3> QED BY <3>1, <3>2
  <2> QED BY <2>1 DEF UeIdsInv, IdLeadsHome
<1> QED  BY <1>1, UeIdsInvariant, PTL

-----------------------------------------------------------------------------
(***************************************************************************)
(* For every number of threads: the counter of registrations, read and     *)
(* written under the mutex, implements one that counts at once; the one    *)
(* without it loses increments but never all; and what print_results()     *)
(* prints is final.                                                        *)
(***************************************************************************)

\* run() has joined every thread before its loop variable.
JoinedInOrder ==
    /\ main = "join" => \A t \in Thread : t < i => pc[t] \in Ended
    /\ main = "done" => \A t \in Thread : pc[t] \in Ended

SchedInv == SchedTypeOK /\ MutexHeld /\ JoinedInOrder

\* Threads are numbered from 0; NoOne is none of them.
LEMMA ThreadFacts ==
    /\ \A t \in Thread : t \in Nat /\ t < g_threads_count
    /\ \A t \in Nat : t < g_threads_count => t \in Thread
    /\ NoOne \notin Thread
BY RanSchedAssumption DEF Thread, NoOne

LEMMA InitCounts == SchedInit => SchedInv
BY RanSchedAssumption, ThreadFacts DEF SchedInit, SchedInv, SchedTypeOK, MutexHeld, JoinedInOrder

\* The steps of run(): it starts and joins threads.
LEMMA MainKeeps ==
    ASSUME SchedInv, Create \/ Join
    PROVE  SchedInv'
<1> USE RanSchedAssumption, ThreadFacts DEF SchedInv, SchedTypeOK, MutexHeld, JoinedInOrder, counters, Goto
<1>1. CASE Create
    <2>1. CASE i < g_threads_count
        <3>1. i \in Thread /\ pc[i] = "none"
            BY <1>1, <2>1 DEF Create
        <3>2. QED
            BY <1>1, <2>1, <3>1 DEF Create, Ended
    <2>2. CASE ~(i < g_threads_count)
        BY <1>1, <2>2 DEF Create
    <2>3. QED
        BY <2>1, <2>2
<1>2. CASE Join
    <2>1. CASE i < g_threads_count
        <3>1. i \in Thread /\ pc[i] \in Ended
            BY <1>2, <2>1 DEF Join
        <3>2. i' = i + 1 /\ main' = "join" /\ UNCHANGED <<now, g_start_time, pc, counters>>
            BY <1>2, <2>1 DEF Join
        <3>3. SchedTypeOK'
            BY <2>1, <3>2
        <3>4. MutexHeld'
            BY <3>2
        <3>5. \A t \in Thread : t < i + 1 => pc[t] \in Ended
            BY <1>2, <3>1 DEF Join
        <3>6. QED
            BY <3>2, <3>3, <3>4, <3>5
    <2>2. CASE ~(i < g_threads_count)
        BY <1>2, <2>2 DEF Join
    <2>3. QED
        BY <2>1, <2>2
<1>3. QED
    BY <1>1, <1>2

\* The steps of a thread that do not touch the mutex or the total.
LEMMA OutsideKeeps ==
    ASSUME SchedInv, NEW t \in Thread,
           connect(t) \/ is_scheduled(t) \/ time_check(t) \/ Register(t) \/ ReadStopped(t)
               \/ WriteStopped(t)
    PROVE  SchedInv'
<1> USE RanSchedAssumption, ThreadFacts
    DEF SchedInv, SchedTypeOK, MutexHeld, JoinedInOrder, counters, runVars, Goto, Ended
<1>1. CASE connect(t)
    BY <1>1 DEF connect
<1>2. CASE is_scheduled(t)
    BY <1>2 DEF is_scheduled
<1>3. CASE time_check(t)
    BY <1>3 DEF time_check
<1>4. CASE Register(t)
    BY <1>4 DEF Register
<1>5. CASE ReadStopped(t)
    BY <1>5 DEF ReadStopped
<1>6. CASE WriteStopped(t)
    BY <1>6 DEF WriteStopped
<1>7. QED
    BY <1>1, <1>2, <1>3, <1>4, <1>5, <1>6

\* The critical section: only its holder can be in it.
LEMMA InsideKeeps ==
    ASSUME SchedInv, NEW t \in Thread, mlock(t) \/ UpdateMetrics(t) \/ munlock(t)
    PROVE  SchedInv'
<1> USE RanSchedAssumption, ThreadFacts
    DEF SchedInv, SchedTypeOK, MutexHeld, JoinedInOrder, counters, runVars, Goto, Ended
<1>1. CASE mlock(t)
    BY <1>1 DEF mlock
<1>2. CASE UpdateMetrics(t)
    BY <1>2 DEF UpdateMetrics
<1>3. CASE munlock(t)
    BY <1>3 DEF munlock
<1>4. QED
    BY <1>1, <1>2, <1>3

\* The invariant is inductive.
LEMMA StepKeeps ==
    ASSUME SchedInv, [SchedNext]_schedVars
    PROVE  SchedInv'
<1>1. CASE Tick
    BY <1>1 DEF Tick, SchedInv, SchedTypeOK, MutexHeld, JoinedInOrder, counters, runVars
<1>2. CASE UNCHANGED schedVars
    BY <1>2 DEF schedVars, SchedInv, SchedTypeOK, MutexHeld, JoinedInOrder
<1>3. QED
    BY <1>1, <1>2, MainKeeps, OutsideKeeps, InsideKeeps DEF SchedNext, SimThread

\* The holder of the mutex is the thread between mlock() and munlock(), and the
\* total it read there is still the total.
THEOREM MutexHeldAlways == SchedSpec => []MutexHeld
<1>1. SchedInv => MutexHeld
    BY DEF SchedInv
<1>2. QED
    BY <1>1, InitCounts, StepKeeps, PTL DEF SchedSpec

\* A thread between the read and the write of stopped_threads has read no more
\* than the number of threads that have written.
ReadBound == \A t \in Thread : pc[t] = "writing" => tmp[t] <= Cardinality(Stopped)

StoppedInv == StoppedBound /\ ReadBound

LEMMA InitStopped == SchedInit => StoppedInv
<1> SUFFICES ASSUME SchedInit PROVE StoppedInv
    OBVIOUS
<1>1. Stopped = {}
    BY DEF SchedInit, Stopped
<1>2. QED
    BY <1>1, FS_EmptySet DEF SchedInit, StoppedInv, StoppedBound, ReadBound

\* There are finitely many threads, so one more is one more.
LEMMA StoppedFinite == IsFiniteSet(Stopped) /\ Cardinality(Stopped) \in Nat
<1>1. IsFiniteSet(Thread)
    <2>1. PICK n \in Int : Thread = 0 .. n
        BY RanSchedAssumption DEF Thread
    <2>2. IsFiniteSet(0 .. n)
        BY ONLY n \in Int, 0 \in Int, FS_Interval
    <2> QED BY ONLY <2>1, <2>2
<1>2. QED
    BY <1>1, FS_Subset, FS_CardinalityType DEF Stopped

\* A lost update: two threads read the same number and both write its
\* successor.  What is written is still at most the number of those that wrote.
LEMMA StoppedKeeps ==
    ASSUME SchedInv, StoppedInv, [SchedNext]_schedVars
    PROVE  StoppedInv'
<1> USE RanSchedAssumption, ThreadFacts DEF SchedInv, SchedTypeOK
<1>1. CASE \E t \in Thread : WriteStopped(t)
    <2>1. PICK t \in Thread : WriteStopped(t)
        BY <1>1
    <2>2. Stopped' = Stopped \cup {t} /\ t \notin Stopped
        BY <2>1 DEF WriteStopped, Goto, Stopped
    <2>3. Cardinality(Stopped') = Cardinality(Stopped) + 1
        BY <2>2, StoppedFinite, FS_AddElement
    <2>4. tmp[t] <= Cardinality(Stopped) /\ stopped_threads' = tmp[t] + 1
        BY <2>1 DEF WriteStopped, StoppedInv, ReadBound
    <2>5. StoppedBound'
        BY <2>3, <2>4, StoppedFinite DEF StoppedBound
    <2>6. ReadBound'
        <3>1. ASSUME NEW u \in Thread, pc'[u] = "writing"
              PROVE  tmp'[u] = tmp[u] /\ tmp[u] <= Cardinality(Stopped)
            BY <2>1, <3>1 DEF WriteStopped, Goto, StoppedInv, ReadBound
        <3>2. QED
            BY <2>3, <3>1, StoppedFinite DEF ReadBound
    <2>7. QED
        BY <2>5, <2>6 DEF StoppedInv
<1>2. CASE \E t \in Thread : ReadStopped(t)
    <2>1. PICK t \in Thread : ReadStopped(t)
        BY <1>2
    <2>2. Stopped' = Stopped
        BY <2>1 DEF ReadStopped, Goto, Stopped
    <2>3. stopped_threads' = stopped_threads /\ tmp' = [tmp EXCEPT ![t] = stopped_threads]
          /\ pc' = [pc EXCEPT ![t] = "writing"]
        BY <2>1 DEF ReadStopped, Goto
    <2>4. QED
        BY <2>2, <2>3, StoppedFinite DEF StoppedInv, StoppedBound, ReadBound
<1>3. ASSUME ~ \E t \in Thread : WriteStopped(t) \/ ReadStopped(t)
      PROVE  /\ Stopped' = Stopped /\ stopped_threads' = stopped_threads
             /\ \A u \in Thread : pc'[u] = "writing" => pc[u] = "writing" /\ tmp'[u] = tmp[u]
    <2>1. CASE Tick \/ Join \/ UNCHANGED schedVars
        BY <2>1 DEF Tick, Join, counters, schedVars, Stopped
    <2>2. CASE Create
        <3>1. CASE i < g_threads_count
            <4>1. i \in Thread /\ pc[i] = "none"
                BY <2>2, <3>1 DEF Create, MutexHeld
            <4>2. QED
                BY <2>2, <3>1, <4>1 DEF Create, counters, Goto, Stopped
        <3>2. CASE ~(i < g_threads_count)
            BY <2>2, <3>2 DEF Create, counters, Stopped
        <3>3. QED
            BY <3>1, <3>2
    <2>3. ASSUME NEW t \in Thread, connect(t) \/ is_scheduled(t) \/ time_check(t) \/ Register(t)
          PROVE  /\ Stopped' = Stopped /\ stopped_threads' = stopped_threads
                 /\ \A u \in Thread : pc'[u] = "writing" => pc[u] = "writing" /\ tmp'[u] = tmp[u]
        BY <2>3 DEF connect, is_scheduled, time_check, Register, counters, Goto, Stopped
    <2>4. ASSUME NEW t \in Thread, mlock(t) \/ UpdateMetrics(t) \/ munlock(t)
          PROVE  /\ Stopped' = Stopped /\ stopped_threads' = stopped_threads
                 /\ \A u \in Thread : pc'[u] = "writing" => pc[u] = "writing" /\ tmp'[u] = tmp[u]
        BY <2>4 DEF mlock, UpdateMetrics, munlock, Goto, Stopped
    <2>5. QED
        BY <1>3, <2>1, <2>2, <2>3, <2>4 DEF SchedNext, SimThread
<1>4. QED
    BY <1>1, <1>2, <1>3 DEF StoppedInv, StoppedBound, ReadBound

\* print_results() runs after every thread has returned, so no thread changes
\* what it prints; and the count of stopped threads that it prints misses some
\* threads at worst, never all of them.
THEOREM ResultsAreFinal == SchedSpec => ResultsFinal
<1>1. ASSUME SchedInv, [SchedNext]_schedVars, main = "done"
      PROVE  UNCHANGED <<g_tot_regs, stopped_threads>>
    <2>1. \A t \in Thread : pc[t] \in Ended
        BY <1>1 DEF SchedInv, JoinedInOrder
    <2>2. \A t \in Thread : ~SimThread(t)
        BY <2>1 DEF Ended, SimThread, connect, is_scheduled, time_check, Register, mlock,
           UpdateMetrics, munlock, ReadStopped, WriteStopped
    <2>3. QED
        BY <1>1, <2>2 DEF SchedNext, Tick, Create, Join, counters, schedVars
<1>2. SchedInv /\ [SchedNext]_schedVars
          => [main = "done" => UNCHANGED <<g_tot_regs, stopped_threads>>]_schedVars
    BY <1>1
<1>3. QED
    <2>1. SchedInv /\ StoppedInv => SchedTypeOK /\ StoppedBound
        BY DEF SchedInv, StoppedInv
    <2>2. QED
        BY <1>2, <2>1, InitCounts, StepKeeps, InitStopped, StoppedKeeps, PTL
        DEF SchedSpec, ResultsFinal

\* Between two steps of the counter every other step is a stutter of the
\* abstract one: the value it stands for only moves in UpdateMetrics.
LEMMA CountedStep ==
    ASSUME SchedInv, [SchedNext]_schedVars
    PROVE  [Metrics!MetricsNext]_(Metrics!metricVars)
<1> USE RanSchedAssumption, ThreadFacts DEF SchedInv, SchedTypeOK, MutexHeld
<1> SUFFICES \/ g_tot_regs' = g_tot_regs /\ Counted' = Counted
             \/ \E t \in Thread : /\ g_tot_regs' = g_tot_regs + 1
                                  /\ Counted' = [Counted EXCEPT ![t] = @ + 1]
    BY DEF Metrics!MetricsNext, Metrics!Count, Metrics!metricVars
<1>1. CASE Tick \/ Join \/ UNCHANGED schedVars
    BY <1>1 DEF Tick, Join, counters, schedVars, Counted
<1>2. CASE Create
    <2>1. CASE i < g_threads_count
        <3>1. i \in Thread /\ pc[i] = "none"
            BY <1>2, <2>1 DEF Create
        <3>2. QED
            BY <1>2, <2>1, <3>1 DEF Create, counters, Goto, Counted
    <2>2. CASE ~(i < g_threads_count)
        BY <1>2, <2>2 DEF Create, counters, Counted
    <2>3. QED
        BY <2>1, <2>2
<1>3. ASSUME NEW t \in Thread, connect(t) \/ is_scheduled(t) \/ time_check(t)
                 \/ ReadStopped(t) \/ WriteStopped(t) \/ mlock(t) \/ munlock(t)
      PROVE  g_tot_regs' = g_tot_regs /\ Counted' = Counted
    BY <1>3 DEF connect, is_scheduled, time_check, ReadStopped, WriteStopped, mlock, munlock,
       counters, Goto, Counted
<1>4. ASSUME NEW t \in Thread, Register(t)
      PROVE  g_tot_regs' = g_tot_regs /\ Counted' = Counted
    BY <1>4 DEF Register, Goto, Counted
<1>5. ASSUME NEW t \in Thread, UpdateMetrics(t)
      PROVE  g_tot_regs' = g_tot_regs + 1 /\ Counted' = [Counted EXCEPT ![t] = @ + 1]
    <2>1. g_tot_regs' = g_tot_regs + 1
        BY <1>5 DEF UpdateMetrics
    <2>2. /\ pc[t] = "incr" /\ pc' = [pc EXCEPT ![t] = "unlock"] /\ regs' = regs
          /\ regs[t] \in Nat
        BY <1>5 DEF UpdateMetrics, Goto
    <2>3. Counted' = [Counted EXCEPT ![t] = @ + 1]
        <3>1. \A u \in Thread : Counted'[u] = IF u = t THEN Counted[t] + 1 ELSE Counted[u]
            BY <2>2 DEF Counted
        <3>2. QED
            BY <3>1 DEF Counted
    <2>4. QED
        BY <2>1, <2>3
<1>6. QED
    BY <1>1, <1>2, <1>3, <1>4, <1>5 DEF SchedNext, SimThread

\* The increment is a read and a later write, under a mutex that every thread
\* takes: the program implements the counter that counts at once.
THEOREM CountsAreAtomic == SchedSpec => CountsAtOnce
<1>1. SchedInit => Metrics!MetricsInit
    BY DEF SchedInit, Metrics!MetricsInit, Counted
<1>2. QED
    BY <1>1, CountedStep, InitCounts, StepKeeps, PTL DEF SchedSpec, CountsAtOnce, Metrics!MetricsSpec

-----------------------------------------------------------------------------
(***************************************************************************)
(* The asynchronous greeter: who owns a CallData.                          *)
(***************************************************************************)
Places == {"start", "next", "spawn", "finish", "send", "delete"}

GreeterTypes ==
  /\ GreeterTypeOK
  /\ at \in [Threads -> [pc : Places, tag : Slots \cup {NoSlot}]]
  /\ cq \subseteq [tag : Slots, ok : BOOLEAN]
  /\ waiting \subseteq Slots

\* The status of a CallData is what its holder expects: it waits, or its event
\* is queued, in PROCESS until the thread that serves it says FINISH, and only
\* the event of a Finish can have failed.
StatusFits ==
  /\ \A s \in waiting : status[s] = "PROCESS"
  /\ \A ev \in cq : /\ status[ev.tag] # "free"
                    /\ ~ev.ok => status[ev.tag] = "FINISH"
  /\ \A t \in Threads :
       /\ (at[t].tag = NoSlot) <=> (at[t].pc \in {"start", "next"})
       /\ at[t].pc \in {"spawn", "finish"} => status[at[t].tag] = "PROCESS"
       /\ at[t].pc \in {"send", "delete"} => status[at[t].tag] = "FINISH"

\* Nothing has two holders.
OneHolder ==
  /\ \A ev \in cq : /\ ev.tag \notin waiting
                    /\ \A fv \in cq : fv.tag = ev.tag => fv = ev
  /\ \A t \in Threads : at[t].tag # NoSlot =>
       /\ at[t].tag \notin waiting
       /\ \A u \in Threads \ {t} : at[u].tag # at[t].tag
       /\ \A ev \in cq : ev.tag # at[t].tag

GreeterInv == GreeterTypes /\ StatusFits /\ OneHolder /\ AlwaysWaiting /\ NoLeak

\* A CallData is ready in one of three ways.
LEMMA ReadyIs ==
  \A x : x \in Ready <=>
           \/ x \in waiting
           \/ x \in Slots /\ status[x] = "PROCESS" /\ \E ev \in cq : ev.tag = x
           \/ \E t \in Threads : at[t].pc = "spawn" /\ at[t].tag = x
BY DEF Ready

LEMMA ReadyFinite ==
  ASSUME GreeterTypes, StatusFits
  PROVE  /\ Ready \subseteq Slots /\ IsFiniteSet(Ready) /\ IsFiniteSet(InLoop)
         /\ Cardinality(Ready) \in Nat /\ Cardinality(InLoop) \in Nat
<1>1. Ready \subseteq Slots
  <2> SUFFICES ASSUME NEW t \in Threads, at[t].pc = "spawn" PROVE at[t].tag \in Slots
    BY ReadyIs DEF GreeterTypes
  <2>1. at[t].tag \in Slots \cup {NoSlot} /\ at[t].tag # NoSlot
    BY DEF GreeterTypes, StatusFits
  <2> QED BY <2>1
<1>2. InLoop \subseteq Threads
  BY DEF InLoop
<1> QED BY <1>1, <1>2, FS_Subset, FS_CardinalityType, GreeterAssumption

\* What a thread holds is a slot.
LEMMA HeldSlot ==
  ASSUME GreeterTypes, StatusFits, NEW t \in Threads, at[t].pc \notin {"start", "next"}
  PROVE  at[t].tag \in Slots /\ at[t].tag # NoSlot
BY GreeterAssumption DEF GreeterTypes, StatusFits, NoSlot

\* Where the threads are after one of them has moved.
LEMMA ThreadMoves ==
  ASSUME GreeterTypes, NEW t \in Threads, NEW p \in Places, NEW s \in Slots \cup {NoSlot},
         MoveTo(t, p, s)
  PROVE  /\ at' \in [Threads -> [pc : Places, tag : Slots \cup {NoSlot}]]
         /\ at'[t].pc = p /\ at'[t].tag = s
         /\ \A u \in Threads : u # t => at'[u] = at[u]
BY DEF GreeterTypes, MoveTo

LEMMA GreeterInitOwned == GreeterInit => GreeterInv
<1> SUFFICES ASSUME GreeterInit PROVE GreeterInv
  OBVIOUS
<1>1. /\ \A t \in Threads : at[t].pc = "start" /\ at[t].tag = NoSlot
      /\ \A s \in Slots : status[s] = "free"
      /\ waiting = {} /\ cq = {}
  BY DEF GreeterInit
<1>2. at \in [Threads -> [pc : Places, tag : Slots \cup {NoSlot}]]
  BY DEF GreeterInit, Places
<1>3. GreeterTypes
  BY <1>1, <1>2 DEF GreeterInit, GreeterTypes, GreeterTypeOK
<1>4. StatusFits /\ OneHolder /\ NoLeak
  BY <1>1 DEF StatusFits, OneHolder, NoLeak
<1>5. Ready = {} /\ InLoop = {}
  BY <1>1, ReadyIs DEF InLoop
<1>6. AlwaysWaiting
  BY <1>5 DEF AlwaysWaiting
<1> QED BY <1>3, <1>4, <1>6 DEF GreeterInv

\* The client and the runtime's failures leave the server alone.
LEMMA ClientKeeps ==
  ASSUME GreeterInv, NEW c \in Calls,
         SayHello(c) \/ CompleteCall(c) \/ AsyncCompleteRpc(c) \/ Break(c)
  PROVE  GreeterInv'
<1>1. UNCHANGED <<status, serves, waiting, cq, at, aborted>>
  BY DEF SayHello, CompleteCall, AsyncCompleteRpc, Break, server
<1>2. call' \in [Calls -> {"none", "started", "queued", "printed", "failed"}]
  BY DEF SayHello, CompleteCall, AsyncCompleteRpc, Break, GreeterInv, GreeterTypes, GreeterTypeOK
<1>3. GreeterTypes'
  BY <1>1, <1>2 DEF GreeterInv, GreeterTypes, GreeterTypeOK
<1>4. StatusFits' /\ OneHolder' /\ NoLeak'
  BY <1>1 DEF GreeterInv, StatusFits, OneHolder, NoLeak
<1>5. AlwaysWaiting'
  BY <1>1 DEF GreeterInv, AlwaysWaiting, Ready, InLoop
<1> QED BY <1>3, <1>4, <1>5 DEF GreeterInv

\* A CallData that waited has its event in the queue instead.
LEMMA ArriveKeeps ==
  ASSUME GreeterInv, NEW c \in Calls, NEW s \in Slots, Arrive(c, s)
  PROVE  GreeterInv'
<1>1. PICK e : e = Event(s, TRUE)
  OBVIOUS
<1>2. e \in [tag : Slots, ok : BOOLEAN] /\ e.tag = s /\ e.ok
  BY <1>1 DEF Event
<1>3. /\ s \in waiting /\ waiting' = waiting \ {s} /\ cq' = cq \cup {e}
      /\ UNCHANGED <<call, status, at, aborted>>
  BY <1>1 DEF Arrive
<1>4. status[s] = "PROCESS"
  BY <1>3 DEF GreeterInv, StatusFits
<1>5. GreeterTypes'
  BY <1>2, <1>3 DEF GreeterInv, GreeterTypes, GreeterTypeOK
<1>6. StatusFits'
  BY <1>2, <1>3, <1>4 DEF GreeterInv, StatusFits
<1>7. OneHolder'
  BY <1>2, <1>3 DEF GreeterInv, OneHolder
<1>8. NoLeak'
  BY <1>3 DEF GreeterInv, NoLeak
<1>9. AlwaysWaiting'
  <2>1. \A x : x \in Ready' <=> x \in Ready
    BY <1>2, <1>3, <1>4, ReadyIs DEF Ready
  <2>2. Ready' = Ready /\ InLoop' = InLoop
    BY <1>3, <2>1 DEF InLoop
  <2> QED BY <2>2 DEF GreeterInv, AlwaysWaiting
<1> QED BY <1>5, <1>6, <1>7, <1>8, <1>9 DEF GreeterInv

\* A new CallData is nobody's.
LEMMA FreeIsNobodys ==
  ASSUME GreeterInv, NEW s \in Slots, status[s] = "free"
  PROVE  /\ s \notin waiting /\ \A ev \in cq : ev.tag # s
         /\ \A t \in Threads : at[t].tag # s
         /\ s \notin Ready
<1>1. s \notin waiting /\ \A ev \in cq : ev.tag # s
  BY DEF GreeterInv, StatusFits
<1>2. ASSUME NEW t \in Threads, at[t].tag = s PROVE FALSE
  <2>1. at[t].pc \in Places
    BY DEF GreeterInv, GreeterTypes
  <2>2. at[t].tag # NoSlot
    BY <1>2, GreeterAssumption DEF NoSlot
  <2> QED BY <1>2, <2>1, <2>2 DEF GreeterInv, StatusFits, Places
<1> QED BY <1>1, <1>2, ReadyIs

\* HandleRpcs before its loop, and the CallData for the next call: one more is
\* ready, and one more thread is in the loop or the served one is ready no more.
LEMMA NewKeeps ==
  ASSUME GreeterInv, NEW t \in Threads, Start(t) \/ Spawn(t)
  PROVE  GreeterInv'
<1> DEFINE p == IF at[t].pc = "start" THEN "next" ELSE "finish"
<1>1. PICK s \in Slots : NewCallData(s)
  BY DEF Start, Spawn
<1>2. /\ status[s] = "free" /\ status' = [status EXCEPT ![s] = "PROCESS"]
      /\ waiting' = waiting \cup {s} /\ UNCHANGED <<call, cq, aborted>>
  BY <1>1 DEF NewCallData, Start, Spawn
<1>3. at[t].pc \in {"start", "spawn"} /\ MoveTo(t, p, at[t].tag)
  BY DEF Start, Spawn, GreeterInv, StatusFits
<1>4. at[t].tag \in Slots \cup {NoSlot} /\ p \in Places
  BY DEF GreeterInv, GreeterTypes, Places
<1>5. /\ at' \in [Threads -> [pc : Places, tag : Slots \cup {NoSlot}]]
      /\ at'[t].pc = p /\ at'[t].tag = at[t].tag
      /\ \A u \in Threads : u # t => at'[u] = at[u]
  BY <1>3, <1>4, ThreadMoves DEF GreeterInv
<1>6. /\ status' \in [Slots -> {"free", "PROCESS", "FINISH"}] /\ status'[s] = "PROCESS"
      /\ \A x \in Slots : x # s => status'[x] = status[x]
  BY <1>2 DEF GreeterInv, GreeterTypes, GreeterTypeOK
<1>7. /\ s \notin waiting /\ \A ev \in cq : ev.tag # s
      /\ \A u \in Threads : at[u].tag # s
      /\ s \notin Ready
  BY <1>2, FreeIsNobodys
<1>8. \A u \in Threads : at'[u].tag = at[u].tag
  BY <1>5
<1>9. \A ev \in cq : ev.tag \in Slots
  BY DEF GreeterInv, GreeterTypes
<1>10. GreeterTypes'
  <2>1. \A u \in Threads : at'[u].pc \in Places
    BY <1>5
  <2> QED BY <1>2, <1>5, <1>6, <2>1 DEF GreeterInv, GreeterTypes, GreeterTypeOK, Places
<1>11. StatusFits'
  <2>1. \A x \in waiting' : status'[x] = "PROCESS"
    BY <1>2, <1>6 DEF GreeterInv, GreeterTypes, StatusFits
  <2>2. \A ev \in cq' : status'[ev.tag] # "free" /\ (~ev.ok => status'[ev.tag] = "FINISH")
    BY <1>2, <1>6, <1>7, <1>9 DEF GreeterInv, StatusFits
  <2>3. ASSUME NEW u \in Threads
        PROVE  /\ (at'[u].tag = NoSlot) <=> (at'[u].pc \in {"start", "next"})
               /\ at'[u].pc \in {"spawn", "finish"} => status'[at'[u].tag] = "PROCESS"
               /\ at'[u].pc \in {"send", "delete"} => status'[at'[u].tag] = "FINISH"
    <3>1. /\ (at[u].tag = NoSlot) <=> (at[u].pc \in {"start", "next"})
          /\ at[u].pc \in {"spawn", "finish"} => status[at[u].tag] = "PROCESS"
          /\ at[u].pc \in {"send", "delete"} => status[at[u].tag] = "FINISH"
      BY DEF GreeterInv, StatusFits
    <3>2. at[u].tag # NoSlot => status'[at[u].tag] = status[at[u].tag]
      BY <1>6, <1>7 DEF GreeterInv, GreeterTypes
    <3>3. CASE u # t
      BY <1>5, <3>1, <3>2, <3>3
    <3>4. CASE u = t
      BY <1>3, <1>5, <3>1, <3>2, <3>4
    <3> QED BY <3>3, <3>4
  <2> QED BY <2>1, <2>2, <2>3 DEF StatusFits
<1>12. OneHolder'
  BY <1>2, <1>7, <1>8 DEF GreeterInv, OneHolder
<1>13. NoLeak'
  BY <1>2, <1>6, <1>8 DEF GreeterInv, NoLeak
<1>14. AlwaysWaiting'
  <2>0. /\ IsFiniteSet(Ready) /\ IsFiniteSet(InLoop)
        /\ Cardinality(Ready) \in Nat /\ Cardinality(InLoop) \in Nat
        /\ Cardinality(Ready) = Cardinality(InLoop)
    BY ReadyFinite DEF GreeterInv, AlwaysWaiting
  <2>1. CASE at[t].pc = "start"
    <3>1. \A x : x \in Ready' <=> x \in Ready \cup {s}
      BY <1>2, <1>5, <1>6, <1>7, <2>1, ReadyIs DEF Ready
    <3>2. Ready' = Ready \cup {s} /\ InLoop' = InLoop \cup {t} /\ t \notin InLoop
      BY <1>5, <2>1, <3>1 DEF InLoop
    <3>3. Cardinality(Ready') = Cardinality(Ready) + 1
      BY <1>7, <2>0, <3>2, FS_AddElement
    <3>4. Cardinality(InLoop') = Cardinality(InLoop) + 1
      BY <2>0, <3>2, FS_AddElement
    <3> QED BY <2>0, <3>3, <3>4 DEF AlwaysWaiting
  <2>2. CASE at[t].pc = "spawn"
    <3>1. PICK g : g = at[t].tag
      OBVIOUS
    <3>2. g \in Ready /\ g # s
      BY <1>7, <2>2, <3>1, ReadyIs
    <3>3. g \notin waiting /\ (\A ev \in cq : ev.tag # g) /\ \A u \in Threads : u # t => at[u].tag # g
      BY <2>2, <3>1, HeldSlot DEF GreeterInv, OneHolder
    <3>4. \A x : x \in Ready' <=> x \in (Ready \ {g}) \cup {s}
      BY <1>2, <1>5, <1>6, <1>7, <2>2, <3>1, <3>2, <3>3, ReadyIs DEF Ready
    <3>5. Ready' = (Ready \ {g}) \cup {s} /\ s \notin Ready \ {g}
      BY <1>7, <3>4
    <3>6. InLoop' = InLoop
      BY <1>5, <2>2 DEF InLoop
    <3>7. IsFiniteSet(Ready \ {g}) /\ Cardinality(Ready \ {g}) = Cardinality(Ready) - 1
      BY <2>0, <3>2, FS_RemoveElement
    <3>8. Cardinality(Ready') = Cardinality(Ready \ {g}) + 1
      BY <3>5, <3>7, FS_AddElement
    <3> QED BY <2>0, <3>6, <3>7, <3>8 DEF AlwaysWaiting
  <2> QED BY <1>3, <2>1, <2>2
<1> QED BY <1>10, <1>11, <1>12, <1>13, <1>14 DEF GreeterInv

\* cq_->Next: the thread holds what the queue held, or a Finish has failed and
\* the server is aborted.
LEMMA NextEventKeeps ==
  ASSUME GreeterInv, NEW t \in Threads, NextEvent(t)
  PROVE  GreeterInv'
<1>1. PICK ev \in cq :
        /\ cq' = cq \ {ev}
        /\ \/ /\ ev.ok
              /\ MoveTo(t, IF status[ev.tag] = "PROCESS" THEN "spawn" ELSE "delete", ev.tag)
              /\ UNCHANGED aborted
           \/ ~ev.ok /\ aborted' = TRUE /\ UNCHANGED at
  BY DEF NextEvent
<1>2. UNCHANGED <<call, status, waiting>> /\ at[t].pc = "next" /\ at[t].tag = NoSlot
  BY DEF NextEvent, GreeterInv, StatusFits
<1>3. /\ ev.tag \in Slots /\ ev.tag # NoSlot /\ status[ev.tag] # "free"
      /\ ev.tag \notin waiting /\ \A fv \in cq' : fv.tag # ev.tag
      /\ \A u \in Threads : at[u].tag # ev.tag
  BY <1>1, GreeterAssumption DEF GreeterInv, GreeterTypes, StatusFits, OneHolder, NoSlot
<1>4. \A x : (\E fv \in cq : fv.tag = x) <=> (x = ev.tag \/ \E fv \in cq' : fv.tag = x)
  BY <1>1
<1>5. CASE ~ev.ok
  <2>1. aborted' = TRUE /\ at' = at /\ status[ev.tag] = "FINISH"
    BY <1>1, <1>5 DEF GreeterInv, StatusFits
  <2>2. GreeterTypes'
    BY <1>1, <1>2, <2>1 DEF GreeterInv, GreeterTypes, GreeterTypeOK
  <2>3. StatusFits' /\ OneHolder' /\ NoLeak'
    BY <1>1, <1>2, <2>1 DEF GreeterInv, StatusFits, OneHolder, NoLeak
  <2>4. \A x : x \in Ready' <=> x \in Ready
    BY <1>2, <1>4, <2>1, ReadyIs DEF Ready
  <2>5. Ready' = Ready /\ InLoop' = InLoop
    BY <2>1, <2>4 DEF InLoop
  <2> QED BY <2>2, <2>3, <2>5 DEF GreeterInv, AlwaysWaiting
<1>6. CASE ev.ok
  <2>1. PICK p : p = (IF status[ev.tag] = "PROCESS" THEN "spawn" ELSE "delete")
    OBVIOUS
  <2>2. /\ p \in Places /\ MoveTo(t, p, ev.tag) /\ UNCHANGED aborted
        /\ p \in {"spawn", "delete"} /\ (p = "spawn" <=> status[ev.tag] = "PROCESS")
        /\ p = "delete" => status[ev.tag] = "FINISH"
    BY <1>1, <1>3, <1>6, <2>1 DEF Places, GreeterInv, GreeterTypes, GreeterTypeOK
  <2>3. /\ at' \in [Threads -> [pc : Places, tag : Slots \cup {NoSlot}]]
        /\ at'[t].pc = p /\ at'[t].tag = ev.tag
        /\ \A u \in Threads : u # t => at'[u] = at[u]
    BY <1>3, <2>2, ThreadMoves DEF GreeterInv
  <2>4. GreeterTypes'
    <3>1. \A u \in Threads : at'[u].pc \in Places
      BY <2>3
    <3> QED BY <1>1, <1>2, <2>3, <3>1 DEF GreeterInv, GreeterTypes, GreeterTypeOK, Places
  <2>5. StatusFits'
    BY <1>1, <1>2, <1>3, <2>2, <2>3 DEF GreeterInv, StatusFits
  <2>6. OneHolder'
    BY <1>1, <1>2, <1>3, <2>3 DEF GreeterInv, OneHolder
  <2>7. NoLeak'
    BY <1>2, <1>4, <2>2, <2>3, GreeterAssumption DEF GreeterInv, NoLeak, NoSlot
  <2>8. \A x : x \in Ready' <=> x \in Ready
    BY <1>2, <1>3, <1>4, <2>2, <2>3, ReadyIs DEF Ready
  <2>9. Ready' = Ready /\ InLoop' = InLoop
    BY <1>2, <2>2, <2>3, <2>8 DEF InLoop
  <2> QED BY <2>4, <2>5, <2>6, <2>7, <2>9 DEF GreeterInv, AlwaysWaiting
<1> QED BY <1>5, <1>6

\* The thread sets its own CallData to FINISH.
LEMMA SetFinishKeeps ==
  ASSUME GreeterInv, NEW t \in Threads, SetFinish(t)
  PROVE  GreeterInv'
<1>1. PICK g : g = at[t].tag
  OBVIOUS
<1>2. /\ at[t].pc = "finish" /\ status' = [status EXCEPT ![g] = "FINISH"]
      /\ MoveTo(t, "send", g) /\ UNCHANGED <<call, waiting, cq, aborted>>
  BY <1>1 DEF SetFinish
<1>3. /\ g \in Slots /\ g # NoSlot
      /\ g \notin waiting /\ (\A ev \in cq : ev.tag # g) /\ \A u \in Threads : u # t => at[u].tag # g
  BY <1>1, <1>2, HeldSlot DEF GreeterInv, OneHolder
<1>4. /\ at' \in [Threads -> [pc : Places, tag : Slots \cup {NoSlot}]]
      /\ at'[t].pc = "send" /\ at'[t].tag = g
      /\ \A u \in Threads : u # t => at'[u] = at[u]
  BY <1>2, <1>3, ThreadMoves DEF GreeterInv, Places
<1>5. /\ status' \in [Slots -> {"free", "PROCESS", "FINISH"}] /\ status'[g] = "FINISH"
      /\ \A x \in Slots : x # g => status'[x] = status[x]
  BY <1>2, <1>3 DEF GreeterInv, GreeterTypes, GreeterTypeOK
<1>6. GreeterTypes'
  <2>1. \A u \in Threads : at'[u].pc \in Places
    BY <1>4
  <2> QED BY <1>2, <1>4, <1>5, <2>1 DEF GreeterInv, GreeterTypes, GreeterTypeOK, Places
<1>7. StatusFits'
  <2>1. \A x \in waiting' : status'[x] = "PROCESS"
    BY <1>2, <1>3, <1>5 DEF GreeterInv, GreeterTypes, StatusFits
  <2>2. \A ev \in cq' : status'[ev.tag] # "free" /\ (~ev.ok => status'[ev.tag] = "FINISH")
    BY <1>2, <1>3, <1>5 DEF GreeterInv, GreeterTypes, StatusFits
  <2>3. \A u \in Threads : u # t /\ at[u].tag # NoSlot => status'[at[u].tag] = status[at[u].tag]
    BY <1>3, <1>5 DEF GreeterInv, GreeterTypes
  <2> QED BY <1>3, <1>4, <1>5, <2>1, <2>2, <2>3 DEF GreeterInv, StatusFits
<1>8. OneHolder'
  BY <1>1, <1>2, <1>3, <1>4 DEF GreeterInv, OneHolder
<1>9. NoLeak'
  <2>1. \A u \in Threads : at'[u].tag = at[u].tag
    BY <1>1, <1>4
  <2> QED BY <1>2, <1>4, <1>5, <2>1 DEF GreeterInv, NoLeak
<1>10. \A x : x \in Ready' <=> x \in Ready
  BY <1>1, <1>2, <1>3, <1>4, <1>5, ReadyIs DEF Ready
<1>11. Ready' = Ready /\ InLoop' = InLoop
  BY <1>2, <1>4, <1>10 DEF InLoop
<1> QED BY <1>6, <1>7, <1>8, <1>9, <1>11 DEF GreeterInv, AlwaysWaiting

\* responder_.Finish: the queue holds what the thread held.
LEMMA FinishKeeps ==
  ASSUME GreeterInv, NEW t \in Threads, Finish(t)
  PROVE  GreeterInv'
<1>1. PICK e : e = Event(at[t].tag, serves[at[t].tag] \notin broken)
  OBVIOUS
<1>2. at[t].pc = "send" /\ at[t].tag \in Slots /\ at[t].tag # NoSlot /\ status[at[t].tag] = "FINISH"
  BY HeldSlot DEF Finish, GreeterInv, StatusFits
<1>3. e \in [tag : Slots, ok : BOOLEAN] /\ e.tag = at[t].tag
  BY <1>1, <1>2 DEF Event
<1>4. cq' = cq \cup {e} /\ MoveTo(t, "next", NoSlot) /\ UNCHANGED <<call, status, waiting, aborted>>
  BY <1>1 DEF Finish
<1>5. /\ at[t].tag \notin waiting /\ (\A ev \in cq : ev.tag # at[t].tag)
      /\ \A u \in Threads : u # t => at[u].tag # at[t].tag
  BY <1>2 DEF GreeterInv, OneHolder
<1>6. /\ at' \in [Threads -> [pc : Places, tag : Slots \cup {NoSlot}]]
      /\ at'[t].pc = "next" /\ at'[t].tag = NoSlot
      /\ \A u \in Threads : u # t => at'[u] = at[u]
  BY <1>4, ThreadMoves DEF GreeterInv, Places
<1>7. GreeterTypes'
  <2>1. \A u \in Threads : at'[u].pc \in Places
    BY <1>6
  <2> QED BY <1>3, <1>4, <1>6, <2>1 DEF GreeterInv, GreeterTypes, GreeterTypeOK, Places
<1>8. StatusFits'
  BY <1>2, <1>3, <1>4, <1>6 DEF GreeterInv, StatusFits
<1>9. OneHolder'
  BY <1>3, <1>4, <1>5, <1>6 DEF GreeterInv, OneHolder
<1>10. NoLeak'
  BY <1>3, <1>4, <1>6 DEF GreeterInv, NoLeak
<1>11. \A x : x \in Ready' <=> x \in Ready
  BY <1>2, <1>3, <1>4, <1>6, ReadyIs DEF Ready
<1>12. Ready' = Ready /\ InLoop' = InLoop
  BY <1>2, <1>6, <1>11 DEF InLoop
<1> QED BY <1>7, <1>8, <1>9, <1>10, <1>12 DEF GreeterInv, AlwaysWaiting

\* The object that deletes itself is nobody else's.
LEMMA DeleteKeeps ==
  ASSUME GreeterInv, NEW t \in Threads, Delete(t)
  PROVE  GreeterInv'
<1>1. PICK g : g = at[t].tag
  OBVIOUS
<1>2. /\ at[t].pc = "delete" /\ status' = [status EXCEPT ![g] = "free"]
      /\ MoveTo(t, "next", NoSlot) /\ UNCHANGED <<call, waiting, cq, aborted>>
  BY <1>1 DEF Delete
<1>3. /\ g \in Slots /\ g # NoSlot /\ status[g] = "FINISH"
      /\ g \notin waiting /\ (\A ev \in cq : ev.tag # g) /\ \A u \in Threads : u # t => at[u].tag # g
  BY <1>1, <1>2, HeldSlot DEF GreeterInv, OneHolder, StatusFits
<1>4. /\ at' \in [Threads -> [pc : Places, tag : Slots \cup {NoSlot}]]
      /\ at'[t].pc = "next" /\ at'[t].tag = NoSlot
      /\ \A u \in Threads : u # t => at'[u] = at[u]
  BY <1>2, ThreadMoves DEF GreeterInv, Places
<1>5. /\ status' \in [Slots -> {"free", "PROCESS", "FINISH"}] /\ status'[g] = "free"
      /\ \A x \in Slots : x # g => status'[x] = status[x]
  BY <1>2, <1>3 DEF GreeterInv, GreeterTypes, GreeterTypeOK
<1>6. GreeterTypes'
  <2>1. \A u \in Threads : at'[u].pc \in Places
    BY <1>4
  <2> QED BY <1>2, <1>4, <1>5, <2>1 DEF GreeterInv, GreeterTypes, GreeterTypeOK, Places
<1>7. StatusFits'
  <2>1. \A x \in waiting' : status'[x] = "PROCESS"
    BY <1>2, <1>3, <1>5 DEF GreeterInv, GreeterTypes, StatusFits
  <2>2. \A ev \in cq' : status'[ev.tag] # "free" /\ (~ev.ok => status'[ev.tag] = "FINISH")
    BY <1>2, <1>3, <1>5 DEF GreeterInv, GreeterTypes, StatusFits
  <2>3. \A u \in Threads : u # t /\ at[u].tag # NoSlot => status'[at[u].tag] = status[at[u].tag]
    BY <1>3, <1>5 DEF GreeterInv, GreeterTypes
  <2> QED BY <1>4, <2>1, <2>2, <2>3 DEF GreeterInv, StatusFits
<1>8. OneHolder'
  BY <1>2, <1>4 DEF GreeterInv, OneHolder
<1>9. NoLeak'
  BY <1>1, <1>2, <1>4, <1>5 DEF GreeterInv, NoLeak
<1>10. \A x : x \in Ready' <=> x \in Ready
  <2>1. \A u \in Threads : /\ at'[u].pc = "spawn" <=> at[u].pc = "spawn"
                           /\ at[u].pc = "spawn" => at'[u].tag = at[u].tag
    BY <1>2, <1>4
  <2>2. \A x \in Slots : status'[x] = "PROCESS" <=> status[x] = "PROCESS"
    BY <1>3, <1>5
  <2> QED BY <1>2, <2>1, <2>2, ReadyIs DEF Ready
<1>11. Ready' = Ready /\ InLoop' = InLoop
  BY <1>2, <1>4, <1>10 DEF InLoop
<1> QED BY <1>6, <1>7, <1>8, <1>9, <1>11 DEF GreeterInv, AlwaysWaiting

\* For every number of threads in HandleRpcs, calls and addresses: a CallData
\* has one holder, which sees it in the state it expects, and there is one ready
\* CallData for every thread in the loop.
THEOREM GreeterInvariant == GreeterSpec => []GreeterInv
<1>1. GreeterInv /\ [GreeterNext]_greeterVars => GreeterInv'
  <2> SUFFICES ASSUME GreeterInv, [GreeterNext]_greeterVars PROVE GreeterInv'
    OBVIOUS
  <2>1. ASSUME NEW c \in Calls,
               SayHello(c) \/ CompleteCall(c) \/ AsyncCompleteRpc(c) \/ Break(c)
        PROVE  GreeterInv'
    BY <2>1, ClientKeeps
  <2>2. ASSUME NEW c \in Calls, NEW s \in Slots, Arrive(c, s) PROVE GreeterInv'
    BY <2>2, ArriveKeeps
  <2>3. ASSUME NEW t \in Threads, ServerStep(t) PROVE GreeterInv'
    BY <2>3, NewKeeps, NextEventKeeps, SetFinishKeeps, FinishKeeps, DeleteKeeps DEF ServerStep
  <2>4. CASE UNCHANGED greeterVars
    BY <2>4 DEF greeterVars, GreeterInv, GreeterTypes, GreeterTypeOK, StatusFits, OneHolder,
                AlwaysWaiting, Ready, InLoop, NoLeak
  <2> QED BY <2>1, <2>2, <2>3, <2>4 DEF GreeterNext
<1> QED BY <1>1, GreeterInitOwned, PTL DEF GreeterSpec

\* The objects of the server are used as the comment on HandleRpcs allows, by
\* any number of threads: no tag of a deleted object, no object in two hands,
\* none leaked, and always one that waits for the next call.
THEOREM ObjectsOwnedAlways == GreeterSpec => []ObjectsOwned
<1>1. GreeterInv => ObjectsOwned
  <2> SUFFICES ASSUME GreeterInv PROVE TagsAlive
    BY DEF GreeterInv, GreeterTypes, ObjectsOwned
  <2>1. ASSUME NEW t \in Threads, at[t].tag # NoSlot PROVE status[at[t].tag] # "free"
    <3>1. at[t].pc \in Places
      BY DEF GreeterInv, GreeterTypes
    <3> QED BY <2>1, <3>1 DEF GreeterInv, StatusFits, Places
  <2> QED BY <2>1 DEF GreeterInv, StatusFits, OneHolder, TagsAlive
<1> QED BY <1>1, GreeterInvariant, PTL

-----------------------------------------------------------------------------
(***************************************************************************)
(* The SBA demonstration: what the threads of a round leave in the sum.    *)
(***************************************************************************)
\* The ticks of some threads are finitely many.
LEMMA TicksFinite ==
  ASSUME took \in [Clients -> Nat], NEW S \in SUBSET Clients
  PROVE  IsFiniteSet(TicksOf(S)) /\ TimeOf(S) \in Nat
<1>1. IsFiniteSet(S)
  BY SbaAssumption, FS_Subset
<1>2. PICK f : f = [c \in S |-> {c} \X (1 .. took[c])]
  OBVIOUS
<1>3. PICK T : T = {{c} \X (1 .. took[c]) : c \in S}
  OBVIOUS
<1>4. f \in Surjection(S, T)
  <2>1. f \in [S -> T]
    BY <1>2, <1>3
  <2>2. \A t \in T : \E c \in S : f[c] = t
    BY <1>2, <1>3
  <2> QED BY <2>1, <2>2 DEF Surjection
<1>5. IsFiniteSet(T)
  BY <1>1, <1>4, FS_Surjection
<1>6. \A t \in T : IsFiniteSet(t)
  <2> SUFFICES ASSUME NEW c \in S PROVE IsFiniteSet({c} \X (1 .. took[c]))
    BY <1>3
  <2>1. IsFiniteSet({c})
    BY FS_Singleton
  <2>2. IsFiniteSet(1 .. took[c])
    <3>1. took[c] \in Int /\ 1 \in Int
      OBVIOUS
    <3> QED BY <3>1, FS_Interval
  <2> QED BY <2>1, <2>2, FS_Product
<1>7. IsFiniteSet(UNION T)
  BY <1>5, <1>6, FS_UNION
<1>8. IsFiniteSet(TicksOf(S))
  BY <1>3, <1>7 DEF TicksOf
<1> QED BY <1>8, FS_CardinalityType DEF TimeOf

\* Another thread adds its time, and only its time.
LEMMA TimeAdds ==
  ASSUME took \in [Clients -> Nat], NEW S \in SUBSET Clients, NEW c \in Clients, c \notin S
  PROVE  TimeOf(S \cup {c}) = TimeOf(S) + took[c]
<1>1. PICK A : A = TicksOf(S)
  OBVIOUS
<1>2. PICK B : B = {c} \X (1 .. took[c])
  OBVIOUS
<1>3. IsFiniteSet(A)
  BY <1>1, TicksFinite
<1>4. IsFiniteSet({c}) /\ Cardinality({c}) = 1
  BY FS_Singleton
<1>5. IsFiniteSet(1 .. took[c]) /\ Cardinality(1 .. took[c]) = took[c]
  <2>1. took[c] \in Nat /\ took[c] \in Int /\ 1 \in Int
    OBVIOUS
  <2>2. /\ IsFiniteSet(1 .. took[c])
        /\ Cardinality(1 .. took[c]) = IF 1 > took[c] THEN 0 ELSE took[c] - 1 + 1
    BY <2>1, FS_Interval
  <2> QED BY <2>1, <2>2
<1>6. IsFiniteSet(B) /\ Cardinality(B) = took[c]
  <2>1. IsFiniteSet(B) /\ Cardinality(B) = Cardinality({c}) * Cardinality(1 .. took[c])
    BY <1>2, <1>4, <1>5, FS_Product
  <2>2. Cardinality(B) = 1 * took[c]
    BY <2>1, <1>4, <1>5
  <2>3. took[c] \in Nat
    OBVIOUS
  <2>4. 1 * took[c] = took[c]
    BY <2>3
  <2> QED BY <2>1, <2>2, <2>4
<1>7. A \cap B = {}
  BY <1>1, <1>2 DEF TicksOf
<1>8. TicksOf(S \cup {c}) = A \cup B
  BY <1>1, <1>2 DEF TicksOf
<1>9. Cardinality(A \cup B) = Cardinality(A) + Cardinality(B) - Cardinality(A \cap B)
  BY <1>3, <1>6, FS_Union
<1>10. Cardinality(A \cap B) = 0
  BY <1>7, FS_EmptySet
<1>11. Cardinality(A) \in Nat /\ Cardinality(B) \in Nat
  BY <1>3, <1>6, FS_CardinalityType
<1>12. Cardinality(A \cup B) = Cardinality(A) + Cardinality(B)
  BY <1>9, <1>10, <1>11
<1> QED BY <1>1, <1>6, <1>8, <1>12 DEF TimeOf

\* No threads took no time, and threads that took any have one that did.
LEMMA TimeNone == TimeOf({}) = 0
<1>1. TicksOf({}) = {}
  BY DEF TicksOf
<1> QED BY <1>1, FS_EmptySet DEF TimeOf

LEMMA TimePositive ==
  ASSUME took \in [Clients -> Nat], NEW S \in SUBSET Clients, TimeOf(S) > 0
  PROVE  \E c \in S : took[c] > 0
<1> SUFFICES ASSUME \A c \in S : ~ (took[c] > 0) PROVE FALSE
  OBVIOUS
<1>1. \A c \in S : took[c] = 0
  OBVIOUS
<1>2. \A c \in S : 1 .. took[c] = {}
  BY <1>1
<1>3. TicksOf(S) = {}
  BY <1>2 DEF TicksOf
<1>4. TimeOf(S) = 0
  BY <1>3, FS_EmptySet DEF TimeOf
<1> QED BY <1>4

\* The time of threads whose own times stay.
LEMMA SameTime ==
  ASSUME NEW S, \A c \in S : took'[c] = took[c]
  PROVE  TimeOf(S)' = TimeOf(S)
<1>1. TicksOf(S)' = TicksOf(S)
  BY DEF TicksOf
<1> QED BY <1>1 DEF TimeOf

\* A sum that some threads' times make stays one while the threads that have
\* added stay and keep their times.
LEMMA SomeTimeStays ==
  ASSUME NEW n, SomeTime(n), Added \subseteq Added', \A c \in Added : took'[c] = took[c]
  PROVE  \E S \in SUBSET (Added') : TimeOf(S)' = n
<1>1. PICK S \in SUBSET Added : TimeOf(S) = n
  BY DEF SomeTime
<1>2. \A c \in S : took'[c] = took[c]
  BY <1>1
<1>3. TimeOf(S)' = n
  BY ONLY <1>1, <1>2, SameTime
<1>4. S \in SUBSET (Added')
  BY <1>1
<1> QED BY <1>3, <1>4

\* What the server's side adds to the invariant.
ServerInv ==
  /\ cur \in SbaCount /\ total \in SbaCount /\ averaged \in SbaCount
  /\ lock \in Clients \cup {"free", "averager"} /\ averaging \in BOOLEAN
  /\ seen \in [Clients \cup {"averager"} -> SbaCount]
  /\ EveryRequestAveraged /\ LockHeld

\* In the first state nothing has been added and nothing counted.
LEMMA SbaInitInv == SbaInit => SbaInv
<1> SUFFICES ASSUME SbaInit PROVE SbaInv
  OBVIOUS
<1> USE SbaAssumption DEF SbaInit
<1>1. SbaTypeOK
  BY DEF SbaTypeOK, ClientPlaces
<1>2. SbaTypes
  BY DEF SbaTypes, SbaCount, NoCount, ClientPlaces
<1>3. EveryRequestAveraged
  BY DEF EveryRequestAveraged, Plus, NoCount
<1>4. LockHeld
  BY DEF LockHeld
<1> QED BY <1>1, <1>2, <1>3, <1>4 DEF SbaInv

\* The counters add up, whatever is added to both sides.
LEMMA PlusType ==
  ASSUME NEW a \in SbaCount, NEW b \in SbaCount, NEW c \in SbaCount
  PROVE  /\ Plus(a, b) \in SbaCount
         /\ Plus(Plus(a, b), c) = Plus(a, Plus(b, c))
         /\ Plus(a, NoCount) = a
BY DEF SbaCount, Plus, NoCount

\* The server's variables stay, and no thread enters or leaves a handler.
LEMMA ServerStays ==
  ASSUME SbaInv, UNCHANGED sbaServer,
         \A c \in Clients : place'[c] = "count" <=> place[c] = "count"
  PROVE  ServerInv'
BY DEF SbaInv, SbaTypes, sbaServer, ServerInv, EveryRequestAveraged, LockHeld

\* main starts a round of threads, in which no handler is under way.
LEMMA StartRoundInv ==
  ASSUME SbaInv, StartRound PROVE SbaInv'
<1> USE SbaAssumption DEF SbaInv, StartRound
<1>1. SbaTypeOK'
  BY DEF SbaTypeOK, ClientPlaces
<1>2. PICK S \in SUBSET Clients :
        started' = S /\ place' = [c \in Clients |-> IF c \in S THEN "ask" ELSE "idle"]
  OBVIOUS
<1>3. \A c \in Clients : place'[c] \in {"ask", "idle"} /\ took'[c] = 0
  BY <1>2
<1>4. \A c \in Clients : place[c] # "count"
  BY DEF SbaTypeOK
<1>5. ServerInv'
  BY <1>3, <1>4, ServerStays
<1>6. SbaTypes'
  BY <1>2, <1>5 DEF SbaTypes, ServerInv, ClientPlaces
<1>7. Added' = {}
  BY <1>2, <1>3 DEF Added
<1>8. TimeOf({})' = 0
  <2>1. TicksOf({})' = {}
    BY DEF TicksOf
  <2> QED BY <2>1, FS_EmptySet DEF TimeOf
<1>9. SomeTime(0)'
  BY <1>7, <1>8 DEF SomeTime
<1> QED BY <1>1, <1>3, <1>5, <1>6, <1>7, <1>9 DEF ServerInv

\* A step of a thread that adds nothing: the others keep what they have.
LEMMA ThreadStepInv ==
  ASSUME SbaInv, NEW c \in Clients, NEW p \in ClientPlaces, place' = [place EXCEPT ![c] = p],
         place[c] \notin {"idle", "done"}, ServerInv',
         round' = round, phase' = phase, started' = started, sum' = sum,
         \/ took' = took
         \/ place[c] # "write" /\ p = "read" /\ \E t \in Times : took' = [took EXCEPT ![c] = t],
         reg' = reg \/ (p = "write" /\ reg' = [reg EXCEPT ![c] = sum]),
         p = "write" => reg' = [reg EXCEPT ![c] = sum],
         p \in {"read", "write"} => took'[c] \in Times,
         p \in {"ask", "call", "count", "reply", "done"} => took'[c] = 0
  PROVE  SbaInv'
<1> USE SbaAssumption DEF SbaInv
<1>0. /\ place \in [Clients -> ClientPlaces] /\ took \in [Clients -> Nat] /\ reg \in [Clients -> Nat]
      /\ sum \in Nat
  BY DEF SbaTypes
<1>1. /\ \A d \in Clients : d # c => place'[d] = place[d] /\ took'[d] = took[d] /\ reg'[d] = reg[d]
      /\ place'[c] = p /\ took' \in [Clients -> Nat] /\ reg' \in [Clients -> Nat]
  BY <1>0
<1>2. c \in started /\ started \subseteq Clients
  BY DEF SbaTypeOK
<1>3. SbaTypeOK'
  BY <1>0, <1>1, <1>2 DEF SbaTypeOK
<1>4. SbaTypes'
  BY <1>0, <1>1 DEF SbaTypes, ServerInv
<1>5. Added \subseteq Added' /\ \A d \in Added' : d \in Added \/ d = c
  BY <1>1, <1>2 DEF Added
<1>6. \A d \in Added : took'[d] = took[d]
  BY <1>1, <1>2 DEF Added
<1>7. \A n : SomeTime(n) => \E S \in SUBSET (Added') : TimeOf(S)' = n
  BY <1>5, <1>6, SomeTimeStays
<1>8. \A d \in Clients :
        /\ place'[d] \in {"read", "write"} => took'[d] \in Times
        /\ place'[d] \in {"ask", "call", "count", "reply"} => took'[d] = 0
  BY <1>1
<1>9. SomeTime(sum)'
  <2>1. \E S \in SUBSET (Added') : TimeOf(S)' = sum
    BY <1>2, <1>7
  <2> QED BY <2>1 DEF SomeTime
<1>10. ASSUME NEW d \in Clients, place'[d] = "write" PROVE SomeTime(reg[d])'
  <2>1. CASE d = c
    <3>1. reg'[d] = sum
      BY <1>0, <1>1, <1>10, <2>1
    <3>2. \E S \in SUBSET (Added') : TimeOf(S)' = sum
      BY <1>2, <1>7
    <3> QED BY <3>1, <3>2 DEF SomeTime
  <2>2. CASE d # c
    <3>1. place[d] = "write" /\ reg'[d] = reg[d]
      BY <1>1, <1>10, <2>2
    <3>2. \E S \in SUBSET (Added') : TimeOf(S)' = reg[d]
      BY <1>2, <1>7, <3>1
    <3> QED BY <3>1, <3>2 DEF SomeTime
  <2> QED BY <2>1, <2>2
<1>11. ASSUME NEW d \in Added', took'[d] > 0 PROVE sum' > 0
  <2>1. CASE d \in Added
    BY <1>2, <1>6, <1>11, <2>1
  <2>2. CASE d \notin Added
    <3>1. d = c /\ p = "done"
      BY <1>1, <1>5, <2>2 DEF Added
    <3>2. took'[d] = 0
      BY <3>1
    <3> QED BY <1>11, <3>2
  <2> QED BY <2>1, <2>2
<1>12. EveryRequestAveraged' /\ LockHeld'
  BY DEF ServerInv
<1> QED BY <1>2, <1>3, <1>4, <1>8, <1>9, <1>10, <1>11, <1>12

\* The load balancer answers or not, the call ends, the sum is read.
LEMMA ThreadInv ==
  ASSUME SbaInv, NEW c \in Clients, Servers(c) \/ CallEnds(c) \/ ReadSum(c) PROVE SbaInv'
<1>0. place \in [Clients -> ClientPlaces] /\ took \in [Clients -> Nat]
  BY DEF SbaInv, SbaTypes
<1>1. CASE Servers(c)
  <2>1. PICK p \in {"call", "done"} : place' = [place EXCEPT ![c] = p]
    BY <1>1 DEF Servers
  <2>2. p \in ClientPlaces /\ place[c] = "ask" /\ UNCHANGED <<sbaClient, sbaServer>>
    BY <1>1, <2>1 DEF Servers, ClientPlaces
  <2>3. ServerInv'
    BY <1>0, <2>1, <2>2, ServerStays
  <2>4. took'[c] = 0
    BY <2>2 DEF SbaInv, sbaClient
  <2> QED BY <2>1, <2>2, <2>3, <2>4, ThreadStepInv DEF sbaClient
<1>2. CASE CallEnds(c)
  <2>1. PICK t \in Times : took' = [took EXCEPT ![c] = t]
    BY <1>2 DEF CallEnds
  <2>2. /\ place' = [place EXCEPT ![c] = "read"] /\ place[c] \in {"call", "reply"}
        /\ UNCHANGED <<round, phase, started, reg, sum, sbaServer>>
    BY <1>2 DEF CallEnds
  <2>3. ServerInv'
    BY <1>0, <2>2, ServerStays
  <2>4. took'[c] \in Times /\ "read" \in ClientPlaces
    BY <1>0, <2>1 DEF ClientPlaces
  <2> QED BY <2>1, <2>2, <2>3, <2>4, ThreadStepInv
<1>3. CASE ReadSum(c)
  <2>1. /\ place' = [place EXCEPT ![c] = "write"] /\ place[c] = "read"
        /\ reg' = [reg EXCEPT ![c] = sum]
        /\ UNCHANGED <<round, phase, started, took, sum, sbaServer>>
    BY <1>3 DEF ReadSum
  <2>2. ServerInv'
    BY <1>0, <2>1, ServerStays
  <2>3. took'[c] \in Times /\ "write" \in ClientPlaces
    BY <2>1 DEF ClientPlaces, SbaInv
  <2> QED BY <2>1, <2>2, <2>3, ThreadStepInv
<1> QED BY <1>1, <1>2, <1>3

\* A handler takes the mutex; the counters it reads stay as they are.
LEMMA HandleLockInv ==
  ASSUME SbaInv, NEW c \in Clients, HandleLock(c) PROVE SbaInv'
<1>0. /\ place \in [Clients -> ClientPlaces] /\ cur \in SbaCount
      /\ seen \in [Clients \cup {"averager"} -> SbaCount]
  BY DEF SbaInv, SbaTypes
<1>1. /\ place' = [place EXCEPT ![c] = "count"] /\ place[c] = "call"
      /\ lock = "free" /\ lock' = c /\ seen' = [seen EXCEPT ![c] = cur]
      /\ UNCHANGED <<sbaClient, cur, total, averaging, averaged>>
  BY DEF HandleLock, lock_lock
<1>2. LockHeld'
  <2>1. \A d \in Clients : place'[d] = "count" <=> lock' = d
    BY <1>0, <1>1, SbaAssumption DEF SbaInv, LockHeld
  <2>2. averaging' <=> lock' = "averager"
    BY <1>1, SbaAssumption DEF SbaInv, LockHeld
  <2>3. seen'[lock'] = cur'
    BY <1>0, <1>1
  <2> QED BY <2>1, <2>2, <2>3 DEF LockHeld
<1>3. ServerInv'
  BY <1>0, <1>1, <1>2 DEF ServerInv, SbaInv, SbaTypes, EveryRequestAveraged
<1>4. took'[c] = 0 /\ "count" \in ClientPlaces
  BY <1>1 DEF SbaInv, sbaClient, ClientPlaces
<1> QED BY <1>1, <1>3, <1>4, ThreadStepInv DEF sbaClient

\* ... and adds its request to what it has read, which nobody has changed.
LEMMA HandleInv ==
  ASSUME SbaInv, NEW c \in Clients, Handle(c) PROVE SbaInv'
<1>0. place \in [Clients -> ClientPlaces] /\ cur \in SbaCount /\ total \in SbaCount /\ averaged \in SbaCount
  BY DEF SbaInv, SbaTypes
<1>1. /\ place' = [place EXCEPT ![c] = "reply"] /\ place[c] = "count" /\ lock' = "free"
      /\ UNCHANGED <<sbaClient, seen, averaging, averaged>>
  BY DEF Handle
<1>2. lock = c /\ seen[c] = cur /\ ~ averaging /\ total = Plus(averaged, cur)
  BY <1>1, SbaAssumption DEF SbaInv, LockHeld, EveryRequestAveraged
<1>3. PICK ms \in ServerTimes : /\ cur' = Plus(seen[c], [time |-> ms, n |-> 1])
                                /\ total' = Plus(total, [time |-> ms, n |-> 1])
  BY DEF Handle
<1>4. PICK one : one = [time |-> ms, n |-> 1]
  OBVIOUS
<1>5. one \in SbaCount
  BY <1>4, SbaAssumption DEF SbaCount
<1>6. cur' \in SbaCount /\ total' \in SbaCount /\ total' = Plus(averaged, cur')
  BY <1>0, <1>2, <1>3, <1>4, <1>5, PlusType
<1>7. LockHeld'
  <2>1. \A d \in Clients : place'[d] # "count"
    BY <1>0, <1>1, <1>2 DEF SbaInv, LockHeld
  <2> QED BY <1>1, <1>2, <2>1, SbaAssumption DEF LockHeld
<1>8. ServerInv'
  BY <1>0, <1>1, <1>6, <1>7 DEF ServerInv, SbaInv, SbaTypes, EveryRequestAveraged
<1>9. took'[c] = 0 /\ "reply" \in ClientPlaces
  BY <1>1 DEF SbaInv, sbaClient, ClientPlaces
<1> QED BY <1>1, <1>8, <1>9, ThreadStepInv DEF sbaClient

\* sum += elapsedTimeMs is written: the sum that was read, perhaps long ago,
\* and the time of this thread, which had not added it.
LEMMA WriteSumInv ==
  ASSUME SbaInv, NEW c \in Clients, WriteSum(c) PROVE SbaInv'
<1> USE SbaAssumption DEF SbaInv
<1>1. /\ sum' = reg[c] + took[c] /\ started' = started /\ round' = round /\ reg' = reg
      /\ took' = took /\ place' = [place EXCEPT ![c] = "done"] /\ place[c] = "write"
      /\ phase' = phase /\ UNCHANGED sbaServer
  BY DEF WriteSum
<1>2. c \in started /\ started \subseteq Clients /\ took \in [Clients -> Nat]
  BY <1>1 DEF SbaTypeOK, SbaTypes
<1>3. /\ \A d \in Clients : d # c => place'[d] = place[d]
      /\ place'[c] = "done"
  BY <1>1 DEF SbaTypes
<1>4. SbaTypeOK'
  BY <1>1, <1>2, <1>3 DEF SbaTypeOK, ClientPlaces
<1>s. ServerInv'
  BY <1>1, <1>3, ServerStays
<1>5. SbaTypes' /\ EveryRequestAveraged' /\ LockHeld'
  <2>1. reg \in [Clients -> Nat] /\ place \in [Clients -> ClientPlaces] /\ "done" \in ClientPlaces
    BY DEF SbaTypes, ClientPlaces
  <2>2. sum' \in Nat /\ place' \in [Clients -> ClientPlaces]
    BY <1>1, <1>2, <2>1
  <2> QED BY <1>1, <1>2, <1>s, <2>1, <2>2 DEF SbaTypes, ServerInv
<1>6. Added' = Added \cup {c} /\ c \notin Added /\ Added \subseteq Clients
  BY <1>1, <1>2, <1>3 DEF Added
<1>7. \A n : SomeTime(n) => \E S \in SUBSET (Added') : TimeOf(S)' = n
  BY <1>1, <1>6, SomeTimeStays
<1>8. \A d \in Clients :
        /\ place'[d] \in {"read", "write"} => took'[d] \in Times
        /\ place'[d] \in {"ask", "call", "count", "reply"} => took'[d] = 0
  BY <1>1, <1>3
<1>9. SomeTime(sum)'
  <2>1. SomeTime(reg[c])
    BY <1>1, <1>2
  <2>2. PICK S \in SUBSET Added : TimeOf(S) = reg[c]
    BY <2>1 DEF SomeTime
  <2>3. S \in SUBSET Clients /\ c \notin S
    BY <1>6, <2>2
  <2>4. TimeOf(S \cup {c}) = reg[c] + took[c]
    BY <1>2, <2>2, <2>3, TimeAdds
  <2>5. PICK T : T = S \cup {c}
    OBVIOUS
  <2>6. TimeOf(T)' = TimeOf(T)
    BY <1>1, SameTime
  <2>7. T \in SUBSET (Added') /\ TimeOf(T)' = sum'
    BY <1>1, <1>6, <2>4, <2>5, <2>6
  <2> QED BY <2>7 DEF SomeTime
<1>10. ASSUME NEW d \in Clients, place'[d] = "write" PROVE SomeTime(reg[d])'
  <2>1. place[d] = "write" /\ reg'[d] = reg[d]
    BY <1>1, <1>3, <1>10
  <2>2. \E S \in SUBSET (Added') : TimeOf(S)' = reg[d]
    BY <1>2, <1>7, <2>1
  <2> QED BY <2>1, <2>2 DEF SomeTime
<1>11. sum' > 0
  <2>1. took[c] \in Times /\ reg[c] \in Nat
    BY <1>1 DEF SbaTypes
  <2>2. took[c] \in Nat /\ took[c] # 0
    BY ONLY <2>1, SbaAssumption
  <2> QED BY <1>1, <2>1, <2>2
<1> QED BY <1>1, <1>2, <1>4, <1>5, <1>8, <1>9, <1>10, <1>11

\* main prints the sum when every thread has ended, or dies of a join().
LEMMA EndRoundInv ==
  ASSUME SbaInv, EndRound PROVE SbaInv'
<1> USE SbaAssumption DEF SbaInv, EndRound
<1>1. SbaTypeOK'
  <2>1. round + 1 \in 0 .. MaxRounds
    BY DEF SbaTypeOK
  <2> QED BY <2>1 DEF SbaTypeOK, Joined
<1>2. ServerInv'
  BY ServerStays
<1>3. SbaTypes' /\ EveryRequestAveraged' /\ LockHeld'
  BY <1>2 DEF SbaTypes, ServerInv
<1> QED BY <1>1, <1>3

\* A step in which the client's threads and their sum stay.
LEMMA ClientStays ==
  ASSUME SbaInv, UNCHANGED <<round, started, place, took, reg, sum>>, ServerInv',
         phase' = phase \/ phase' = "dead"
  PROVE  SbaInv'
<1>1. SbaTypeOK' /\ SbaTypes' /\ EveryRequestAveraged' /\ LockHeld'
  BY DEF SbaInv, SbaTypeOK, SbaTypes, ServerInv
<1>2. /\ \A c \in Clients : SomeTime(reg[c])' <=> SomeTime(reg[c])
      /\ SomeTime(sum)' <=> SomeTime(sum)
      /\ Added' = Added
  BY DEF SomeTime, Added, TimeOf, TicksOf
<1> QED BY <1>1, <1>2 DEF SbaInv

LEMMA JoinThrowsInv ==
  ASSUME SbaInv, JoinThrows PROVE SbaInv'
<1>1. ServerInv'
  BY ServerStays DEF JoinThrows
<1> QED BY <1>1, ClientStays DEF JoinThrows

\* The averaging thread takes the mutex and reads, then averages and resets.
LEMMA AverageLockInv ==
  ASSUME SbaInv, AverageLock PROVE SbaInv'
<1>0. cur \in SbaCount /\ seen \in [Clients \cup {"averager"} -> SbaCount]
  BY DEF SbaInv, SbaTypes
<1>1. /\ lock = "free" /\ lock' = "averager" /\ seen' = [seen EXCEPT !["averager"] = cur]
      /\ averaging' = TRUE /\ UNCHANGED <<sbaClient, place, cur, total, averaged>>
  BY DEF AverageLock, lock_lock
<1>2. LockHeld'
  <2>1. \A c \in Clients : place'[c] # "count" /\ lock' # c
    BY <1>1, SbaAssumption DEF SbaInv, LockHeld
  <2>2. seen'[lock'] = cur'
    BY <1>0, <1>1
  <2> QED BY <1>1, <2>1, <2>2 DEF LockHeld
<1>3. ServerInv'
  BY <1>0, <1>1, <1>2 DEF ServerInv, SbaInv, SbaTypes, EveryRequestAveraged
<1> QED BY <1>1, <1>3, ClientStays DEF sbaClient

LEMMA AverageInv ==
  ASSUME SbaInv, calculateAverageReponseTime PROVE SbaInv'
<1>0. cur \in SbaCount /\ total \in SbaCount /\ averaged \in SbaCount
  BY DEF SbaInv, SbaTypes
<1>1. /\ averaging /\ averaged' = Plus(averaged, seen["averager"]) /\ cur' = NoCount
      /\ lock' = "free" /\ averaging' = FALSE /\ UNCHANGED <<sbaClient, place, total, seen>>
  BY DEF calculateAverageReponseTime
<1>2. lock = "averager" /\ seen["averager"] = cur /\ total = Plus(averaged, cur)
  BY <1>1, SbaAssumption DEF SbaInv, LockHeld, EveryRequestAveraged
<1>3. NoCount \in SbaCount
  BY DEF NoCount, SbaCount
<1>4. averaged' \in SbaCount /\ cur' \in SbaCount /\ total' = Plus(averaged', cur')
  BY <1>0, <1>1, <1>2, <1>3, PlusType
<1>5. LockHeld'
  <2>1. \A c \in Clients : place'[c] # "count" /\ lock' # c
    BY <1>1, <1>2, SbaAssumption DEF SbaInv, LockHeld
  <2> QED BY <1>1, <2>1 DEF LockHeld
<1>6. ServerInv'
  BY <1>1, <1>4, <1>5 DEF ServerInv, SbaInv, SbaTypes, EveryRequestAveraged
<1> QED BY <1>1, <1>6, ClientStays DEF sbaClient

\* Every step of the client and the server keeps the invariant.
LEMMA SbaNextInv == SbaInv /\ [SbaNext]_sbaVars => SbaInv'
<1> SUFFICES ASSUME SbaInv, [SbaNext]_sbaVars PROVE SbaInv'
  OBVIOUS
<1>1. ASSUME NEW c \in Clients, ClientThread(c) PROVE SbaInv'
  BY <1>1, ThreadInv, HandleLockInv, HandleInv, WriteSumInv DEF ClientThread
<1>2. CASE UNCHANGED sbaVars
  <2>1. ServerInv'
    BY <1>2, ServerStays DEF sbaVars
  <2> QED BY <1>2, <2>1, ClientStays DEF sbaVars, sbaClient
<1> QED BY <1>1, <1>2, StartRoundInv, EndRoundInv, JoinThrowsInv, AverageLockInv, AverageInv
        DEF SbaNext

\* The inductive invariant of the SBA demonstration.
THEOREM SbaInvariant == SbaSpec => []SbaInv
<1> QED BY SbaInitInv, SbaNextInv, PTL DEF SbaSpec

\* For any number of threads: without its mutex the sum loses times, and yet
\* it is always the time of some of the threads that have added theirs, and of
\* at least one of them (client.cpp); every request the server has counted is
\* in exactly one average or still to be averaged (grpc.classes.cpp).
THEOREM CountsOnceAlways == SbaSpec => []CountsOnce
<1>1. SbaInv => CountsOnce
  <2> SUFFICES ASSUME SbaInv PROVE SumOfSome
    BY DEF SbaInv, CountsOnce
  <2> SUFFICES ASSUME started # {}
               PROVE  \E S \in SUBSET Added :
                        TimeOf(S) = sum /\ (TimeOf(Added) > 0 => TimeOf(S) > 0)
    BY DEF SumOfSome
  <2>1. PICK S \in SUBSET Added : TimeOf(S) = sum
    BY DEF SbaInv, SomeTime
  <2>2. ASSUME TimeOf(Added) > 0 PROVE sum > 0
    <3>1. took \in [Clients -> Nat] /\ Added \in SUBSET Clients
      BY DEF SbaInv, SbaTypes, SbaTypeOK, Added
    <3>2. PICK c \in Added : took[c] > 0
      BY ONLY <2>2, <3>1, TimePositive
    <3> QED BY <3>2 DEF SbaInv
  <2> QED BY <2>1, <2>2
<1> QED BY <1>1, SbaInvariant, PTL
=============================================================================
