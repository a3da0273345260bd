------------------------------ MODULE LbProofs ------------------------------
(***************************************************************************)
(* Proofs about GrpcLb, for any number of targets, requests and services:  *)
(* every service has one owner, which closes it once.                      *)
(***************************************************************************)
EXTENDS GrpcLb, TLAPS, WellFoundedInduction

LEMMA AnyTargetType == AnyTarget \in Target
PROOF
  <1>1. \E t \in Target : TRUE
    BY LbAssumption
  <1> QED BY <1>1 DEF AnyTarget

LEMMA SvcType == NoSvc \notin Svc /\ \A s \in Svc : s \in Nat /\ s >= 1 /\ s <= MaxSvc
PROOF BY LbAssumption DEF Svc, NoSvc

\* The services that are in the cache or just made are open and their loops run.
LEMMA OpenServices ==
    ASSUME LbInv
    PROVE  /\ \A t \in Target : cache[t] # NoSvc =>
                /\ cache[t] \in Svc /\ cache[t] \in 1 .. made
                /\ ~ closing[cache[t]] /\ Running(cache[t])
           /\ \A r \in Request : pc[r] \in {"insert", "close"} =>
                /\ new[r] \in Svc /\ new[r] \in 1 .. made
                /\ ~ closing[new[r]] /\ Running(new[r])
PROOF
  <1> USE SvcType, LbAssumption DEF LbInv, LbTypeOK, OneOwner, Numbered, NoSvc
  <1>1. ASSUME NEW t \in Target, cache[t] # NoSvc
        PROVE  /\ cache[t] \in Svc /\ cache[t] \in 1 .. made
               /\ ~ closing[cache[t]] /\ Running(cache[t])
    <2>1. cache[t] \in Svc /\ cache[t] \in 1 .. made
      BY <1>1
    <2>2. ~ closing[cache[t]]
      BY <2>1 DEF ClosedByOwner
    <2> QED BY <2>1, <2>2 DEF ClosedByOwner
  <1>2. ASSUME NEW r \in Request, pc[r] \in {"insert", "close"}
        PROVE  /\ new[r] \in Svc /\ new[r] \in 1 .. made
               /\ ~ closing[new[r]] /\ Running(new[r])
    <2>1. new[r] \in Svc /\ new[r] \in 1 .. made
      BY <1>2
    <2>2. ~ closing[new[r]]
      BY <1>2, <2>1 DEF ClosedByOwner, Holds
    <2> QED BY <2>1, <2>2 DEF ClosedByOwner
  <1> QED BY <1>1, <1>2

LEMMA LbInitInv == LbInit => LbInv
PROOF
  <1> SUFFICES ASSUME LbInit PROVE LbInv
    OBVIOUS
  <1> USE AnyTargetType, SvcType, LbAssumption DEF LbInit, NoSvc
  <1>1. LbTypeOK
    BY DEF LbTypeOK, LbPc
  <1>2. OneOwner
    BY DEF OneOwner, Numbered, CachedOnce, HeldOnce, ListedOnly, ResetSteps, FoundCached, Holds
  <1>3. ClosedByOwner
    BY DEF ClosedByOwner
  <1>4. NoLoopLeaked /\ ClosedOnce /\ OneService
    BY DEF NoLoopLeaked, ClosedOnce, OneService, Running
  <1> QED BY <1>1, <1>2, <1>3, <1>4 DEF LbInv

LEMMA GetServersInv ==
    ASSUME NEW r \in Request, NEW t \in Target, LbInv, GetServers(r, t)
    PROVE  LbInv'
PROOF
  <1> USE AnyTargetType, SvcType, LbAssumption
      DEF LbInv, GetServers, NoSvc, At, Goto, registryVars, serviceVars, requestVars, resetVars
  <1>1. LbTypeOK'
    BY DEF LbTypeOK, LbPc
  <1>2. OneOwner'
    BY DEF OneOwner, Numbered, CachedOnce, HeldOnce, ListedOnly, ResetSteps, FoundCached, LbTypeOK, Holds
  <1>3. ClosedByOwner'
    BY DEF ClosedByOwner, OneOwner, ListedOnly, LbTypeOK, Holds, Running
  <1>4. NoLoopLeaked'
    BY DEF NoLoopLeaked, LbTypeOK, Holds, Running
  <1>5. ClosedOnce'
    BY DEF ClosedOnce
  <1>6. OneService'
    BY OpenServices DEF OneService, LbTypeOK, OneOwner, FoundCached, Running
  <1> QED BY <1>1, <1>2, <1>3, <1>4, <1>5, <1>6 DEF LbInv

LEMMA newServiceInv ==
    ASSUME NEW r \in Request, LbInv, newService(r)
    PROVE  LbInv'
PROOF
  <1> DEFINE s == made + 1
  <1> USE SvcType, LbAssumption DEF NoSvc
  <1>0. s \in Svc /\ made \in Nat
    BY DEF LbInv, LbTypeOK, Svc, newService, NoSvc, At, Goto, registryVars, serviceVars, requestVars, resetVars
  <1>1. LbTypeOK'
    BY <1>0 DEF LbInv, LbTypeOK, LbPc, newService, NoSvc, At, Goto, registryVars, serviceVars, requestVars, resetVars
  <1>2. /\ made' = s
        /\ new' = [new EXCEPT ![r] = s]
        /\ pc' = [pc EXCEPT ![r] = "insert"]
        /\ loop' = [loop EXCEPT ![s] = "select"]
        /\ pc[r] = "new"
        /\ UNCHANGED <<cache, closing, req, svc, resetVars, panicked>>
    BY DEF newService, NoSvc, At, Goto, registryVars, serviceVars, requestVars, resetVars
  <1>3. /\ \A t \in Target : cache[t] \in Nat /\ cache[t] < s
        /\ \A q \in Request : new[q] \in Nat /\ new[q] < s
        /\ \A u \in reset_list : u \in Svc /\ u < s
    <2>1. Numbered
      BY DEF LbInv, OneOwner
    <2>2. /\ \A t \in Target : cache[t] \in Nat
          /\ \A q \in Request : new[q] \in Nat
          /\ \A u \in reset_list : u \in Svc
      BY DEF LbInv, LbTypeOK
    <2> QED BY <1>0, <2>1, <2>2 DEF Numbered
  <1>4. \A q \in Request, u \in Svc : Holds(q, u)' <=> (q # r /\ Holds(q, u)) \/ (q = r /\ u = s)
    BY <1>2 DEF Holds, LbInv, LbTypeOK
  <1>5. OneOwner'
    <2>1. Numbered'
      BY <1>0, <1>2, <1>3 DEF Numbered, LbInv, LbTypeOK, resetVars
    <2>2. CachedOnce' /\ ResetSteps'
      BY <1>2 DEF CachedOnce, ResetSteps, LbInv, OneOwner, resetVars
    <2>3. \A u \in Svc : \A p, q \in Request : Holds(p, u)' /\ Holds(q, u)' => p = q
      <3>1. \A q \in Request : ~ Holds(q, s)
        BY <1>0, <1>3 DEF Holds
      <3> QED BY <1>4, <3>1 DEF LbInv, OneOwner, HeldOnce
    <2>4. \A q \in Request, t \in Target : ~ Holds(q, cache[t])'
      BY <1>0, <1>1, <1>2, <1>3 DEF Holds, LbInv, LbTypeOK, OneOwner, HeldOnce
    <2>5. ListedOnly'
      BY <1>0, <1>2, <1>3, <1>4 DEF ListedOnly, LbInv, OneOwner, resetVars
    <2>6. FoundCached'
      BY <1>2 DEF FoundCached, LbInv, LbTypeOK, OneOwner, resetVars
    <2> QED BY <2>1, <2>2, <2>3, <2>4, <2>5, <2>6 DEF OneOwner, HeldOnce
  <1>6. ClosedByOwner'
    <2>1. ~ closing[s]
      BY <1>0 DEF LbInv, ClosedByOwner
    <2>2. \A u \in Svc : u > made' => loop'[u] = "none" /\ ~ closing'[u]
      BY <1>0, <1>2 DEF LbInv, LbTypeOK, ClosedByOwner
    <2>3. \A u \in 1 .. made' : ~ closing'[u] => Running(u)'
      BY <1>0, <1>2 DEF LbInv, LbTypeOK, ClosedByOwner, Running, Svc
    <2>4. ASSUME NEW u \in Svc, closing'[u]
          PROVE  /\ \A t \in Target : cache'[t] # u
                 /\ \A q \in Request : Holds(q, u)' => pc'[q] = "wait"
                 /\ u \in reset_list' => reset_pc' = "wait" /\ reset_cur' = u
      <3>1. u # s /\ closing[u]
        BY <2>1, <2>4, <1>2
      <3> QED BY <3>1, <1>2, <1>4 DEF LbInv, LbTypeOK, ClosedByOwner, resetVars
    <2> QED BY <2>2, <2>3, <2>4 DEF ClosedByOwner
  <1>7. NoLoopLeaked'
    <2> SUFFICES ASSUME NEW u \in Svc, Running(u)'
                 PROVE  \/ \E t \in Target : cache'[t] = u
                        \/ \E q \in Request : Holds(q, u)'
                        \/ u \in reset_list'
      BY DEF NoLoopLeaked
    <2>1. CASE u = s
      BY <1>4, <2>1
    <2>2. CASE u # s
      <3>1. Running(u)
        BY <2>2, <1>2 DEF Running, LbInv, LbTypeOK
      <3>2. \A q \in Request : Holds(q, u) => Holds(q, u)'
        BY <1>2, <1>4 DEF Holds
      <3> QED BY <3>1, <3>2, <1>2 DEF LbInv, NoLoopLeaked, resetVars
    <2> QED BY <2>1, <2>2
  <1>8. ClosedOnce'
    BY <1>2 DEF LbInv, ClosedOnce
  <1>9. OneService'
    BY <1>2 DEF LbInv, LbTypeOK, OneService, Running, resetVars
  <1> QED BY <1>1, <1>5, <1>6, <1>7, <1>8, <1>9 DEF LbInv

LEMMA NewServiceFailsInv ==
    ASSUME NEW r \in Request, LbInv, NewServiceFails(r)
    PROVE  LbInv'
PROOF
  <1> USE AnyTargetType, SvcType, LbAssumption
      DEF LbInv, NewServiceFails, NoSvc, At, Goto, Done, registryVars, serviceVars, requestVars, resetVars
  <1>1. LbTypeOK'
    BY DEF LbTypeOK, LbPc
  <1>2. OneOwner'
    BY DEF OneOwner, Numbered, CachedOnce, HeldOnce, ListedOnly, ResetSteps, FoundCached, LbTypeOK, Holds
  <1>3. ClosedByOwner'
    BY DEF ClosedByOwner, OneOwner, ListedOnly, LbTypeOK, Holds, Running
  <1>4. NoLoopLeaked'
    BY DEF NoLoopLeaked, LbTypeOK, Holds, Running
  <1>5. ClosedOnce'
    BY DEF ClosedOnce
  <1>6. OneService'
    BY DEF OneService, LbTypeOK, OneOwner, FoundCached, Running
  <1> QED BY <1>1, <1>2, <1>3, <1>4, <1>5, <1>6 DEF LbInv

LEMMA InsertInv ==
    ASSUME NEW r \in Request, LbInv, Insert(r)
    PROVE  LbInv'
PROOF
  <1> USE SvcType, LbAssumption DEF NoSvc
  <1>0. new[r] \in Svc /\ ~ closing[new[r]] /\ Running(new[r]) /\ req[r] \in Target /\ Holds(r, new[r])
    BY OpenServices DEF LbInv, LbTypeOK, Holds, Insert, NoSvc, At, Goto, registryVars, serviceVars, requestVars, resetVars
  <1>1. CASE cache[req[r]] = NoSvc
    <2>1. LbTypeOK'
      BY <1>0, <1>1, ZenonT(30) DEF LbInv, LbTypeOK, LbPc, Insert, NoSvc, At, Goto, registryVars, serviceVars, requestVars, resetVars
    <2>2. /\ cache' = [cache EXCEPT ![req[r]] = new[r]]
          /\ svc' = [svc EXCEPT ![r] = new[r]]
          /\ pc' = [pc EXCEPT ![r] = "pick"]
          /\ UNCHANGED <<serviceVars, req, new, resetVars, panicked>>
      BY <1>1 DEF Insert, NoSvc, At, Goto, registryVars, serviceVars, requestVars, resetVars
    <2>3. \A q \in Request, u \in Svc : Holds(q, u)' <=> q # r /\ Holds(q, u)
      BY <2>2 DEF Holds, LbInv, LbTypeOK
    <2>4. \A t \in Target : cache'[t] = IF t = req[r] THEN new[r] ELSE cache[t]
      BY <2>2 DEF LbInv, LbTypeOK
    <2>5. \A u \in Svc : Holds(r, u) => u = new[r]
      BY DEF Holds
    <2>6. OneOwner'
      <3>1. Numbered'
        BY <2>2, <2>4 DEF Numbered, LbInv, OneOwner, serviceVars, resetVars
      <3>2. CachedOnce'
        BY <1>0, <2>4 DEF CachedOnce, LbInv, OneOwner, HeldOnce
      <3>3. \A u \in Svc : \A p, q \in Request : Holds(p, u)' /\ Holds(q, u)' => p = q
        BY <2>3 DEF LbInv, OneOwner, HeldOnce
      <3>4. ASSUME NEW q \in Request, NEW t \in Target
            PROVE  ~ Holds(q, cache[t])'
        <4>1. CASE q = r
          BY <4>1, <2>2 DEF Holds, LbInv, LbTypeOK
        <4>2. CASE q # r /\ t = req[r]
          BY <4>2, <1>0, <2>3, <2>4 DEF LbInv, OneOwner, HeldOnce, Holds
        <4>3. CASE q # r /\ t # req[r]
          BY <4>3, <2>2, <2>4 DEF LbInv, LbTypeOK, OneOwner, HeldOnce, Holds
        <4> QED BY <4>1, <4>2, <4>3
      <3>5. ListedOnly'
        <4> SUFFICES ASSUME NEW u \in reset_list
                     PROVE  /\ \A t \in Target : cache'[t] # u
                            /\ \A q \in Request : ~ Holds(q, u)'
          BY <2>2 DEF ListedOnly, resetVars
        <4>1. u \in Svc
          BY DEF LbInv, LbTypeOK
        <4> QED BY <4>1, <1>0, <2>3, <2>4 DEF LbInv, OneOwner, ListedOnly
      <3>6. ResetSteps'
        BY <2>2 DEF ResetSteps, LbInv, OneOwner, resetVars
      <3>7. FoundCached'
        BY <1>0, <1>1, <2>2 DEF FoundCached, LbInv, LbTypeOK, OneOwner, resetVars
      <3> QED BY <3>1, <3>2, <3>3, <3>4, <3>5, <3>6, <3>7 DEF OneOwner, HeldOnce
    <2>7. ClosedByOwner'
      <3>1. ASSUME NEW u \in Svc, closing'[u]
            PROVE  /\ \A t \in Target : cache'[t] # u
                   /\ \A q \in Request : Holds(q, u)' => pc'[q] = "wait"
                   /\ u \in reset_list' => reset_pc' = "wait" /\ reset_cur' = u
        <4>1. closing[u] /\ u # new[r]
          BY <3>1, <1>0, <2>2 DEF serviceVars
        <4> QED BY <4>1, <2>2, <2>3, <2>4 DEF LbInv, LbTypeOK, ClosedByOwner, resetVars
      <3> QED BY <3>1, <2>2 DEF LbInv, ClosedByOwner, serviceVars, Running
    <2>8. NoLoopLeaked'
      <3> SUFFICES ASSUME NEW u \in Svc, Running(u)
                   PROVE  \/ \E t \in Target : cache'[t] = u
                          \/ \E q \in Request : Holds(q, u)'
                          \/ u \in reset_list'
        BY <2>2 DEF NoLoopLeaked, Running, serviceVars
      <3>1. CASE \E t \in Target : cache[t] = u
        BY <3>1, <1>1, <2>4
      <3>2. CASE \E q \in Request : Holds(q, u)
        BY <3>2, <1>0, <2>3, <2>4, <2>5
      <3>3. CASE u \in reset_list
        BY <3>3, <2>2 DEF resetVars
      <3> QED BY <3>1, <3>2, <3>3 DEF LbInv, NoLoopLeaked
    <2>9. ClosedOnce'
      BY <2>2 DEF LbInv, ClosedOnce
    <2>10. OneService'
      BY <1>0, <1>1, <2>2 DEF OneService, LbInv, LbTypeOK, Running, resetVars, serviceVars
    <2> QED BY <2>1, <2>6, <2>7, <2>8, <2>9, <2>10 DEF LbInv
  <1>2. CASE cache[req[r]] # NoSvc
    <2>1. LbTypeOK'
      BY <1>0, <1>2, ZenonT(30) DEF LbInv, LbTypeOK, LbPc, Insert, NoSvc, At, Goto, registryVars, serviceVars, requestVars, resetVars
    <2>2. /\ svc' = [svc EXCEPT ![r] = cache[req[r]]]
          /\ pc' = [pc EXCEPT ![r] = "close"]
          /\ UNCHANGED <<cache, serviceVars, req, new, resetVars, panicked>>
      BY <1>2 DEF Insert, NoSvc, At, Goto, registryVars, serviceVars, requestVars, resetVars
    <2>3. pc[r] = "insert"
      BY DEF Insert, NoSvc, At, Goto, registryVars, serviceVars, requestVars, resetVars
    <2>4. \A q \in Request : \A u : Holds(q, u)' <=> Holds(q, u)
      BY <2>2, <2>3 DEF Holds, LbInv, LbTypeOK
    <2>5. Numbered' /\ CachedOnce' /\ HeldOnce' /\ ListedOnly' /\ ResetSteps'
      BY <2>2, <2>4 DEF Numbered, CachedOnce, HeldOnce, ListedOnly, ResetSteps, LbInv, OneOwner,
                        serviceVars, resetVars
    <2>6. FoundCached'
      BY <2>2 DEF FoundCached, LbInv, LbTypeOK, OneOwner, resetVars
    <2>7. ClosedByOwner'
      <3>1. \A q \in Request, u \in Svc : closing[u] /\ Holds(q, u)' => pc'[q] = "wait"
        BY <1>0, <2>2, <2>4 DEF LbInv, LbTypeOK, ClosedByOwner, Holds
      <3> QED BY <3>1, <2>2 DEF LbInv, ClosedByOwner, serviceVars, resetVars, Running
    <2>8. NoLoopLeaked' /\ ClosedOnce'
      BY <2>2, <2>4 DEF NoLoopLeaked, ClosedOnce, LbInv, Running, serviceVars, resetVars
    <2>9. OneService'
      BY <2>2 DEF OneService, LbInv, LbTypeOK, Running, resetVars, serviceVars
    <2> QED BY <2>1, <2>5, <2>6, <2>7, <2>8, <2>9 DEF LbInv, OneOwner
  <1> QED BY <1>1, <1>2

LEMMA CloseNewInv ==
    ASSUME NEW r \in Request, LbInv, CloseNew(r)
    PROVE  LbInv'
PROOF
  <1> USE SvcType, LbAssumption DEF NoSvc
  <1>0. new[r] \in Svc /\ ~ closing[new[r]] /\ new[r] <= made /\ Holds(r, new[r])
    BY OpenServices DEF LbInv, OneOwner, Numbered, Holds, CloseNew, NoSvc, At, Goto, CloseClosing, registryVars, serviceVars, requestVars, resetVars
  <1>1. LbTypeOK'
    BY <1>0 DEF LbInv, LbTypeOK, LbPc, CloseNew, NoSvc, At, Goto, CloseClosing, registryVars, serviceVars, requestVars, resetVars
  <1>2. /\ closing' = [closing EXCEPT ![new[r]] = TRUE]
        /\ pc' = [pc EXCEPT ![r] = "wait"]
        /\ pc[r] = "close"
        /\ UNCHANGED <<cache, made, loop, req, new, svc, resetVars, panicked>>
    BY <1>0 DEF CloseNew, NoSvc, At, Goto, CloseClosing, registryVars, serviceVars, requestVars, resetVars
  <1>3. \A q \in Request : \A u : Holds(q, u)' <=> Holds(q, u)
    BY <1>2 DEF Holds, LbInv, LbTypeOK
  <1>4. Numbered' /\ CachedOnce' /\ HeldOnce' /\ ListedOnly' /\ ResetSteps'
    BY <1>2, <1>3 DEF Numbered, CachedOnce, HeldOnce, ListedOnly, ResetSteps, LbInv, OneOwner, resetVars
  <1>5. FoundCached'
    BY <1>2 DEF FoundCached, LbInv, LbTypeOK, OneOwner, resetVars
  <1>6. ClosedByOwner'
    <2>1. \A u \in Svc : u > made' => loop'[u] = "none" /\ ~ closing'[u]
      <3> SUFFICES ASSUME NEW u \in Svc, u > made
                   PROVE  loop[u] = "none" /\ ~ closing'[u]
        BY <1>2
      <3>1. u # new[r]
        BY <1>0 DEF LbInv, LbTypeOK
      <3> QED BY <3>1, <1>2 DEF LbInv, LbTypeOK, ClosedByOwner
    <2>2. \A u \in 1 .. made' : ~ closing'[u] => Running(u)'
      BY <1>0, <1>2 DEF LbInv, LbTypeOK, ClosedByOwner, Running, Svc
    <2>3. ASSUME NEW u \in Svc, closing'[u]
          PROVE  /\ \A t \in Target : cache'[t] # u
                 /\ \A q \in Request : Holds(q, u)' => pc'[q] = "wait"
                 /\ u \in reset_list' => reset_pc' = "wait" /\ reset_cur' = u
      <3>1. CASE u = new[r]
        <4>1. \A t \in Target : cache'[t] # u
          BY <3>1, <1>0, <1>2 DEF LbInv, OneOwner, HeldOnce, Holds
        <4>2. \A q \in Request : Holds(q, u)' => pc'[q] = "wait"
          BY <3>1, <1>0, <1>2, <1>3 DEF LbInv, LbTypeOK, OneOwner, HeldOnce
        <4>3. u \notin reset_list'
          BY <3>1, <1>0, <1>2 DEF LbInv, OneOwner, ListedOnly, resetVars
        <4> QED BY <4>1, <4>2, <4>3
      <3>2. CASE u # new[r]
        <4>1. closing[u]
          BY <3>2, <2>3, <1>2 DEF LbInv, LbTypeOK
        <4> QED BY <4>1, <1>2, <1>3 DEF LbInv, LbTypeOK, ClosedByOwner, resetVars
      <3> QED BY <3>1, <3>2
    <2> QED BY <2>1, <2>2, <2>3 DEF ClosedByOwner
  <1>7. NoLoopLeaked' /\ ClosedOnce'
    BY <1>2, <1>3 DEF NoLoopLeaked, ClosedOnce, LbInv, Running, resetVars
  <1>8. OneService'
    BY <1>2 DEF OneService, LbInv, LbTypeOK, Running, resetVars
  <1> QED BY <1>1, <1>4, <1>5, <1>6, <1>7, <1>8 DEF LbInv, OneOwner

LEMMA NewClosedInv ==
    ASSUME NEW r \in Request, LbInv, NewClosed(r)
    PROVE  LbInv'
PROOF
  <1> USE AnyTargetType, SvcType, LbAssumption
      DEF LbInv, NewClosed, NoSvc, At, Goto, registryVars, serviceVars, requestVars, resetVars
  <1>1. LbTypeOK'
    BY DEF LbTypeOK, LbPc
  <1>2. OneOwner'
    BY DEF OneOwner, Numbered, CachedOnce, HeldOnce, ListedOnly, ResetSteps, FoundCached, LbTypeOK, Holds
  <1>3. ClosedByOwner'
    BY DEF ClosedByOwner, OneOwner, ListedOnly, LbTypeOK, Holds, Running
  <1>4. NoLoopLeaked'
    BY DEF NoLoopLeaked, LbTypeOK, Holds, Running
  <1>5. ClosedOnce'
    BY DEF ClosedOnce
  <1>6. OneService'
    BY OpenServices DEF OneService, LbTypeOK, OneOwner, FoundCached, Running
  <1> QED BY <1>1, <1>2, <1>3, <1>4, <1>5, <1>6 DEF LbInv

LEMMA PickInv ==
    ASSUME NEW r \in Request, LbInv, Pick(r)
    PROVE  LbInv'
PROOF
  <1> USE AnyTargetType, SvcType, LbAssumption
      DEF LbInv, Pick, NoSvc, At, Goto, Done, registryVars, serviceVars, requestVars, resetVars
  <1>1. LbTypeOK'
    BY DEF LbTypeOK, LbPc
  <1>2. OneOwner'
    BY DEF OneOwner, Numbered, CachedOnce, HeldOnce, ListedOnly, ResetSteps, FoundCached, LbTypeOK, Holds
  <1>3. ClosedByOwner'
    BY DEF ClosedByOwner, OneOwner, ListedOnly, LbTypeOK, Holds, Running
  <1>4. NoLoopLeaked'
    BY DEF NoLoopLeaked, LbTypeOK, Holds, Running
  <1>5. ClosedOnce'
    BY DEF ClosedOnce
  <1>6. OneService'
    BY DEF OneService, LbTypeOK, OneOwner, FoundCached, Running
  <1> QED BY <1>1, <1>2, <1>3, <1>4, <1>5, <1>6 DEF LbInv

LEMMA LoopFetchInv ==
    ASSUME NEW s \in Svc, LbInv, LoopFetch(s)
    PROVE  LbInv'
PROOF
  <1> USE AnyTargetType, SvcType, LbAssumption
      DEF LbInv, LoopFetch, NoSvc, LoopAt, registryVars, serviceVars, requestVars, resetVars
  <1>1. LbTypeOK'
    BY DEF LbTypeOK, LbPc
  <1>2. OneOwner'
    BY DEF OneOwner, Numbered, CachedOnce, HeldOnce, ListedOnly, ResetSteps, FoundCached, LbTypeOK, Holds
  <1>3. ClosedByOwner'
    BY DEF ClosedByOwner, OneOwner, ListedOnly, LbTypeOK, Holds, Running
  <1>4. NoLoopLeaked'
    BY DEF NoLoopLeaked, LbTypeOK, Holds, Running
  <1>5. ClosedOnce'
    BY DEF ClosedOnce
  <1>6. OneService'
    BY DEF OneService, LbTypeOK, OneOwner, FoundCached, Running
  <1> QED BY <1>1, <1>2, <1>3, <1>4, <1>5, <1>6 DEF LbInv

LEMMA LoopStoreInv ==
    ASSUME NEW s \in Svc, LbInv, LoopStore(s)
    PROVE  LbInv'
PROOF
  <1> USE AnyTargetType, SvcType, LbAssumption
      DEF LbInv, LoopStore, NoSvc, LoopAt, registryVars, serviceVars, requestVars, resetVars
  <1>1. LbTypeOK'
    BY DEF LbTypeOK, LbPc
  <1>2. OneOwner'
    BY DEF OneOwner, Numbered, CachedOnce, HeldOnce, ListedOnly, ResetSteps, FoundCached, LbTypeOK, Holds
  <1>3. ClosedByOwner'
    BY DEF ClosedByOwner, OneOwner, ListedOnly, LbTypeOK, Holds, Running
  <1>4. NoLoopLeaked'
    BY DEF NoLoopLeaked, LbTypeOK, Holds, Running
  <1>5. ClosedOnce'
    BY DEF ClosedOnce
  <1>6. OneService'
    BY DEF OneService, LbTypeOK, OneOwner, FoundCached, Running
  <1> QED BY <1>1, <1>2, <1>3, <1>4, <1>5, <1>6 DEF LbInv

LEMMA LoopEndInv ==
    ASSUME NEW s \in Svc, LbInv, LoopEnd(s)
    PROVE  LbInv'
PROOF
  <1> USE AnyTargetType, SvcType, LbAssumption
      DEF LbInv, LoopEnd, NoSvc, LoopAt, registryVars, serviceVars, requestVars, resetVars
  <1>1. LbTypeOK'
    BY DEF LbTypeOK, LbPc
  <1>2. OneOwner'
    BY DEF OneOwner, Numbered, CachedOnce, HeldOnce, ListedOnly, ResetSteps, FoundCached, LbTypeOK, Holds
  <1>3. ClosedByOwner'
    BY DEF ClosedByOwner, OneOwner, ListedOnly, LbTypeOK, Holds, Running
  <1>4. NoLoopLeaked'
    BY DEF NoLoopLeaked, LbTypeOK, Holds, Running
  <1>5. ClosedOnce'
    BY DEF ClosedOnce
  <1>6. OneService'
    <2>1. \A q \in Request : resets = 0 /\ pc[q] = "pick" => svc[q] \in Svc /\ svc[q] # s
      BY DEF LbTypeOK, OneOwner, FoundCached, ClosedByOwner
    <2> QED BY <2>1 DEF OneService, LbTypeOK, Running
  <1> QED BY <1>1, <1>2, <1>3, <1>4, <1>5, <1>6 DEF LbInv

LEMMA ResetInv ==
    ASSUME LbInv, Reset
    PROVE  LbInv'
PROOF
  <1> USE AnyTargetType, SvcType, LbAssumption
      DEF LbInv, Reset, NoSvc, registryVars, serviceVars, requestVars, resetVars
  <1>1. LbTypeOK'
    BY DEF LbTypeOK, LbPc
  <1>2. OneOwner'
    BY DEF OneOwner, Numbered, CachedOnce, HeldOnce, ListedOnly, ResetSteps, FoundCached, LbTypeOK, Holds
  <1>3. ClosedByOwner'
    BY DEF ClosedByOwner, OneOwner, ListedOnly, LbTypeOK, Holds, Running
  <1>4. NoLoopLeaked'
    <2> SUFFICES ASSUME NEW u \in Svc, Running(u)
                 PROVE  \/ \E q \in Request : Holds(q, u)'
                        \/ u \in reset_list'
      BY DEF NoLoopLeaked, Running
    <2>1. \/ \E t \in Target : cache[t] = u
          \/ \E q \in Request : Holds(q, u)
      BY DEF NoLoopLeaked, OneOwner, ResetSteps
    <2>2. \A q \in Request : Holds(q, u) => Holds(q, u)'
      BY DEF Holds
    <2> QED BY <2>1, <2>2
  <1>5. ClosedOnce'
    BY DEF ClosedOnce
  <1>6. OneService'
    BY DEF OneService, LbTypeOK, OneOwner, FoundCached, Running
  <1> QED BY <1>1, <1>2, <1>3, <1>4, <1>5, <1>6 DEF LbInv

LEMMA ResetCloseInv ==
    ASSUME NEW s \in Svc, LbInv, ResetClose(s)
    PROVE  LbInv'
PROOF
  <1> USE SvcType, LbAssumption DEF NoSvc
  <1>0. ~ closing[s] /\ s <= made /\ s \in reset_list /\ reset_pc = "close"
    BY DEF LbInv, ClosedByOwner, OneOwner, Numbered, ResetClose, NoSvc, CloseClosing, registryVars, serviceVars, requestVars, resetVars
  <1>1. LbTypeOK'
    BY <1>0 DEF LbInv, LbTypeOK, LbPc, ResetClose, NoSvc, CloseClosing, registryVars, serviceVars, requestVars, resetVars
  <1>2. /\ closing' = [closing EXCEPT ![s] = TRUE]
        /\ reset_pc' = "wait"
        /\ reset_cur' = s
        /\ UNCHANGED <<cache, made, loop, requestVars, reset_list, resets, panicked>>
    BY <1>0 DEF ResetClose, NoSvc, CloseClosing, registryVars, serviceVars, requestVars, resetVars
  <1>3. \A q \in Request : \A u : Holds(q, u)' <=> Holds(q, u)
    BY <1>2 DEF Holds, requestVars
  <1>4. OneOwner'
    BY <1>0, <1>2, <1>3 DEF OneOwner, Numbered, CachedOnce, HeldOnce, ListedOnly, ResetSteps,
                            FoundCached, LbInv, requestVars
  <1>5. ClosedByOwner'
    <2>1. \A u \in Svc : u > made' => loop'[u] = "none" /\ ~ closing'[u]
      <3> SUFFICES ASSUME NEW u \in Svc, u > made
                   PROVE  loop[u] = "none" /\ ~ closing'[u]
        BY <1>2
      <3>1. u # s
        BY <1>0 DEF LbInv, LbTypeOK
      <3> QED BY <3>1, <1>2 DEF LbInv, LbTypeOK, ClosedByOwner
    <2>2. \A u \in 1 .. made' : ~ closing'[u] => Running(u)'
      BY <1>0, <1>2 DEF LbInv, LbTypeOK, ClosedByOwner, Running, Svc
    <2>3. ASSUME NEW u \in Svc, closing'[u]
          PROVE  /\ \A t \in Target : cache'[t] # u
                 /\ \A q \in Request : Holds(q, u)' => pc'[q] = "wait"
                 /\ u \in reset_list' => reset_pc' = "wait" /\ reset_cur' = u
      <3>1. CASE u = s
        BY <3>1, <1>0, <1>2, <1>3 DEF LbInv, OneOwner, ListedOnly
      <3>2. CASE u # s
        <4>1. closing[u]
          BY <3>2, <2>3, <1>2 DEF LbInv, LbTypeOK
        <4>2. u \notin reset_list
          BY <4>1, <1>0 DEF LbInv, ClosedByOwner
        <4> QED BY <4>1, <4>2, <1>2, <1>3 DEF LbInv, ClosedByOwner, requestVars
      <3> QED BY <3>1, <3>2
    <2> QED BY <2>1, <2>2, <2>3 DEF ClosedByOwner
  <1>6. NoLoopLeaked' /\ ClosedOnce' /\ OneService'
    BY <1>2, <1>3 DEF NoLoopLeaked, ClosedOnce, OneService, LbInv, Running, requestVars
  <1> QED BY <1>1, <1>4, <1>5, <1>6 DEF LbInv

LEMMA ResetClosedInv ==
    ASSUME LbInv, ResetClosed
    PROVE  LbInv'
PROOF
  <1> USE AnyTargetType, SvcType, LbAssumption
      DEF LbInv, ResetClosed, NoSvc, registryVars, serviceVars, requestVars, resetVars
  <1>1. LbTypeOK'
    BY DEF LbTypeOK, LbPc
  <1>2. OneOwner'
    BY DEF OneOwner, Numbered, CachedOnce, HeldOnce, ListedOnly, ResetSteps, FoundCached, LbTypeOK, Holds
  <1>3. ClosedByOwner'
    BY DEF ClosedByOwner, OneOwner, ListedOnly, LbTypeOK, Holds, Running
  <1>4. NoLoopLeaked'
    BY DEF NoLoopLeaked, LbTypeOK, Holds, Running
  <1>5. ClosedOnce'
    BY DEF ClosedOnce
  <1>6. OneService'
    BY DEF OneService, LbTypeOK, OneOwner, FoundCached, Running
  <1> QED BY <1>1, <1>2, <1>3, <1>4, <1>5, <1>6 DEF LbInv

LEMMA ResetDoneInv ==
    ASSUME LbInv, ResetDone
    PROVE  LbInv'
PROOF
  <1> USE AnyTargetType, SvcType, LbAssumption
      DEF LbInv, ResetDone, NoSvc, registryVars, serviceVars, requestVars, resetVars
  <1>1. LbTypeOK'
    BY DEF LbTypeOK, LbPc
  <1>2. OneOwner'
    BY DEF OneOwner, Numbered, CachedOnce, HeldOnce, ListedOnly, ResetSteps, FoundCached, LbTypeOK, Holds
  <1>3. ClosedByOwner'
    BY DEF ClosedByOwner, OneOwner, ListedOnly, LbTypeOK, Holds, Running
  <1>4. NoLoopLeaked'
    BY DEF NoLoopLeaked, LbTypeOK, Holds, Running
  <1>5. ClosedOnce'
    BY DEF ClosedOnce
  <1>6. OneService'
    BY DEF OneService, LbTypeOK, OneOwner, FoundCached, Running
  <1> QED BY <1>1, <1>2, <1>3, <1>4, <1>5, <1>6 DEF LbInv

\* Every step keeps the invariant; Consul's own steps leave its variables alone.
LEMMA LbNextInv == LbInv /\ [LbNext]_lbVars => LbInv'
PROOF
  <1> SUFFICES ASSUME LbInv, [LbNext]_lbVars PROVE LbInv'
    OBVIOUS
  <1>1. ASSUME UNCHANGED <<cache, serviceVars, requestVars, resetVars, panicked>>,
               registry' \in [Target -> Lists], consul' \in BOOLEAN, changes' \in 0 .. MaxChanges
        PROVE  LbInv'
    <2> USE <1>1 DEF LbInv, serviceVars, requestVars, resetVars
    <2>1. LbTypeOK'
      BY DEF LbTypeOK
    <2>2. OneOwner' /\ ClosedByOwner'
      BY DEF OneOwner, Numbered, CachedOnce, HeldOnce, ListedOnly, ResetSteps, FoundCached,
             ClosedByOwner, Holds, Running
    <2>3. NoLoopLeaked' /\ ClosedOnce' /\ OneService'
      BY DEF NoLoopLeaked, ClosedOnce, OneService, Holds, Running
    <2> QED BY <2>1, <2>2, <2>3
  <1>2. ASSUME NEW t \in Target, NEW l \in Lists, RegistryChange(t, l)
        PROVE  LbInv'
    BY <1>1, <1>2, LbAssumption DEF RegistryChange, LbInv, LbTypeOK
  <1>3. CASE ConsulUpDown
    BY <1>1, <1>3, LbAssumption DEF ConsulUpDown, LbInv, LbTypeOK
  <1>4. ASSUME NEW r \in Request, RequestStep(r)
        PROVE  LbInv'
    BY <1>4, newServiceInv, NewServiceFailsInv, InsertInv, CloseNewInv, NewClosedInv, PickInv
       DEF RequestStep
  <1>5. ASSUME NEW s \in Svc, LoopFetch(s) \/ LoopStore(s) \/ LoopEnd(s)
        PROVE  LbInv'
    BY <1>5, LoopFetchInv, LoopStoreInv, LoopEndInv
  <1>6. CASE ResetStep
    BY <1>6, ResetCloseInv, ResetClosedInv, ResetDoneInv DEF ResetStep
  <1>7. CASE UNCHANGED lbVars
    BY <1>1, <1>7 DEF lbVars, registryVars, LbInv, LbTypeOK
  <1> QED BY <1>2, <1>3, <1>4, <1>5, <1>6, <1>7, GetServersInv, ResetInv DEF LbNext

\* The inductive invariant: a service is owned by its place in the cache, by
\* the request that made it or by Reset(), and only a waiting owner has closed it.
THEOREM LbInvariant == LbSpec => []LbInv
PROOF
  <1> QED BY LbInitInv, LbNextInv, PTL DEF LbSpec

\* No loop() goroutine is ever left running without an owner that can Close() it.
THEOREM LoopsOwned == LbSpec => []NoLoopLeaked
PROOF
  <1>1. LbInv => NoLoopLeaked
    BY DEF LbInv
  <1> QED BY <1>1, LbInvariant, PTL

\* No service is closed twice: Close() never panics on its channel.
THEOREM NeverClosedTwice == LbSpec => []ClosedOnce
PROOF
  <1>1. LbInv => ClosedOnce
    BY DEF LbInv
  <1> QED BY <1>1, LbInvariant, PTL

\* Until Reset() is called, GetServers() answers from the one cached service of
\* the target, which is being refreshed.
THEOREM AnswersFromCache == LbSpec => []OneService
PROOF
  <1>1. LbInv => OneService
    BY DEF LbInv
  <1> QED BY <1>1, LbInvariant, PTL

-----------------------------------------------------------------------------
(* The balancer: NewLeastCPUBalancer().                                    *)

\* The least of a set of numbers, for the inductions below.
LEMMA LeastNumber ==
    ASSUME NEW S, S \subseteq Nat, S # {}
    PROVE  \E i \in S : \A j \in S : i <= j
PROOF
  <1>1. PICK R : R = OpToRel(<, Nat)
    OBVIOUS
  <1>2. IsWellFoundedOn(R, Nat)
    BY <1>1, NatLessThanWellFounded
  <1>3. PICK x \in S : \A y \in S : ~ (<<y, x>> \in R)
    BY <1>2, WFMin
  <1>4. \A y \in S : ~ (y < x)
    BY <1>1, <1>3 DEF OpToRel
  <1> QED BY <1>4

\* minServer and minCPU before the loop.
NoneYet == [server |-> Nil, cpu |-> 0]

\* f gives minServer and minCPU after each of the first n turns.
IsTurns(f, s, n) ==
    f = [i \in 0 .. n |-> IF i = 0 THEN NoneYet ELSE Better(f[i - 1], s[i])]

\* The loop has a value after every turn, by induction on the turns.
LEMMA TurnsExist ==
    ASSUME NEW s, Len(s) \in Nat
    PROVE  \E f : IsTurns(f, s, Len(s))
PROOF
  <1>1. PICK bad : bad = {n \in 0 .. Len(s) : ~ \E f : IsTurns(f, s, n)}
    OBVIOUS
  <1>2. SUFFICES ASSUME bad # {} PROVE FALSE
    BY <1>1
  <1>a. bad \subseteq Nat
    BY <1>1
  <1>3. PICK n \in bad : \A m \in bad : n <= m
    BY ONLY <1>a, <1>2, LeastNumber
  <1>4. n \in 0 .. Len(s) /\ ~ \E f : IsTurns(f, s, n)
    BY <1>1
  <1>5. CASE n = 0
    <2>1. PICK f : f = [i \in 0 .. 0 |-> NoneYet]
      OBVIOUS
    <2>2. IsTurns(f, s, 0)
      BY <2>1 DEF IsTurns
    <2> QED BY <1>4, <1>5, <2>2
  <1>6. CASE n # 0
    <2>1. n - 1 \in 0 .. Len(s) /\ n - 1 \notin bad
      BY <1>3, <1>4, <1>6
    <2>2. PICK f : IsTurns(f, s, n - 1)
      BY <1>1, <2>1
    <2>3. PICK g : g = [i \in 0 .. n |-> IF i = n THEN Better(f[n - 1], s[n]) ELSE f[i]]
      OBVIOUS
    <2>4. PICK h : h = [i \in 0 .. n |-> IF i = 0 THEN NoneYet ELSE Better(g[i - 1], s[i])]
      OBVIOUS
    <2>5. ASSUME NEW i \in 0 .. n PROVE g[i] = h[i]
      <3>1. CASE i = n
        BY <1>4, <1>6, <2>3, <2>4, <3>1
      <3>2. CASE i # n /\ i = 0
        BY <1>4, <1>6, <2>2, <2>3, <2>4, <3>2 DEF IsTurns
      <3>3. CASE i # n /\ i # 0
        <4>1. i \in 0 .. (n - 1) /\ i - 1 \in 0 .. n /\ i - 1 # n
          BY <1>4, <3>3
        <4>2. g[i] = f[i] /\ g[i - 1] = f[i - 1]
          BY <2>3, <3>3, <4>1
        <4>3. f[i] = Better(f[i - 1], s[i])
          BY <2>2, <3>3, <4>1 DEF IsTurns
        <4> QED BY <2>4, <3>3, <4>2, <4>3
      <3> QED BY <3>1, <3>2, <3>3
    <2>6. g = h
      BY <2>3, <2>4, <2>5
    <2>7. IsTurns(g, s, n)
      BY <2>4, <2>6 DEF IsTurns
    <2> QED BY <1>4, <2>7
  <1> QED BY <1>5, <1>6

\* So Turns is what its recursive definition says.
LEMMA TurnsDef ==
    ASSUME NEW s, Len(s) \in Nat
    PROVE  IsTurns(Turns(s), s, Len(s))
PROOF
  <1>1. Turns(s) = CHOOSE f : IsTurns(f, s, Len(s))
    BY DEF Turns, IsTurns, NoneYet
  <1>2. \E f : IsTurns(f, s, Len(s))
    BY TurnsExist
  <1> QED BY <1>1, <1>2

\* What the loop has found in the first i servers: nothing, the first server
\* without tags, or one with the least load.
Found(b, s, i) ==
    \/ b = NoneYet /\ \A j \in 1 .. i : s[j].tag = "other"
    \/ \E k \in 1 .. i : /\ s[k].tag = "none" /\ b = [server |-> s[k], cpu |-> MaxFloat]
                         /\ \A j \in 1 .. i : s[j].tag # "cpu"
    \/ \E k \in 1 .. i : /\ s[k].tag = "cpu" /\ b = [server |-> s[k], cpu |-> s[k].cpu]
                         /\ \A j \in 1 .. i : s[j].tag = "cpu" => s[k].cpu <= s[j].cpu

\* One turn of the loop takes the next server into account.
LEMMA BetterFinds ==
    ASSUME NEW s, NEW n \in Nat, NEW i \in 1 .. n, \A j \in 1 .. n : s[j] \in Server,
           NEW b, Found(b, s, i - 1)
    PROVE  Found(Better(b, s[i]), s, i)
PROOF
  <1>1. \A j \in 1 .. n : /\ s[j].tag \in {"none", "cpu", "other"}
                          /\ s[j].cpu \in Nat /\ s[j].cpu < MaxFloat /\ s[j] # Nil
    BY ListsAssumption DEF Server, Nil
  <1>2. MaxFloat \in Nat
    BY ListsAssumption
  <1>3. \A j : j \in 1 .. i <=> j \in 1 .. (i - 1) \/ j = i
    OBVIOUS
  <1>4. i \in 1 .. n /\ i \in 1 .. i /\ (\A k \in 1 .. (i - 1) : k \in 1 .. n)
    OBVIOUS
  <1>5. CASE b = NoneYet /\ \A j \in 1 .. (i - 1) : s[j].tag = "other"
    <2>1. CASE s[i].tag = "none"
      <3>1. Better(b, s[i]) = [server |-> s[i], cpu |-> MaxFloat]
        BY <1>5, <2>1 DEF Better, NoneYet
      <3> QED BY <1>1, <1>3, <1>4, <1>5, <2>1, <3>1 DEF Found
    <2>2. CASE s[i].tag = "cpu"
      <3>1. Better(b, s[i]) = [server |-> s[i], cpu |-> s[i].cpu]
        BY <1>5, <2>2 DEF Better, NoneYet
      <3> QED BY <1>1, <1>3, <1>4, <1>5, <2>2, <3>1 DEF Found
    <2>3. CASE s[i].tag = "other"
      <3>1. Better(b, s[i]) = b
        BY <2>3 DEF Better
      <3> QED BY <1>3, <1>5, <2>3, <3>1 DEF Found
    <2> QED BY <1>1, <1>4, <2>1, <2>2, <2>3
  <1>6. ASSUME NEW k \in 1 .. (i - 1), s[k].tag = "none", b = [server |-> s[k], cpu |-> MaxFloat],
               \A j \in 1 .. (i - 1) : s[j].tag # "cpu"
        PROVE  Found(Better(b, s[i]), s, i)
    <2>1. b.server # Nil /\ b.cpu = MaxFloat /\ MaxFloat > s[i].cpu /\ k \in 1 .. i
      BY <1>1, <1>2, <1>3, <1>4, <1>6
    <2>2. CASE s[i].tag = "cpu"
      <3>1. Better(b, s[i]) = [server |-> s[i], cpu |-> s[i].cpu]
        BY <2>1, <2>2 DEF Better
      <3> QED BY <1>1, <1>3, <1>4, <1>6, <2>2, <3>1 DEF Found
    <2>3. CASE s[i].tag # "cpu"
      <3>1. Better(b, s[i]) = b
        BY <2>1, <2>3 DEF Better
      <3> QED BY <1>3, <1>6, <2>1, <2>3, <3>1 DEF Found
    <2> QED BY <2>2, <2>3
  <1>7. ASSUME NEW k \in 1 .. (i - 1), s[k].tag = "cpu", b = [server |-> s[k], cpu |-> s[k].cpu],
               \A j \in 1 .. (i - 1) : s[j].tag = "cpu" => s[k].cpu <= s[j].cpu
        PROVE  Found(Better(b, s[i]), s, i)
    <2>1. b.server # Nil /\ b.cpu = s[k].cpu /\ k \in 1 .. i /\ s[k].cpu \in Nat /\ s[i].cpu \in Nat
      BY <1>1, <1>3, <1>4, <1>7
    <2>2. CASE s[i].tag = "cpu" /\ s[k].cpu > s[i].cpu
      <3>1. Better(b, s[i]) = [server |-> s[i], cpu |-> s[i].cpu]
        BY <2>1, <2>2 DEF Better
      <3>2. \A j \in 1 .. i : s[j].tag = "cpu" => s[i].cpu <= s[j].cpu
        BY <1>1, <1>3, <1>4, <1>7, <2>1, <2>2
      <3> QED BY <1>4, <2>2, <3>1, <3>2 DEF Found
    <2>3. CASE ~ (s[i].tag = "cpu" /\ s[k].cpu > s[i].cpu)
      <3>1. Better(b, s[i]) = b
        BY <2>1, <2>3 DEF Better
      <3>2. \A j \in 1 .. i : s[j].tag = "cpu" => s[k].cpu <= s[j].cpu
        BY <1>1, <1>3, <1>4, <1>7, <2>1, <2>3
      <3> QED BY <1>7, <2>1, <3>1, <3>2 DEF Found
    <2> QED BY <2>2, <2>3
  <1> QED BY <1>5, <1>6, <1>7 DEF Found

\* After every turn the loop has found the best of the servers it has seen.
LEMMA TurnsFind ==
    ASSUME NEW s \in Seq(Server), NEW m \in 0 .. Len(s)
    PROVE  Found(Turns(s)[m], s, m)
PROOF
  <1>1. Len(s) \in Nat /\ \A j \in 1 .. Len(s) : s[j] \in Server
    OBVIOUS
  <1>2. PICK f : f = Turns(s)
    OBVIOUS
  <1>3. IsTurns(f, s, Len(s))
    BY ONLY <1>1, <1>2, TurnsDef
  <1>4. PICK bad : bad = {i \in 0 .. Len(s) : ~ Found(f[i], s, i)}
    OBVIOUS
  <1>5. SUFFICES ASSUME bad # {} PROVE FALSE
    BY <1>2, <1>4
  <1>6. bad \subseteq Nat
    BY <1>1, <1>4
  <1>7. PICK i \in bad : \A j \in bad : i <= j
    BY ONLY <1>5, <1>6, LeastNumber
  <1>8. i \in 0 .. Len(s) /\ ~ Found(f[i], s, i)
    BY <1>4
  <1>9. CASE i = 0
    <2>1. f[0] = NoneYet
      BY <1>1, <1>3 DEF IsTurns
    <2>2. Found(NoneYet, s, 0)
      BY DEF Found
    <2> QED BY <1>8, <1>9, <2>1, <2>2
  <1>10. CASE i # 0
    <2>1. i \in 1 .. Len(s) /\ i - 1 \in 0 .. Len(s) /\ i - 1 \notin bad
      BY <1>1, <1>7, <1>8, <1>10
    <2>2. Found(f[i - 1], s, i - 1)
      BY <1>4, <2>1
    <2>3. f[i] = Better(f[i - 1], s[i])
      BY <1>3, <1>8, <1>10 DEF IsTurns
    <2>4. Found(Better(f[i - 1], s[i]), s, i)
      BY ONLY <1>1, <2>1, <2>2, BetterFinds
    <2> QED BY <1>8, <2>3, <2>4
  <1> QED BY <1>9, <1>10

\* The balancer returns the least loaded server of every list of servers.
LEMMA BalanceIsLeast ==
    ASSUME NEW s \in Seq(Server)
    PROVE  IsLeast(Balance(s), s)
PROOF
  <1>1. Len(s) \in Nat /\ DOMAIN s = 1 .. Len(s) /\ Len(s) \in 0 .. Len(s)
    OBVIOUS
  <1>2. PICK b : b = Turns(s)[Len(s)]
    OBVIOUS
  <1>3. Found(b, s, Len(s))
    BY ONLY <1>1, <1>2, TurnsFind, s \in Seq(Server)
  <1>4. Balance(s) = b.server
    BY <1>2 DEF Balance
  <1> DEFINE loads == {i \in DOMAIN s : s[i].tag = "cpu"}
             untagged == {i \in DOMAIN s : s[i].tag = "none"}
  <1>5. CASE b = NoneYet /\ \A j \in 1 .. Len(s) : s[j].tag = "other"
    <2>1. loads = {} /\ untagged = {}
      BY <1>1, <1>5
    <2>2. b.server = Nil
      BY <1>5 DEF NoneYet
    <2> QED BY <1>4, <2>1, <2>2 DEF IsLeast
  <1>6. ASSUME NEW k \in 1 .. Len(s), s[k].tag = "none", b = [server |-> s[k], cpu |-> MaxFloat],
               \A j \in 1 .. Len(s) : s[j].tag # "cpu"
        PROVE  IsLeast(Balance(s), s)
    <2>1. loads = {} /\ k \in untagged
      BY <1>1, <1>6
    <2>2. s[k] = Balance(s)
      BY <1>4, <1>6
    <2> QED BY <2>1, <2>2 DEF IsLeast
  <1>7. ASSUME NEW k \in 1 .. Len(s), s[k].tag = "cpu", b = [server |-> s[k], cpu |-> s[k].cpu],
               \A j \in 1 .. Len(s) : s[j].tag = "cpu" => s[k].cpu <= s[j].cpu
        PROVE  IsLeast(Balance(s), s)
    <2>1. k \in loads /\ \A j \in loads : s[k].cpu <= s[j].cpu
      BY <1>1, <1>7
    <2>2. s[k] = Balance(s)
      BY <1>4, <1>7
    <2> QED BY <2>1, <2>2 DEF IsLeast
  <1> QED BY <1>3, <1>5, <1>6, <1>7 DEF Found

\* Whatever Consul reports and however the services' endpoints are refreshed,
\* NewLeastCPUBalancer() picks the least loaded server of a service.
THEOREM LeastLoadedPicked == LbSpec => []BalanceLeast
PROOF
  <1>1. LbInv => BalanceLeast
    <2> SUFFICES ASSUME LbInv, NEW s \in Svc PROVE IsLeast(Balance(endpoints[s]), endpoints[s])
      BY DEF BalanceLeast
    <2>1. endpoints[s] \in Seq(Server)
      BY ListsAssumption DEF LbInv, LbTypeOK
    <2> QED BY <2>1, BalanceIsLeast
  <1> QED BY <1>1, LbInvariant, PTL
=============================================================================
