--------------------------- MODULE IdentityProofs ---------------------------
(***************************************************************************)
(* The AMF never exits over an identifier it does not know: IdInv is an    *)
(* invariant of Core5G, for every number of UEs, runs of the simulator,    *)
(* workers and threads, and every number of faults.                        *)
(*                                                                         *)
(* Every step of a UE thread or of a worker is about one connection.  The  *)
(* proof therefore looks at what the step does to that connection (ConnOK) *)
(* and to the identifiers the connection uses; Frame and KeepIds carry the *)
(* rest over.                                                              *)
(***************************************************************************)
EXTENDS Core5GProofs

\* AnswersInStep for one connection.
Answer(c) == ~ NoDown(c) => Len(down[c]) = 1 /\ down[c][1].type = Expected(ran_pc[c])

\* What the invariant says of connection c apart from the identifiers.
ConnOK(c) ==
    /\ RanTurn(c)
    /\ Answer(c)
    /\ \A w \in Worker : Busy(w, c) => owner[c] = w /\ WorkerTurn(w, c)

\* A step that is about connection c leaves the others alone.
OthersSame(c) ==
    /\ \A d \in Conn : d # c =>
        /\ up'[d] = up[d] /\ down'[d] = down[d] /\ conn'[d] = conn[d]
        /\ ran_pc'[d] = ran_pc[d] /\ ran_ctx'[d] = ran_ctx[d] /\ owner'[d] = owner[d]
    /\ \A w \in Worker, d \in Conn : (d # c /\ Busy(w, d)') =>
        /\ Busy(w, d)
        /\ amf_pc'[w] = amf_pc[w] /\ amf_id'[w] = amf_id[w]

-----------------------------------------------------------------------------
LEMMA ExpectedTypes ==
    /\ Expected("autn") = 1 /\ Expected("security") = 2 /\ Expected("session") = 3
    /\ Expected("detach") = 5 /\ Expected("start") = 0 /\ Expected("loop") = 0
    /\ Expected("data") = 0 /\ Expected("dead") = 0
PROOF BY DEF Expected

LEMMA NonEmpty ==
    ASSUME NEW s \in Seq(S1apMsg)
    PROVE  /\ Len(s) \in Nat /\ (s = <<>> <=> Len(s) = 0)
           /\ Len(s) # 0 => Head(s) = s[1]
           /\ \A k \in 1 .. Len(s) : s[k] \in S1apMsg /\ s[k].type \in 1 .. 5 /\ s[k].id \in MmeId
PROOF
  <1>1. Len(s) \in Nat /\ (s = <<>> <=> Len(s) = 0) /\ (Len(s) # 0 => Head(s) = s[1])
    OBVIOUS
  <1>2. \A k \in 1 .. Len(s) : s[k] \in S1apMsg
    OBVIOUS
  <1>3. \A m \in S1apMsg : m.type \in 1 .. 5 /\ m.id \in MmeId
    BY DEF S1apMsg
  <1> QED BY <1>1, <1>2, <1>3

\* No UE has a zero guti.
LEMMA GutiNonZero == \A n \in RanNum : Guti(n) \in Nat \ {0}
PROOF
  <1> TAKE n \in RanNum
  <1>1. n \in Nat
    BY LinksAssumption, TelecomAssumption
  <1>2. PLMN_ID * MSISDN_RANGE \in Nat
    BY TelecomAssumption
  <1>3. GUMMEI * IMSI_RANGE \in Nat
    BY TelecomAssumption
  <1> DEFINE x == PLMN_ID * MSISDN_RANGE
             y == GUMMEI * IMSI_RANGE
  <1>4. Guti(n) = y + (x + (MSISDN_BASE + n))
    BY DEF Guti, get_guti, Imsi, get_imsi, get_msisdn
  <1>5. x \in Nat /\ y \in Nat
    BY <1>2, <1>3
  <1> HIDE DEF x, y
  <1> QED BY <1>1, <1>4, <1>5, TelecomAssumption

\* The invariant, connection by connection.
LEMMA ByConnection ==
    ASSUME TypeOK
    PROVE  (AnswersInStep /\ Conversation) <=> \A c \in Conn : ConnOK(c)
PROOF
  <1>1. \A c \in Conn : down[c] \in Seq(S1apMsg)
    BY DEF TypeOK, LinksTypeOK
  <1>2. AnswersInStep <=> \A c \in Conn : Answer(c)
    BY <1>1, NonEmpty DEF AnswersInStep, Answer, NoDown
  <1> QED BY <1>2 DEF Conversation, ConnOK

LEMMA Frame ==
    ASSUME IdInv, NEW c \in Conn, OthersSame(c), ConnOK(c)', TypeOK'
    PROVE  /\ AnswersInStep' /\ Conversation'
           /\ \A d \in Conn, i \in MmeId : (d # c /\ Uses(d, i)') => Uses(d, i)
PROOF
  <1>1. \A d \in Conn : ConnOK(d)
    BY ByConnection DEF IdInv
  <1>2. ASSUME NEW d \in Conn, d # c
        PROVE  ConnOK(d)'
    <2>1. /\ up'[d] = up[d] /\ down'[d] = down[d] /\ conn'[d] = conn[d]
          /\ ran_pc'[d] = ran_pc[d] /\ owner'[d] = owner[d]
      BY <1>2 DEF OthersSame
    <2>2. RanTurn(d)'
      BY <1>1, <2>1 DEF ConnOK, RanTurn, NoUp, OneUp, TwoUp, NoDown
    <2>3. Answer(d)'
      BY <1>1, <2>1 DEF ConnOK, Answer, NoDown
    <2>4. ASSUME NEW w \in Worker, Busy(w, d)'
          PROVE  owner'[d] = w /\ WorkerTurn(w, d)'
      <3>1. Busy(w, d) /\ amf_pc'[w] = amf_pc[w]
        BY <1>2, <2>4 DEF OthersSame
      <3> QED BY <1>1, <2>1, <3>1 DEF ConnOK, WorkerTurn, NoUp, OneUp, NoDown
    <2> QED BY <2>2, <2>3, <2>4 DEF ConnOK
  <1>3. \A d \in Conn : ConnOK(d)'
    BY <1>2
  <1>4. AnswersInStep' /\ Conversation'
    <2>1. \A d \in Conn : down'[d] \in Seq(S1apMsg)
      BY DEF TypeOK, LinksTypeOK
    <2>2. AnswersInStep'
      BY <1>3, <2>1, NonEmpty DEF AnswersInStep, ConnOK, Answer, NoDown
    <2>3. Conversation'
      BY <1>3 DEF Conversation, ConnOK
    <2> QED BY <2>2, <2>3
  <1>5. ASSUME NEW d \in Conn, NEW i \in MmeId, d # c, Uses(d, i)'
        PROVE  Uses(d, i)
    <2>1. /\ up'[d] = up[d] /\ down'[d] = down[d]
          /\ ran_pc'[d] = ran_pc[d] /\ ran_ctx'[d] = ran_ctx[d]
      BY <1>5 DEF OthersSame
    <2>2. \A w \in Worker : Busy(w, d)' => Busy(w, d) /\ amf_pc'[w] = amf_pc[w] /\ amf_id'[w] = amf_id[w]
      BY <1>5 DEF OthersSame
    <2> QED BY <1>5, <2>1, <2>2 DEF Uses, NoDown
  <1> QED BY <1>4, <1>5

\* A step about c that brings no identifier into use and leaves the table alone.
LEMMA KeepIds ==
    ASSUME IdInv, NEW c \in Conn, OthersSame(c), ConnOK(c)', TypeInv', NoAmfExit',
           \A i \in MmeId : Uses(c, i)' => Uses(c, i),
           UNCHANGED <<ue_count, s1amf_id>>
    PROVE  IdInv'
PROOF
  <1>1. TypeOK' /\ AttachImsi'
    BY DEF TypeInv
  <1>2. /\ AnswersInStep' /\ Conversation'
        /\ \A d \in Conn, i \in MmeId : (d # c /\ Uses(d, i)') => Uses(d, i)
    BY <1>1, Frame
  <1>3. \A d \in Conn, i \in MmeId : Uses(d, i)' => Uses(d, i)
    BY <1>2
  <1>4. OwnIds
    BY DEF IdInv
  <1>5. \A d \in Conn, i \in MmeId : Mapped(d, i)' <=> Mapped(d, i)
    BY DEF Mapped
  <1>6. OwnIds'
    <2>1. ASSUME NEW d \in Conn, NEW i \in MmeId, Uses(d, i)'
          PROVE  Mapped(d, i)'
      BY <1>3, <1>4, <1>5, <2>1 DEF OwnIds
    <2>2. ASSUME NEW d \in Conn, NEW e \in Conn, NEW i \in MmeId, Uses(d, i)', Uses(e, i)'
          PROVE  d = e
      BY <1>3, <1>4, <2>2 DEF OwnIds
    <2> QED BY <2>1, <2>2 DEF OwnIds
  <1> QED BY <1>1, <1>2, <1>6 DEF IdInv
-----------------------------------------------------------------------------
(***************************************************************************)
(* Steps of the UE threads.                                                *)
(***************************************************************************)

\* A UE thread leaves the AMF and the other connections alone.
LEMMA RanFrame ==
    ASSUME IdInv, NEW c \in Conn, RanStep(c)
    PROVE  /\ OthersSame(c) /\ NoAmfExit' /\ TypeInv' /\ UNCHANGED <<ue_count, s1amf_id>>
           /\ \A w \in Worker : (Busy(w, c)' <=> Busy(w, c)) /\ amf_pc'[w] = amf_pc[w]
                                /\ amf_id'[w] = amf_id[w]
           /\ owner' = owner
PROOF
  <1>1. TypeInv
    BY DEF IdInv, TypeInv
  <1>2. TypeInv'
    BY <1>1, RanTypes
  <1>3. /\ UNCHANGED <<owner, ue_count, s1amf_id, amf_pc, amf_conn, amf_id>>
    BY DEF RanStep, sctpVars, amfVars, amfTables, amfLocals
  <1>4. \A w \in Worker, d \in Conn : Busy(w, d)' <=> Busy(w, d)
    BY <1>3 DEF Busy
  <1>5. NoAmfExit'
    BY DEF IdInv, NoAmfExit, RanStep, RanThread, conn_mme, initial_attach, authenticate,
           set_security, set_eps_session, detach_req, detach_rsp
  <1>6. /\ up \in [Conn -> Seq(S1apMsg)] /\ down \in [Conn -> Seq(S1apMsg)]
        /\ conn \in [Conn -> {"new", "open", "closed"}]
        /\ ran_pc \in [Conn -> RanPc] /\ ran_ctx \in [Conn -> RanCtx]
    BY <1>1 DEF TypeInv, TypeOK, LinksTypeOK, RanTypeOK
  <1>7. ASSUME NEW d \in Conn, d # c
        PROVE  /\ up'[d] = up[d] /\ down'[d] = down[d] /\ conn'[d] = conn[d]
               /\ ran_pc'[d] = ran_pc[d] /\ ran_ctx'[d] = ran_ctx[d]
    BY <1>6, <1>7 DEF RanStep, RanThread, conn_mme, initial_attach, authenticate, set_security,
                      set_eps_session, detach_req, detach_rsp, ClientSnd, Rcv
  <1>8. OthersSame(c)
    BY <1>3, <1>4, <1>7 DEF OthersSame
  <1> QED BY <1>2, <1>3, <1>4, <1>5, <1>8

\* What a packet has in its header.
LEMMA Headers ==
    ASSUME NEW t \in 1 .. 5, NEW i \in MmeId
    PROVE  S1ap(t, i) \in S1apMsg /\ S1ap(t, i).type = t /\ S1ap(t, i).id = i
PROOF
  <1>1. S1ap(t, i) \in S1apMsg
    BY Messages
  <1>2. S1ap(t, i).type = t /\ S1ap(t, i).id = i
    BY DEF S1ap
  <1> QED BY <1>1, <1>2

\* Filling in its body leaves the header as it is.
LEMMA Bodies ==
    ASSUME NEW p \in S1apMsg, NEW m, NEW u \in ImsiSet, NEW x \in GutiSet, NEW y \in TeidSet,
           NEW z \in ImsiSet,
           \/ m = [p EXCEPT !.imsi = u] \/ m = [p EXCEPT !.guti = x] \/ m = [p EXCEPT !.teid = y]
           \/ m = [p EXCEPT !.guti = x, !.teid = y, !.ip = z]
    PROVE  m \in S1apMsg /\ m.type = p.type /\ m.id = p.id
PROOF
  <1>1. CASE m = [p EXCEPT !.imsi = u]
    BY <1>1 DEF S1apMsg
  <1>2. CASE m = [p EXCEPT !.guti = x]
    BY <1>2 DEF S1apMsg
  <1>3. CASE m = [p EXCEPT !.teid = y]
    BY <1>3 DEF S1apMsg
  <1>4. CASE m = [p EXCEPT !.guti = x, !.teid = y, !.ip = z]
    BY <1>4 DEF S1apMsg
  <1> QED BY <1>1, <1>2, <1>3, <1>4

\* A UE thread that sends takes the word: nothing else is on its way.
LEMMA SendsUp ==
    ASSUME IdInv, NEW c \in Conn, NEW m \in S1apMsg, ClientSnd(c, m)
    PROVE  /\ Len(up'[c]) = Len(up[c]) + 1 /\ Len(up[c]) \in Nat
           /\ \A k \in 1 .. Len(up[c]) : up'[c][k] = up[c][k]
           /\ up'[c][Len(up[c]) + 1] = m
PROOF
  <1>1. up \in [Conn -> Seq(S1apMsg)] /\ up' = [up EXCEPT ![c] = Append(@, m)]
    BY DEF IdInv, TypeOK, LinksTypeOK, ClientSnd
  <1> QED BY <1>1, Sent, NonEmpty

LEMMA TakesDown ==
    ASSUME IdInv, NEW c \in Conn, Rcv(c)
    PROVE  /\ Head(down[c]) = down[c][1] /\ Head(down[c]) \in S1apMsg
           /\ Len(down[c]) = 1 /\ NoDown(c)'
           /\ down[c][1].type = Expected(ran_pc[c])
PROOF
  <1>1. /\ down \in [Conn -> Seq(S1apMsg)] /\ down[c] # <<>>
        /\ down' = [down EXCEPT ![c] = Tail(@)]
    BY DEF IdInv, TypeOK, LinksTypeOK, Rcv
  <1>2. /\ Head(down[c]) = down[c][1] /\ Head(down[c]) \in S1apMsg
        /\ Len(down'[c]) = Len(down[c]) - 1
    BY <1>1, Taken
  <1>3. Len(down[c]) = 1 /\ Head(down[c]).type = Expected(ran_pc[c])
    BY <1>1 DEF IdInv, AnswersInStep
  <1> QED BY <1>2, <1>3 DEF NoDown

LEMMA RanSafe ==
    ASSUME IdInv, NEW c \in Conn, RanStep(c)
    PROVE  IdInv'
PROOF
  <1> USE ExpectedTypes
  <1>1. /\ OthersSame(c) /\ NoAmfExit' /\ TypeInv' /\ UNCHANGED <<ue_count, s1amf_id, owner>>
        /\ \A w \in Worker : (Busy(w, c)' <=> Busy(w, c)) /\ amf_pc'[w] = amf_pc[w]
                             /\ amf_id'[w] = amf_id[w]
    BY RanFrame
  <1>2. SUFFICES ConnOK(c)' /\ \A i \in MmeId : Uses(c, i)' => Uses(c, i)
    BY <1>1, KeepIds
  <1>3. RanTurn(c) /\ Answer(c) /\ \A w \in Worker : Busy(w, c) => owner[c] = w /\ WorkerTurn(w, c)
    BY ByConnection DEF IdInv, ConnOK
  <1>4. /\ up[c] \in Seq(S1apMsg) /\ down[c] \in Seq(S1apMsg) /\ ran_pc \in [Conn -> RanPc]
        /\ ran_ctx \in [Conn -> RanCtx] /\ ran_ctx[c].mme_id \in MmeId
        /\ conn \in [Conn -> {"new", "open", "closed"}]
    BY DEF IdInv, TypeOK, LinksTypeOK, RanTypeOK, RanCtx
  <1>5. /\ Len(up[c]) \in Nat /\ Len(down[c]) \in Nat
        /\ ~ NoDown(c) => down[c][1].type \in 1 .. 5 /\ down[c][1].id \in MmeId
    <2>1. Len(up[c]) \in Nat /\ Len(down[c]) \in Nat
      BY <1>4, NonEmpty
    <2>2. ~ NoDown(c) => 1 \in 1 .. Len(down[c])
      BY <2>1 DEF NoDown
    <2> QED BY <1>4, <2>1, <2>2, NonEmpty
  <1>6. ran_pc[c] \in {"start", "loop", "data", "dead"} => NoDown(c)
    BY <1>3, <1>5 DEF Answer
  <1>7. conn'[c] = "open" <=> ran_pc'[c] \notin {"start", "dead"}
    <2>1. conn'[c] = "open" /\ ran_pc'[c] \notin {"start", "dead"}
      BY <1>3, <1>4 DEF RanTurn, RanStep, RanThread, conn_mme, initial_attach, authenticate,
                        set_security, set_eps_session, detach_req, detach_rsp
    <2> QED BY <2>1
  <1>8. CASE conn_mme(c)
    <2>1. /\ ran_pc[c] = "start" /\ ran_pc'[c] = "loop" /\ up'[c] = up[c] /\ down'[c] = down[c]
      BY <1>4, <1>8 DEF conn_mme
    <2>2. NoUp(c)' /\ NoDown(c)' /\ NoDown(c)
      BY <1>3, <1>6, <2>1 DEF RanTurn, NoUp, NoDown
    <2>3. \A w \in Worker : ~ Busy(w, c)
      BY <1>3, <2>1, <2>2 DEF WorkerTurn, Busy, IdInv, TypeOK, AmfTypeOK, AmfPc
    <2>4. ConnOK(c)'
      BY <1>7, <1>1, <2>1, <2>2, <2>3 DEF ConnOK, RanTurn, Answer
    <2> QED BY <1>1, <2>1, <2>2, <2>3, <2>4 DEF Uses, NoUp
  <1>9. CASE initial_attach(c)
    <2>0. PICK m : m = [S1ap(1, 0) EXCEPT !.imsi = Imsi(UeOf(c))]
      OBVIOUS
    <2>1. m \in S1apMsg /\ m.type = 1 /\ ClientSnd(c, m)
      <3>1. Imsi(UeOf(c)) \in ImsiSet /\ 0 \in MmeId
        BY IdentityTypes
      <3>2. m \in S1apMsg /\ m.type = 1
        <4>1. S1ap(1, 0) \in S1apMsg /\ S1ap(1, 0).type = 1
          BY <3>1, Headers
        <4> QED BY <2>0, <3>1, <4>1, Bodies, IdentityTypes
      <3>3. ClientSnd(c, m)
        BY <1>9, <2>0 DEF initial_attach
      <3> QED BY <3>2, <3>3
    <2>2. Len(up'[c]) = Len(up[c]) + 1 /\ up'[c][Len(up[c]) + 1] = m
      BY <2>1, SendsUp
    <2>3. ran_pc[c] = "loop" /\ ran_pc'[c] = "autn" /\ down'[c] = down[c]
      BY <1>4, <1>9 DEF initial_attach
    <2>4. OneUp(c, 1)' /\ NoDown(c)' /\ NoDown(c)
      BY <1>3, <1>6, <2>1, <2>2, <2>3 DEF RanTurn, NoUp, NoDown, OneUp
    <2>5. ASSUME NEW w \in Worker, Busy(w, c)'
          PROVE  owner'[c] = w /\ WorkerTurn(w, c)'
      BY <1>1, <1>3, <2>3, <2>4, <2>5 DEF WorkerTurn
    <2>6. ConnOK(c)'
      BY <1>7, <2>3, <2>4, <2>5 DEF ConnOK, RanTurn, Answer
    <2> QED BY <1>1, <2>3, <2>4, <2>6 DEF Uses, OneUp
  <1>10. CASE authenticate(c)
    <2> DEFINE id == Head(down[c]).id
    <2>1. /\ id = down[c][1].id /\ id \in MmeId /\ Len(down[c]) = 1 /\ NoDown(c)' /\ ~ NoDown(c)
      BY <1>5, <1>10, TakesDown DEF authenticate, NoDown
    <2>2. S1ap(2, id) \in S1apMsg /\ S1ap(2, id).type = 2 /\ S1ap(2, id).id = id /\ ClientSnd(c, S1ap(2, id))
      BY <1>10, <2>1, Messages DEF authenticate, S1ap
    <2>3. /\ Len(up'[c]) = Len(up[c]) + 1
          /\ up'[c][Len(up[c]) + 1] = S1ap(2, id)
      BY <2>2, SendsUp
    <2>4. ran_pc[c] = "autn" /\ ran_pc'[c] = "security" /\ ran_ctx'[c].mme_id = id
      BY <1>4, <1>10 DEF authenticate, RanCtx
    <2>5. NoUp(c) /\ \A w \in Worker : ~ Busy(w, c)
      BY <1>3, <2>1, <2>4 DEF RanTurn, WorkerTurn, Busy, IdInv, TypeOK, AmfTypeOK, AmfPc
    <2>6. OneUp(c, 2)' /\ up'[c][1].id = id
      BY <2>2, <2>3, <2>5 DEF OneUp, NoUp
    <2>7. ConnOK(c)'
      BY <1>7, <1>1, <2>1, <2>4, <2>5, <2>6 DEF ConnOK, RanTurn, Answer
    <2>8. Uses(c, id)
      BY <2>1, <2>4 DEF Uses
    <2>9. ASSUME NEW i \in MmeId, Uses(c, i)'
          PROVE  Uses(c, i)
      <3>1. i = id
        BY <1>1, <2>4, <2>5, <2>6, <2>9 DEF Uses, OneUp
      <3> QED BY <2>8, <3>1
    <2> QED BY <2>7, <2>9
  <1>11. CASE set_security(c)
    <2> DEFINE id == ran_ctx[c].mme_id
    <2>1. Len(down[c]) = 1 /\ NoDown(c)' /\ ~ NoDown(c)
      BY <1>11, TakesDown DEF set_security, NoDown
    <2>2. S1ap(3, id) \in S1apMsg /\ S1ap(3, id).type = 3 /\ S1ap(3, id).id = id /\ ClientSnd(c, S1ap(3, id))
      BY <1>4, <1>11, Messages DEF set_security, S1ap
    <2>3. /\ Len(up'[c]) = Len(up[c]) + 1
          /\ up'[c][Len(up[c]) + 1] = S1ap(3, id)
      BY <2>2, SendsUp
    <2>4. ran_pc[c] = "security" /\ ran_pc'[c] = "session" /\ ran_ctx'[c].mme_id = id
      BY <1>4, <1>11 DEF set_security
    <2>5. NoUp(c) /\ \A w \in Worker : ~ Busy(w, c)
      BY <1>3, <2>1, <2>4 DEF RanTurn, WorkerTurn, Busy, IdInv, TypeOK, AmfTypeOK, AmfPc
    <2>6. OneUp(c, 3)' /\ up'[c][1].id = id
      BY <2>2, <2>3, <2>5 DEF OneUp, NoUp
    <2>7. ConnOK(c)'
      BY <1>7, <1>1, <2>1, <2>4, <2>5, <2>6 DEF ConnOK, RanTurn, Answer
    <2>8. Uses(c, id)
      BY <2>4 DEF Uses
    <2>9. ASSUME NEW i \in MmeId, Uses(c, i)'
          PROVE  Uses(c, i)
      <3>1. i = id
        BY <1>1, <2>4, <2>5, <2>6, <2>9 DEF Uses, OneUp
      <3> QED BY <2>8, <3>1
    <2> QED BY <2>7, <2>9
  <1>12. CASE set_eps_session(c)
    <2> DEFINE id == ran_ctx[c].mme_id
    <2>0. PICK m : m = [S1ap(4, id) EXCEPT !.teid = Head(down[c]).teid]
      OBVIOUS
    <2>1. Len(down[c]) = 1 /\ NoDown(c)' /\ ~ NoDown(c) /\ Head(down[c]) \in S1apMsg
      BY <1>12, TakesDown DEF set_eps_session, NoDown
    <2>2. m \in S1apMsg /\ m.type = 4 /\ m.id = id /\ ClientSnd(c, m)
      <3>1. Head(down[c]).teid \in TeidSet
        BY <2>1 DEF S1apMsg
      <3>2. m \in S1apMsg /\ m.type = 4 /\ m.id = id
        <4>1. S1ap(4, id) \in S1apMsg /\ S1ap(4, id).type = 4 /\ S1ap(4, id).id = id
          BY <1>4, Headers
        <4> QED BY <2>0, <3>1, <4>1, Bodies, IdentityTypes
      <3>3. ClientSnd(c, m)
        BY <1>12, <2>0 DEF set_eps_session
      <3> QED BY <3>2, <3>3
    <2>3. Len(up'[c]) = Len(up[c]) + 1 /\ up'[c][Len(up[c]) + 1] = m
      BY <2>2, SendsUp
    <2>4. ran_pc[c] = "session" /\ ran_pc'[c] = "data" /\ ran_ctx'[c].mme_id = id
      BY <1>4, <1>12 DEF set_eps_session, RanCtx
    <2>5. NoUp(c) /\ \A w \in Worker : ~ Busy(w, c)
      BY <1>3, <2>1, <2>4 DEF RanTurn, WorkerTurn, Busy, IdInv, TypeOK, AmfTypeOK, AmfPc
    <2>6. OneUp(c, 4)' /\ up'[c][1].id = id
      BY <2>2, <2>3, <2>5 DEF OneUp, NoUp
    <2>7. ConnOK(c)'
      BY <1>7, <1>1, <2>1, <2>4, <2>5, <2>6 DEF ConnOK, RanTurn, Answer
    <2>8. Uses(c, id)
      BY <2>4 DEF Uses
    <2>9. ASSUME NEW i \in MmeId, Uses(c, i)'
          PROVE  Uses(c, i)
      <3>1. i = id
        BY <1>1, <2>4, <2>5, <2>6, <2>9 DEF Uses, OneUp
      <3> QED BY <2>8, <3>1
    <2> QED BY <2>7, <2>9
  <1>13. CASE detach_req(c)
    <2> DEFINE id == ran_ctx[c].mme_id
    <2>0. PICK m : m = [S1ap(5, id) EXCEPT !.guti = ran_ctx[c].guti]
      OBVIOUS
    <2>1. m \in S1apMsg /\ m.type = 5 /\ m.id = id /\ ClientSnd(c, m)
      <3>1. ran_ctx[c].guti \in GutiSet
        BY <1>4 DEF RanCtx
      <3>2. m \in S1apMsg /\ m.type = 5 /\ m.id = id
        <4>1. S1ap(5, id) \in S1apMsg /\ S1ap(5, id).type = 5 /\ S1ap(5, id).id = id
          BY <1>4, Headers
        <4> QED BY <2>0, <3>1, <4>1, Bodies, IdentityTypes
      <3>3. ClientSnd(c, m)
        BY <1>13, <2>0 DEF detach_req
      <3> QED BY <3>2, <3>3
    <2>2. /\ Len(up'[c]) = Len(up[c]) + 1 /\ up'[c][Len(up[c]) + 1] = m
          /\ \A k \in 1 .. Len(up[c]) : up'[c][k] = up[c][k]
      BY <2>1, SendsUp
    <2>3. ran_pc[c] = "data" /\ ran_pc'[c] = "detach" /\ down'[c] = down[c]
      BY <1>4, <1>13 DEF detach_req
    <2>4. NoDown(c)' /\ NoDown(c) /\ (NoUp(c) \/ OneUp(c, 4))
      BY <1>3, <1>6, <2>3 DEF RanTurn, NoDown
    <2>5. CASE NoUp(c)
      <3>1. OneUp(c, 5)' /\ up'[c][1].id = id
        BY <2>1, <2>2, <2>5 DEF OneUp, NoUp
      <3>2. ASSUME NEW w \in Worker, Busy(w, c)'
            PROVE  owner'[c] = w /\ WorkerTurn(w, c)'
        BY <1>1, <1>3, <2>3, <2>4, <2>5, <3>1, <3>2 DEF WorkerTurn
      <3>3. ConnOK(c)'
        BY <1>7, <2>3, <2>4, <3>1, <3>2 DEF ConnOK, RanTurn, Answer
      <3>4. Uses(c, id)
        BY <2>3 DEF Uses
      <3>5. ASSUME NEW i \in MmeId, Uses(c, i)'
            PROVE  Uses(c, i)
        <4>1. \/ i = id
              \/ \E w \in Worker : Busy(w, c) /\ amf_pc[w] # "rem_uectx" /\ amf_id[w] = i
          BY <1>1, <2>3, <3>1, <3>5 DEF Uses, OneUp
        <4> QED BY <3>4, <4>1 DEF Uses
      <3> QED BY <3>3, <3>5
    <2>6. CASE OneUp(c, 4)
      <3>1. TwoUp(c)' /\ up'[c][2].id = id /\ up'[c][1] = up[c][1]
        BY <2>1, <2>2, <2>6 DEF OneUp, TwoUp
      <3>2. \A w \in Worker : ~ Busy(w, c)
        BY <1>3, <2>3, <2>6 DEF WorkerTurn, Busy, NoUp, OneUp, IdInv, TypeOK, AmfTypeOK, AmfPc
      <3>3. ConnOK(c)'
        BY <1>7, <1>1, <2>3, <2>4, <3>1, <3>2 DEF ConnOK, RanTurn, Answer
      <3>4. Uses(c, id)
        BY <2>3 DEF Uses
      <3>5. ASSUME NEW i \in MmeId, Uses(c, i)'
            PROVE  Uses(c, i)
        <4>1. i = id \/ (up[c][1].type # 1 /\ up[c][1].id = i)
          BY <1>1, <2>3, <3>1, <3>2, <3>5 DEF Uses, TwoUp
        <4>2. 1 \in 1 .. Len(up[c])
          BY <2>6 DEF OneUp
        <4> QED BY <3>4, <4>1, <4>2 DEF Uses
      <3> QED BY <3>3, <3>5
    <2> QED BY <2>4, <2>5, <2>6
  <1>14. CASE detach_rsp(c)
    <2>1. Len(down[c]) = 1 /\ NoDown(c)' /\ ~ NoDown(c)
      BY <1>14, TakesDown DEF detach_rsp, NoDown
    <2>2. ran_pc[c] = "detach" /\ ran_pc'[c] = "loop" /\ up'[c] = up[c]
      BY <1>4, <1>14 DEF detach_rsp
    <2>3. NoUp(c) /\ NoUp(c)'
      BY <1>3, <2>1, <2>2 DEF RanTurn, NoUp
    <2>4. ASSUME NEW w \in Worker, Busy(w, c)'
          PROVE  owner'[c] = w /\ WorkerTurn(w, c)'
      <3>1. amf_pc[w] \in {"rem_itfid", "rem_uectx"}
        BY <1>1, <1>3, <2>1, <2>2, <2>4 DEF WorkerTurn, Busy, IdInv, TypeOK, AmfTypeOK, AmfPc
      <3> QED BY <1>1, <1>3, <2>1, <2>2, <2>3, <2>4, <3>1 DEF WorkerTurn
    <2>5. ConnOK(c)'
      BY <1>7, <2>1, <2>2, <2>3, <2>4 DEF ConnOK, RanTurn, Answer
    <2> QED BY <1>1, <2>1, <2>2, <2>3, <2>5 DEF Uses, NoUp
  <1> QED BY <1>8, <1>9, <1>10, <1>11, <1>12, <1>13, <1>14 DEF RanStep, RanThread
-----------------------------------------------------------------------------
(***************************************************************************)
(* A restart of the simulator concerns many connections; accepting one     *)
(* concerns only its owner.                                                *)
(***************************************************************************)
LEMMA RestartSafe ==
    ASSUME IdInv, RestartStep
    PROVE  IdInv'
PROOF
  <1>1. TypeInv'
    BY RestartTypes DEF IdInv, TypeInv
  <1>2. UNCHANGED <<up, ran_ctx, owner, ue_count, s1amf_id, amf_pc, amf_conn, amf_id, exited>>
    BY DEF RestartStep, RanRestart, sctpVars, amfVars, amfTables, amfLocals
  <1>3. \A c \in Conn : ConnOK(c)
    BY ByConnection DEF IdInv
  <1>4. \A w \in Worker, c \in Conn : Busy(w, c)' <=> Busy(w, c)
    BY <1>2 DEF Busy
  <1>5. ASSUME NEW c \in Conn
        PROVE  \/ /\ ran_pc'[c] = ran_pc[c] /\ down'[c] = down[c] /\ conn'[c] = conn[c]
               \/ /\ ran_pc'[c] = "dead" /\ down'[c] = <<>> /\ conn'[c] # "open"
    BY DEF RestartStep, RanRestart
  <1>6. \A c \in Conn : Len(<<>>) = 0 /\ up[c] \in Seq(S1apMsg) /\ ran_pc[c] \in RanPc
    BY DEF IdInv, TypeOK, LinksTypeOK, RanTypeOK
  <1>7. ASSUME NEW c \in Conn
        PROVE  /\ RanTurn(c)' /\ Answer(c)'
               /\ \A w \in Worker : Busy(w, c)' => owner'[c] = w /\ WorkerTurn(w, c)'
               /\ \A i \in MmeId : Uses(c, i)' => Uses(c, i)
    <2>1. CASE ran_pc'[c] = ran_pc[c] /\ down'[c] = down[c] /\ conn'[c] = conn[c]
      <3>1. RanTurn(c)' /\ Answer(c)'
        BY <1>2, <1>3, <2>1 DEF ConnOK, RanTurn, Answer, NoUp, OneUp, TwoUp, NoDown
      <3>2. \A w \in Worker : Busy(w, c)' => owner'[c] = w /\ WorkerTurn(w, c)'
        BY <1>2, <1>3, <1>4, <2>1 DEF ConnOK, WorkerTurn, NoUp, OneUp, NoDown
      <3>3. \A i \in MmeId : Uses(c, i)' => Uses(c, i)
        BY <1>2, <1>4, <2>1 DEF Uses, NoDown
      <3> QED BY <3>1, <3>2, <3>3
    <2>2. CASE ran_pc'[c] = "dead" /\ down'[c] = <<>> /\ conn'[c] # "open"
      <3>1. NoDown(c)' /\ (NoUp(c)' <=> NoUp(c)) /\ (TwoUp(c)' <=> TwoUp(c))
            /\ \A t \in 1 .. 5 : OneUp(c, t)' <=> OneUp(c, t)
        BY <1>2, <1>6, <2>2 DEF NoDown, NoUp, OneUp, TwoUp
      <3>2. NoUp(c) \/ TwoUp(c) \/ \E t \in 1 .. 5 : OneUp(c, t)
        BY <1>3, <1>6, ExpectedTypes DEF ConnOK, RanTurn, RanPc
      <3>3. RanTurn(c)' /\ Answer(c)'
        BY <2>2, <3>1, <3>2 DEF RanTurn, Answer
      <3>4. ASSUME NEW w \in Worker, Busy(w, c)'
            PROVE  owner'[c] = w /\ WorkerTurn(w, c)'
        <4>1. owner[c] = w /\ WorkerTurn(w, c)
          BY <1>3, <1>4, <3>4 DEF ConnOK
        <4> QED BY <1>2, <2>2, <3>1, <4>1 DEF WorkerTurn
      <3>5. \A i \in MmeId : Uses(c, i)' => Uses(c, i)
        BY <1>2, <1>4, <2>2, <3>1 DEF Uses
      <3> QED BY <3>3, <3>4, <3>5
    <2> QED BY <1>5, <2>1, <2>2
  <1>8. \A c \in Conn : down'[c] \in Seq(S1apMsg)
    BY <1>1 DEF TypeInv, TypeOK, LinksTypeOK
  <1>9. AnswersInStep'
    BY <1>7, <1>8, NonEmpty DEF AnswersInStep, Answer, NoDown
  <1>10. Conversation'
    BY <1>7 DEF Conversation
  <1>11. \A c \in Conn, i \in MmeId : Mapped(c, i)' <=> Mapped(c, i)
    BY <1>2 DEF Mapped
  <1>12. OwnIds'
    <2>1. OwnIds
      BY DEF IdInv
    <2>2. ASSUME NEW d \in Conn, NEW i \in MmeId, Uses(d, i)'
          PROVE  Mapped(d, i)'
      BY <1>7, <1>11, <2>1, <2>2 DEF OwnIds
    <2>3. ASSUME NEW d \in Conn, NEW e \in Conn, NEW i \in MmeId, Uses(d, i)', Uses(e, i)'
          PROVE  d = e
      BY <1>7, <2>1, <2>3 DEF OwnIds
    <2> QED BY <2>2, <2>3 DEF OwnIds
  <1> QED BY <1>1, <1>2, <1>9, <1>10, <1>12 DEF IdInv, TypeInv, NoAmfExit

LEMMA AcceptSafe ==
    ASSUME IdInv, NEW c \in Conn, AcceptStep(c)
    PROVE  IdInv'
PROOF
  <1>1. TypeInv'
    BY AcceptTypes DEF IdInv, TypeInv
  <1>2. /\ UNCHANGED <<up, down, conn, ran_pc, ran_ctx, ue_count, s1amf_id, exited>>
        /\ UNCHANGED <<amf_pc, amf_conn, amf_id>>
    BY DEF AcceptStep, accept_clients, linkVars, ranVars, amfVars, amfTables, amfLocals
  <1>3. /\ owner[c] = NoWorker /\ owner \in [Conn -> Worker \cup {NoWorker, NoLonger}]
        /\ owner' = [owner EXCEPT ![c] = turn]
    BY DEF AcceptStep, accept_clients, IdInv, TypeOK, SctpTypeOK
  <1>4. \A w \in Worker : w # NoWorker
    BY LinksAssumption DEF Worker, NoWorker
  <1>5. ConnOK(c)
    BY ByConnection DEF IdInv
  <1>6. \A w \in Worker : ~ Busy(w, c)
    BY <1>3, <1>4, <1>5 DEF ConnOK
  <1>7. \A w \in Worker, d \in Conn : Busy(w, d)' <=> Busy(w, d)
    BY <1>2 DEF Busy
  <1>8. OthersSame(c)
    BY <1>2, <1>3, <1>7 DEF OthersSame
  <1>9. ConnOK(c)'
    BY <1>2, <1>5, <1>6, <1>7 DEF ConnOK, RanTurn, Answer, NoUp, OneUp, TwoUp, NoDown
  <1>10. \A i \in MmeId : Uses(c, i)' => Uses(c, i)
    BY <1>2, <1>7 DEF Uses, NoDown
  <1>11. NoAmfExit'
    BY <1>2 DEF IdInv, NoAmfExit
  <1> QED BY <1>1, <1>2, <1>8, <1>9, <1>10, <1>11, KeepIds

-----------------------------------------------------------------------------
(***************************************************************************)
(* Steps that leave the conversations alone.                               *)
(***************************************************************************)
LEMMA Untouched ==
    ASSUME IdInv, TypeInv', NoAmfExit',
           UNCHANGED <<up, down, conn, ran_pc, ran_ctx, owner>>,
           UNCHANGED <<ue_count, s1amf_id, amf_pc, amf_conn, amf_id>>
    PROVE  IdInv'
PROOF
  <1>1. PICK c \in Conn : TRUE
    BY IdentityTypes
  <1>2. \A w \in Worker, d \in Conn : Busy(w, d)' <=> Busy(w, d)
    BY DEF Busy
  <1>3. OthersSame(c)
    BY <1>2 DEF OthersSame
  <1>4. ConnOK(c)
    BY ByConnection DEF IdInv
  <1>5. ConnOK(c)'
    BY <1>2, <1>4 DEF ConnOK, RanTurn, Answer, WorkerTurn, NoUp, OneUp, TwoUp, NoDown
  <1>6. \A i \in MmeId : Uses(c, i)' => Uses(c, i)
    BY <1>2 DEF Uses, NoDown
  <1> QED BY <1>3, <1>5, <1>6, KeepIds
LEMMA OtherSteps ==
    ASSUME IdInv,
           \/ LossStep
           \/ \E w \in Worker : RpcFailStep(w) \/ AusfStep(w) \/ SmfStep(w) \/ TimeoutStep(w)
           \/ \E t \in UpfThread : UpfStep(t)
    PROVE  IdInv'
PROOF
  <1>1. TypeInv
    BY DEF IdInv, TypeInv
  <1>2. CASE LossStep
    <2>1. /\ UNCHANGED <<up, down, conn, ran_pc, ran_ctx, owner>>
          /\ UNCHANGED <<ue_count, s1amf_id, amf_pc, amf_conn, amf_id, exited>>
      BY <1>2 DEF LossStep, N4Loss, ranVars, sctpVars, amfVars, amfTables, amfLocals
    <2> QED BY <1>1, <1>2, <2>1, LossTypes, Untouched DEF IdInv, NoAmfExit
  <1>3. ASSUME NEW w \in Worker, RpcFailStep(w)
        PROVE  IdInv'
    <2>1. /\ UNCHANGED <<up, down, conn, ran_pc, ran_ctx, owner>>
          /\ UNCHANGED <<ue_count, s1amf_id, amf_pc, amf_conn, amf_id, exited>>
      BY <1>3 DEF RpcFailStep, RpcFail, ranVars, amfTables, amfLocals
    <2> QED BY <1>1, <1>3, <2>1, RpcFailTypes, Untouched DEF IdInv, NoAmfExit
  <1>4. ASSUME NEW w \in Worker, AusfStep(w)
        PROVE  IdInv'
    <2>1. /\ UNCHANGED <<up, down, conn, ran_pc, ran_ctx, owner>>
          /\ UNCHANGED <<ue_count, s1amf_id, amf_pc, amf_conn, amf_id, exited>>
      BY <1>4 DEF AusfStep, AusfServer, handle_autninfo_req, SetLocDelete, SetLocInsert, ranVars,
                  sctpVars, amfVars, amfTables, amfLocals
    <2> QED BY <1>1, <1>4, <2>1, AusfTypes, Untouched DEF IdInv, NoAmfExit
  <1>5. ASSUME NEW w \in Worker, SmfStep(w)
        PROVE  IdInv'
    <2>1. /\ UNCHANGED <<up, down, conn, ran_pc, ran_ctx, owner>>
          /\ UNCHANGED <<ue_count, s1amf_id, amf_pc, amf_conn, amf_id>>
      BY <1>5 DEF SmfStep, SmfHandler, SmfCreateSession, SmfModifyBearer, SmfDetach, SmfRcv, ranVars,
                  sctpVars, amfVars, amfTables, amfLocals
    <2>2. exited' \subseteq exited \cup {"smf"}
      BY <1>5 DEF SmfStep, SmfHandler, SmfCreateSession, SmfModifyBearer, SmfDetach, SmfRcv, Request
    <2> QED BY <1>1, <1>5, <2>1, <2>2, SmfTypes, Untouched DEF IdInv, NoAmfExit
  <1>6. ASSUME NEW w \in Worker, TimeoutStep(w)
        PROVE  IdInv'
    <2>1. /\ UNCHANGED <<up, down, conn, ran_pc, ran_ctx, owner>>
          /\ UNCHANGED <<ue_count, s1amf_id, amf_pc, amf_conn, amf_id, exited>>
      BY <1>6 DEF TimeoutStep, N4Timeout, SmfTimeout, ranVars, sctpVars, amfVars, amfTables, amfLocals
    <2> QED BY <1>1, <1>6, <2>1, TimeoutTypes, Untouched DEF IdInv, NoAmfExit
  <1>7. ASSUME NEW t \in UpfThread, UpfStep(t)
        PROVE  IdInv'
    <2>1. /\ UNCHANGED <<up, down, conn, ran_pc, ran_ctx, owner>>
          /\ UNCHANGED <<ue_count, s1amf_id, amf_pc, amf_conn, amf_id>>
      BY <1>7 DEF UpfStep, N4Thread, CreateS11, CreateS1, CreateSgi, CreateCtx, LookupModify,
                  LookupDetach, Lookup, ModifyCtx, DetachCtx, RemS11, RemS1, RemSgi, RemCtx,
                  linkVars, ranVars, sctpVars, amfVars, amfTables, amfLocals
    <2>2. exited' \subseteq exited \cup {"upf"}
      BY <1>7 DEF UpfStep, N4Thread, CreateS11, CreateS1, CreateSgi, CreateCtx, LookupModify,
                  LookupDetach, Lookup, ModifyCtx, DetachCtx, RemS11, RemS1, RemSgi, RemCtx, linkVars
    <2> QED BY <1>1, <1>7, <2>1, <2>2, UpfTypes, Untouched DEF IdInv, NoAmfExit
  <1> QED BY <1>2, <1>3, <1>4, <1>5, <1>6, <1>7

-----------------------------------------------------------------------------
(***************************************************************************)
(* Steps of the AMF's workers.                                             *)
(***************************************************************************)

\* The worker that takes a packet finds the UE thread waiting for it.
LEMMA Serves ==
    ASSUME IdInv, NEW w \in Worker, NEW c \in Conn, NEW t \in 1 .. 5, Serve(w, c, t)
    PROVE  /\ \A v \in Worker : ~ Busy(v, c)
           /\ NoDown(c)
           /\ Head(up[c]) = up[c][1] /\ up[c][1] \in S1apMsg /\ up[c][1].type = t
           /\ 1 \in 1 .. Len(up[c])
           /\ \A d \in Conn : d # c => up'[d] = up[d]
           /\ \A k \in 1 .. Len(up'[c]) : up'[c][k] = up[c][k + 1] /\ k + 1 \in 1 .. Len(up[c])
           /\ t = 1 => NoUp(c)' /\ ran_pc[c] \in {"autn", "dead"}
           /\ t = 2 => NoUp(c)' /\ ran_pc[c] \in {"security", "dead"}
           /\ t = 3 => NoUp(c)' /\ ran_pc[c] \in {"session", "dead"}
           /\ t = 4 => \/ NoUp(c)' /\ ran_pc[c] \in {"data", "dead"}
                       \/ OneUp(c, 5)' /\ ran_pc[c] \in {"detach", "dead"}
           /\ t = 5 => NoUp(c)' /\ ran_pc[c] \in {"detach", "dead"}
PROOF
  <1>1. /\ owner[c] = w /\ amf_pc[w] = "idle" /\ up[c] # <<>> /\ Head(up[c]).type = t
        /\ up' = [up EXCEPT ![c] = Tail(@)] /\ up \in [Conn -> Seq(S1apMsg)]
    BY DEF Serve, ServerRcv, IdInv, TypeOK, LinksTypeOK
  <1>2. RanTurn(c) /\ Answer(c) /\ \A v \in Worker : Busy(v, c) => owner[c] = v
    BY ByConnection DEF IdInv, ConnOK
  <1>3. \A v \in Worker : ~ Busy(v, c)
    BY <1>1, <1>2 DEF Busy
  <1>4. /\ \A d \in Conn : d # c => up'[d] = up[d]
        /\ Head(up[c]) = up[c][1] /\ Head(up[c]) \in S1apMsg
        /\ Len(up[c]) \in Nat \ {0} /\ Len(up'[c]) = Len(up[c]) - 1
        /\ \A k \in 1 .. Len(up'[c]) : up'[c][k] = up[c][k + 1] /\ k + 1 \in 1 .. Len(up[c])
    BY <1>1, Taken
  <1>5. ran_pc[c] \in RanPc /\ Len(down[c]) \in Nat
    BY NonEmpty DEF IdInv, TypeOK, RanTypeOK, LinksTypeOK
  <1>6. ran_pc[c] \in {"data", "dead"} => NoDown(c)
    <2>1. down[c] \in Seq(S1apMsg)
      BY DEF IdInv, TypeOK, LinksTypeOK
    <2>2. ~ NoDown(c) => 1 \in 1 .. Len(down[c])
      BY <1>5 DEF NoDown
    <2>3. ~ NoDown(c) => down[c][1].type \in 1 .. 5
      BY <2>1, <2>2, NonEmpty
    <2> QED BY <1>2, <2>3, ExpectedTypes DEF Answer
  <1>7. ~ NoUp(c) /\ up[c][1].type = t
    BY <1>1, <1>4 DEF NoUp
  <1>8. NoDown(c)
    BY <1>2, <1>5, <1>6, <1>7 DEF RanTurn, RanPc
  <1>9. \/ OneUp(c, t) /\ \/ t = 1 /\ ran_pc[c] \in {"autn", "dead"}
                          \/ t = 2 /\ ran_pc[c] \in {"security", "dead"}
                          \/ t = 3 /\ ran_pc[c] \in {"session", "dead"}
                          \/ t = 4 /\ ran_pc[c] \in {"data", "dead"}
                          \/ t = 5 /\ ran_pc[c] \in {"detach", "dead"}
        \/ t = 4 /\ TwoUp(c) /\ ran_pc[c] \in {"detach", "dead"}
    BY <1>2, <1>5, <1>7, ExpectedTypes DEF RanTurn, RanPc, OneUp, TwoUp
  <1>10. CASE OneUp(c, t)
    <2>1. NoUp(c)'
      BY <1>4, <1>10 DEF OneUp, NoUp
    <2>2. ~ TwoUp(c)
      BY <1>10 DEF OneUp, TwoUp
    <2> QED BY <1>1, <1>3, <1>4, <1>8, <1>9, <2>1, <2>2
  <1>11. CASE t = 4 /\ TwoUp(c) /\ ran_pc[c] \in {"detach", "dead"}
    <2>1. OneUp(c, 5)'
      BY <1>4, <1>11 DEF OneUp, TwoUp
    <2> QED BY <1>1, <1>3, <1>4, <1>8, <1>11, <2>1
  <1> QED BY <1>9, <1>10, <1>11

\* The identifier of a packet that is no attach request leads to the UE's guti.
LEMMA Resolves ==
    ASSUME IdInv, NEW c \in Conn, NEW i \in MmeId, Uses(c, i)
    PROVE  s1amf_id[i] = Guti(UeOf(c)) /\ s1amf_id[i] # 0 /\ i \in 1 .. ue_count
PROOF
  <1>1. Mapped(c, i)
    BY DEF IdInv, OwnIds
  <1>2. Guti(UeOf(c)) # 0
    BY IdentityTypes, GutiNonZero
  <1> QED BY <1>1, <1>2 DEF Mapped

\* What a worker sends is all there is on the connection, or it is lost.
LEMMA SentDown ==
    ASSUME IdInv, NEW c \in Conn, NEW m \in S1apMsg, ServerSnd(c, m), NoDown(c)
    PROVE  /\ \A d \in Conn : d # c => down'[d] = down[d]
           /\ \/ NoDown(c)' /\ ran_pc[c] \in {"start", "dead"}
              \/ /\ ran_pc[c] \notin {"start", "dead"} /\ ~ NoDown(c)'
                 /\ Len(down'[c]) = 1 /\ down'[c][1] = m
PROOF
  <1>1. RanTurn(c)
    BY ByConnection DEF IdInv, ConnOK
  <1>2. CASE conn[c] = "open"
    <2>1. down \in [Conn -> Seq(S1apMsg)] /\ down' = [down EXCEPT ![c] = Append(@, m)]
      BY <1>2 DEF IdInv, TypeOK, LinksTypeOK, ServerSnd
    <2>2. /\ \A d \in Conn : d # c => down'[d] = down[d]
          /\ Len(down'[c]) = Len(down[c]) + 1 /\ down'[c][Len(down[c]) + 1] = m
      BY <2>1, Sent
    <2> QED BY <1>1, <1>2, <2>2 DEF RanTurn, NoDown
  <1>3. CASE conn[c] # "open"
    BY <1>1, <1>3 DEF ServerSnd, RanTurn, NoDown
  <1> QED BY <1>2, <1>3

\* A step of worker w on connection c leaves the other connections alone.
LEMMA WorkerFrame ==
    ASSUME IdInv, NEW w \in Worker, NEW c \in Conn,
           UNCHANGED <<conn, ran_pc, ran_ctx>>,
           \A d \in Conn : d # c => up'[d] = up[d] /\ down'[d] = down[d] /\ owner'[d] = owner[d],
           \A v \in Worker : v # w => /\ amf_pc'[v] = amf_pc[v] /\ amf_conn'[v] = amf_conn[v]
                                      /\ amf_id'[v] = amf_id[v],
           amf_pc'[w] = "idle" \/ amf_conn'[w] = c,
           owner[c] = w
    PROVE  OthersSame(c) /\ \A v \in Worker : v # w => ~ Busy(v, c) /\ ~ Busy(v, c)'
PROOF
  <1>1. \A v \in Worker, d \in Conn : (d # c /\ Busy(v, d)') => v # w
    BY DEF Busy
  <1>2. \A v \in Worker, d \in Conn : v # w => (Busy(v, d)' <=> Busy(v, d))
    BY DEF Busy
  <1>3. OthersSame(c)
    BY <1>1, <1>2 DEF OthersSame
  <1>4. \A v \in Worker : v # w => ~ Busy(v, c)
    BY ByConnection DEF IdInv, ConnOK
  <1> QED BY <1>2, <1>3, <1>4

\* What no step of a worker changes, and what it leaves of the other workers.
LEMMA AmfFrame ==
    ASSUME IdInv, NEW w \in Worker, AmfStep(w)
    PROVE  /\ TypeInv' /\ UNCHANGED <<conn, ran_pc, ran_ctx>>
           /\ \A v \in Worker : v # w => /\ amf_pc'[v] = amf_pc[v] /\ amf_conn'[v] = amf_conn[v]
                                         /\ amf_id'[v] = amf_id[v]
PROOF
  <1>1. TypeInv'
    BY AmfTypes DEF IdInv, TypeInv
  <1>2. UNCHANGED <<ran_pc, ran_ctx>> /\ AmfWorker(w)
    BY DEF AmfStep, ranVars
  <1>3. /\ amf_pc \in [Worker -> AmfPc] /\ amf_conn \in [Worker -> Conn]
        /\ amf_id \in [Worker -> MmeId]
    BY DEF IdInv, TypeOK, AmfTypeOK
  <1> DEFINE P == /\ conn' = conn
                  /\ \A v \in Worker : v # w => /\ amf_pc'[v] = amf_pc[v] /\ amf_conn'[v] = amf_conn[v]
                                                /\ amf_id'[v] = amf_id[v]
  <1>4. ASSUME NEW c \in Conn, handle_initial_attach(w, c)
        PROVE  P
    BY <1>3, <1>4 DEF handle_initial_attach, Locals, Goto
  <1>5. ASSUME NEW c \in Conn, handle_autn(w, c)
        PROVE  P
    BY <1>5 DEF handle_autn, ZeroGuti, amfLocals
  <1>6. ASSUME NEW c \in Conn, handle_security_mode_complete(w, c)
        PROVE  P
    BY <1>3, <1>6 DEF handle_security_mode_complete, ZeroGuti, Await, Locals, Goto, amfLocals
  <1>7. ASSUME NEW c \in Conn, handle_attach_complete(w, c)
        PROVE  P
    BY <1>3, <1>7 DEF handle_attach_complete, ZeroGuti, Locals, Goto, amfLocals
  <1>8. ASSUME NEW c \in Conn, handle_detach(w, c)
        PROVE  P
    BY <1>3, <1>8 DEF handle_detach, ZeroGuti, Await, Locals, Goto, amfLocals
  <1>9. ASSUME NEW c \in Conn, ConnClosed(w, c)
        PROVE  P
    BY <1>9 DEF ConnClosed, amfVars, amfTables, amfLocals
  <1>10. ASSUME AttachInit(w)
         PROVE  P
    BY <1>3, <1>10 DEF AttachInit, Await, Goto, amfLocals
  <1>11. ASSUME handle_create_session(w)
         PROVE  P
    BY <1>3, <1>11 DEF handle_create_session, Await, Goto, ZeroGuti, amfLocals
  <1>12. ASSUME AttachChallenge(w)
         PROVE  P
    BY <1>3, <1>12 DEF AttachChallenge, Return, Locals, Goto
  <1>13. ASSUME SessionAccept(w)
         PROVE  P
    BY <1>3, <1>13 DEF SessionAccept, Return, Locals, Goto
  <1>14. ASSUME handle_modify_bearer(w)
         PROVE  P
    BY <1>3, <1>14 DEF handle_modify_bearer, Await, Goto, ZeroGuti, amfLocals
  <1>15. ASSUME BearerModified(w)
         PROVE  P
    BY <1>3, <1>15 DEF BearerModified, Return, Locals, Goto
  <1>16. ASSUME DetachFailed(w)
         PROVE  P
    BY <1>3, <1>16 DEF DetachFailed, Return, Locals, Goto
  <1>17. ASSUME DetachAnswer(w)
         PROVE  P
    BY <1>3, <1>17 DEF DetachAnswer, Await, Goto, amfLocals
  <1>18. ASSUME rem_itfid(w)
         PROVE  P
    BY <1>3, <1>18 DEF rem_itfid, Goto, amfLocals, linkVars
  <1>19. ASSUME rem_uectx(w)
         PROVE  P
    BY <1>3, <1>19 DEF rem_uectx, Return, Locals, Goto
  <1>20. P
    <2> HIDE DEF P
    <2> QED BY <1>2, <1>4, <1>5, <1>6, <1>7, <1>8, <1>9, <1>10, <1>11, <1>12, <1>13, <1>14, <1>15,
               <1>16, <1>17, <1>18, <1>19 DEF AmfWorker
  <1> QED BY <1>1, <1>2, <1>20

\* An attach request gets a new identifier: it is in use by no connection.
LEMMA AttachSafe ==
    ASSUME IdInv, NEW w \in Worker, NEW c \in Conn, AmfStep(w), handle_initial_attach(w, c)
    PROVE  IdInv'
PROOF
  <1>0. PICK id \in MmeId : id = ue_count + 1
    BY LinksAssumption DEF IdInv, TypeOK, AmfTypeOK, MmeId, handle_initial_attach
  <1>1. /\ TypeInv' /\ UNCHANGED <<conn, ran_pc, ran_ctx>>
        /\ \A v \in Worker : v # w => /\ amf_pc'[v] = amf_pc[v] /\ amf_conn'[v] = amf_conn[v]
                                      /\ amf_id'[v] = amf_id[v]
    BY AmfFrame
  <1>2. Serve(w, c, 1)
    BY DEF handle_initial_attach
  <1>3. /\ NoDown(c) /\ Head(up[c]) = up[c][1] /\ up[c][1].type = 1 /\ 1 \in 1 .. Len(up[c])
        /\ \A d \in Conn : d # c => up'[d] = up[d]
        /\ NoUp(c)' /\ ran_pc[c] \in {"autn", "dead"}
    BY <1>2, Serves
  <1>4. /\ ue_count \in Nat /\ ue_count < MaxUeCount
        /\ s1amf_id \in [MmeId -> GutiSet]
        /\ amf_pc \in [Worker -> AmfPc] /\ amf_conn \in [Worker -> Conn]
        /\ amf_id \in [Worker -> MmeId]
    BY LinksAssumption DEF IdInv, TypeOK, AmfTypeOK, MmeId, handle_initial_attach
  <1>5. /\ amf_pc'[w] = "attach_init" /\ amf_conn'[w] = c /\ amf_id'[w] = id
        /\ down' = down /\ owner' = owner /\ owner[c] = w /\ exited' = exited
    BY <1>0, <1>4 DEF handle_initial_attach, Goto, Locals, Serve, ServerRcv
  <1>6. ue_count' = id /\ s1amf_id' = [s1amf_id EXCEPT ![id] = Guti(UeOf(c))]
    <2>1. Head(up[c]).imsi = Imsi(UeOf(c))
      BY <1>3 DEF IdInv, AttachImsi
    <2> QED BY <1>0, <2>1 DEF handle_initial_attach, Guti
  <1>7. OthersSame(c) /\ \A v \in Worker : v # w => ~ Busy(v, c) /\ ~ Busy(v, c)'
    BY <1>1, <1>3, <1>5, WorkerFrame
  <1>8. ConnOK(c)'
    <2>1. NoDown(c)' /\ ran_pc'[c] \in {"autn", "dead"}
      BY <1>1, <1>3, <1>5 DEF NoDown
    <2>2. RanTurn(c)
      BY ByConnection DEF IdInv, ConnOK
    <2>3. RanTurn(c)' /\ Answer(c)'
      BY <1>1, <1>3, <2>1, <2>2 DEF RanTurn, Answer
    <2>4. WorkerTurn(w, c)'
      BY <1>3, <1>5, <2>1 DEF WorkerTurn
    <2> QED BY <1>5, <1>7, <2>3, <2>4 DEF ConnOK
  <1>9. \A i \in MmeId : Uses(c, i)' => i = id
    BY <1>1, <1>3, <1>5, <1>7 DEF Uses, NoUp, NoDown, Busy
  <1>10. /\ AnswersInStep' /\ Conversation'
         /\ \A d \in Conn, i \in MmeId : (d # c /\ Uses(d, i)') => Uses(d, i)
    BY <1>1, <1>7, <1>8, Frame DEF TypeInv
  <1>11. \A d \in Conn, i \in MmeId : (d # c /\ Uses(d, i)') => Mapped(d, i) /\ i # id
    BY <1>0, <1>4, <1>10 DEF IdInv, OwnIds, Mapped
  <1>12. Mapped(c, id)'
    BY <1>0, <1>4, <1>6 DEF Mapped
  <1>13. \A d \in Conn, i \in MmeId : (Mapped(d, i) /\ i # id) => Mapped(d, i)'
    <2> SUFFICES ASSUME NEW d \in Conn, NEW i \in MmeId, Mapped(d, i), i # id
                 PROVE  Mapped(d, i)'
      OBVIOUS
    <2>1. i \in 1 .. ue_count' /\ s1amf_id'[i] = s1amf_id[i]
      BY <1>0, <1>4, <1>6 DEF Mapped
    <2> QED BY <2>1 DEF Mapped
  <1>14. OwnIds'
    <2>1. ASSUME NEW d \in Conn, NEW i \in MmeId, Uses(d, i)'
          PROVE  Mapped(d, i)'
      BY <1>9, <1>11, <1>12, <1>13, <2>1
    <2>2. ASSUME NEW d \in Conn, NEW e \in Conn, NEW i \in MmeId, Uses(d, i)', Uses(e, i)'
          PROVE  d = e
      BY <1>9, <1>10, <1>11, <2>2 DEF IdInv, OwnIds
    <2> QED BY <2>1, <2>2 DEF OwnIds
  <1>15. NoAmfExit'
    BY <1>5 DEF IdInv, NoAmfExit
  <1> QED BY <1>1, <1>10, <1>14, <1>15 DEF IdInv, TypeInv

\* The identifier that is removed is in use by no connection any more.
LEMMA RemoveSafe ==
    ASSUME IdInv, NEW w \in Worker, AmfStep(w), rem_itfid(w)
    PROVE  IdInv'
PROOF
  <1>0. PICK c \in Conn : c = amf_conn[w]
    BY DEF IdInv, TypeOK, AmfTypeOK
  <1>1. /\ TypeInv' /\ UNCHANGED <<conn, ran_pc, ran_ctx>>
        /\ \A v \in Worker : v # w => /\ amf_pc'[v] = amf_pc[v] /\ amf_conn'[v] = amf_conn[v]
                                      /\ amf_id'[v] = amf_id[v]
    BY AmfFrame
  <1>2. /\ amf_id[w] \in MmeId /\ amf_pc \in [Worker -> AmfPc]
        /\ s1amf_id \in [MmeId -> GutiSet]
    BY DEF IdInv, TypeOK, AmfTypeOK
  <1>3. /\ Busy(w, c) /\ amf_pc[w] = "rem_itfid" /\ amf_pc'[w] = "rem_uectx" /\ amf_conn'[w] = c
        /\ UNCHANGED <<up, down, owner, exited, ue_count>>
        /\ s1amf_id' = [s1amf_id EXCEPT ![amf_id[w]] = 0]
    BY <1>0, <1>2 DEF rem_itfid, Goto, Busy, amfLocals, linkVars
  <1>4. RanTurn(c) /\ Answer(c) /\ owner[c] = w /\ WorkerTurn(w, c)
    BY <1>2, <1>3, ByConnection DEF IdInv, ConnOK
  <1>5. OthersSame(c) /\ \A v \in Worker : v # w => ~ Busy(v, c) /\ ~ Busy(v, c)'
    BY <1>1, <1>2, <1>3, <1>4, WorkerFrame
  <1>6. ConnOK(c)'
    <2>1. RanTurn(c)' /\ Answer(c)'
      BY <1>1, <1>3, <1>4 DEF RanTurn, Answer, NoUp, OneUp, TwoUp, NoDown
    <2>2. WorkerTurn(w, c)'
      BY <1>1, <1>3, <1>4 DEF WorkerTurn, NoUp, OneUp, NoDown
    <2> QED BY <1>3, <1>4, <1>5, <2>1, <2>2 DEF ConnOK
  <1>7. /\ AnswersInStep' /\ Conversation'
        /\ \A d \in Conn, i \in MmeId : (d # c /\ Uses(d, i)') => Uses(d, i)
    BY <1>1, <1>2, <1>5, <1>6, Frame DEF TypeInv
  <1>8. \A i \in MmeId : ~ Uses(c, i)'
    BY <1>1, <1>3, <1>4, <1>5 DEF Uses, WorkerTurn, NoUp, OneUp, NoDown, Busy
  <1>9. Uses(c, amf_id[w])
    BY <1>3 DEF Uses
  <1>10. \A d \in Conn, i \in MmeId : (d # c /\ Uses(d, i)') => Mapped(d, i) /\ i # amf_id[w]
    BY <1>2, <1>7, <1>9 DEF IdInv, OwnIds
  <1>11. \A d \in Conn, i \in MmeId : (Mapped(d, i) /\ i # amf_id[w]) => Mapped(d, i)'
    BY <1>2, <1>3 DEF Mapped
  <1>12. OwnIds'
    <2>1. ASSUME NEW d \in Conn, NEW i \in MmeId, Uses(d, i)'
          PROVE  Mapped(d, i)'
      BY <1>8, <1>10, <1>11, <2>1
    <2>2. ASSUME NEW d \in Conn, NEW e \in Conn, NEW i \in MmeId, Uses(d, i)', Uses(e, i)'
          PROVE  d = e
      BY <1>7, <1>8, <2>2 DEF IdInv, OwnIds
    <2> QED BY <2>1, <2>2 DEF OwnIds
  <1>13. NoAmfExit'
    BY <1>3 DEF IdInv, NoAmfExit
  <1> QED BY <1>1, <1>7, <1>12, <1>13 DEF IdInv, TypeInv

\* A worker takes a packet and goes on to wait for a remote call.
LEMMA ServeSafe ==
    ASSUME IdInv, NEW w \in Worker, NEW c \in Conn, NEW t \in 3 .. 5, AmfStep(w), Serve(w, c, t),
           t = 3 => amf_pc'[w] = "location", t = 4 => amf_pc'[w] = "bearer",
           t = 5 => amf_pc'[w] = "detach", amf_conn'[w] = c, amf_id'[w] = Head(up[c]).id,
           UNCHANGED <<down, owner, exited, ue_count, s1amf_id>>
    PROVE  IdInv'
PROOF
  <1>1. /\ TypeInv' /\ UNCHANGED <<conn, ran_pc, ran_ctx>>
        /\ \A v \in Worker : v # w => /\ amf_pc'[v] = amf_pc[v] /\ amf_conn'[v] = amf_conn[v]
                                      /\ amf_id'[v] = amf_id[v]
    BY AmfFrame
  <1>2. t \in 1 .. 5
    OBVIOUS
  <1>3. /\ NoDown(c) /\ Head(up[c]) = up[c][1] /\ up[c][1].type = t /\ 1 \in 1 .. Len(up[c])
        /\ \A d \in Conn : d # c => up'[d] = up[d]
        /\ \A k \in 1 .. Len(up'[c]) : up'[c][k] = up[c][k + 1] /\ k + 1 \in 1 .. Len(up[c])
        /\ t = 3 => NoUp(c)' /\ ran_pc[c] \in {"session", "dead"}
        /\ t = 4 => \/ NoUp(c)' /\ ran_pc[c] \in {"data", "dead"}
                    \/ OneUp(c, 5)' /\ ran_pc[c] \in {"detach", "dead"}
        /\ t = 5 => NoUp(c)' /\ ran_pc[c] \in {"detach", "dead"}
    BY <1>2, Serves
  <1>4. owner[c] = w
    BY DEF Serve, ServerRcv
  <1>5. OthersSame(c) /\ \A v \in Worker : v # w => ~ Busy(v, c) /\ ~ Busy(v, c)'
    BY <1>1, <1>3, <1>4, WorkerFrame
  <1>6. NoDown(c)' /\ ran_pc'[c] = ran_pc[c]
    BY <1>1, <1>3 DEF NoDown
  <1>7. RanTurn(c)
    BY ByConnection DEF IdInv, ConnOK
  <1>8. t = 3 \/ t = 4 \/ t = 5
    OBVIOUS
  <1>9. RanTurn(c)' /\ Answer(c)'
    BY <1>1, <1>3, <1>6, <1>7, <1>8 DEF RanTurn, Answer
  <1>10. WorkerTurn(w, c)'
    BY <1>3, <1>6, <1>8 DEF WorkerTurn
  <1>11. ConnOK(c)'
    BY <1>4, <1>5, <1>9, <1>10 DEF ConnOK
  <1>12. ASSUME NEW i \in MmeId, Uses(c, i)'
         PROVE  Uses(c, i)
    <2>1. \/ \E k \in 1 .. Len(up'[c]) : up'[c][k].type # 1 /\ up'[c][k].id = i
          \/ ran_pc[c] \in {"security", "session", "data"} /\ ran_ctx[c].mme_id = i
          \/ amf_id'[w] = i
      BY <1>1, <1>5, <1>6, <1>12 DEF Uses
    <2>2. CASE \E k \in 1 .. Len(up'[c]) : up'[c][k].type # 1 /\ up'[c][k].id = i
      BY <1>3, <2>2 DEF Uses
    <2>3. CASE amf_id'[w] = i
      BY <1>2, <1>3, <1>8, <2>3 DEF Uses
    <2> QED BY <2>1, <2>2, <2>3 DEF Uses
  <1>13. NoAmfExit'
    BY DEF IdInv, NoAmfExit
  <1> QED BY <1>1, <1>5, <1>11, <1>12, <1>13, KeepIds

\* A worker goes on with, or returns from, the handler of a packet of c; it
\* sends nothing and leaves the table alone.
LEMMA GoOnSafe ==
    ASSUME IdInv, NEW w \in Worker, NEW c \in Conn, AmfStep(w), Busy(w, c),
           \/ amf_pc'[w] = "idle"
           \/ /\ amf_conn'[w] = c /\ amf_id'[w] = amf_id[w]
              /\ \/ amf_pc[w] = "attach_init" /\ amf_pc'[w] = "attach_autn"
                 \/ amf_pc[w] = "location" /\ amf_pc'[w] = "create"
                 \/ amf_pc[w] = "bearer" /\ amf_pc'[w] = "modify",
           UNCHANGED <<up, down, owner, exited, ue_count, s1amf_id>>
    PROVE  IdInv'
PROOF
  <1>1. /\ TypeInv' /\ UNCHANGED <<conn, ran_pc, ran_ctx>>
        /\ \A v \in Worker : v # w => /\ amf_pc'[v] = amf_pc[v] /\ amf_conn'[v] = amf_conn[v]
                                      /\ amf_id'[v] = amf_id[v]
    BY AmfFrame
  <1>2. RanTurn(c) /\ Answer(c) /\ owner[c] = w /\ WorkerTurn(w, c)
    BY ByConnection DEF IdInv, ConnOK
  <1>3. OthersSame(c) /\ \A v \in Worker : v # w => ~ Busy(v, c) /\ ~ Busy(v, c)'
    BY <1>1, <1>2, WorkerFrame
  <1>4. RanTurn(c)' /\ Answer(c)'
    BY <1>1, <1>2 DEF RanTurn, Answer, NoUp, OneUp, TwoUp, NoDown
  <1>5. Busy(w, c)' => WorkerTurn(w, c)'
    BY <1>1, <1>2 DEF WorkerTurn, Busy, NoUp, OneUp, NoDown
  <1>6. ConnOK(c)'
    BY <1>2, <1>3, <1>4, <1>5 DEF ConnOK
  <1>7. Busy(w, c)' => amf_id'[w] = amf_id[w] /\ amf_pc[w] # "rem_uectx"
    BY DEF Busy
  <1>8. \A i \in MmeId : Uses(c, i)' => Uses(c, i)
    BY <1>1, <1>3, <1>7 DEF Uses, NoDown
  <1>9. NoAmfExit'
    BY DEF IdInv, NoAmfExit
  <1> QED BY <1>1, <1>3, <1>6, <1>8, <1>9, KeepIds

\* A worker answers the UE thread that waits for it.
LEMMA AnswerSafe ==
    ASSUME IdInv, NEW w \in Worker, NEW c \in Conn, AmfStep(w), Busy(w, c),
           NEW m \in S1apMsg, m.id = amf_id[w], ServerSnd(c, m),
           \/ amf_pc[w] = "attach_autn" /\ m.type = 1 /\ amf_pc'[w] = "idle"
           \/ amf_pc[w] = "create" /\ m.type = 3 /\ amf_pc'[w] = "idle"
           \/ /\ amf_pc[w] = "detach" /\ m.type = 5 /\ amf_pc'[w] = "rem_itfid"
              /\ amf_conn'[w] = c /\ amf_id'[w] = amf_id[w],
           UNCHANGED <<up, owner, exited, ue_count, s1amf_id>>
    PROVE  IdInv'
PROOF
  <1>1. /\ TypeInv' /\ UNCHANGED <<conn, ran_pc, ran_ctx>>
        /\ \A v \in Worker : v # w => /\ amf_pc'[v] = amf_pc[v] /\ amf_conn'[v] = amf_conn[v]
                                      /\ amf_id'[v] = amf_id[v]
    BY AmfFrame
  <1>2. RanTurn(c) /\ owner[c] = w /\ WorkerTurn(w, c)
    BY ByConnection DEF IdInv, ConnOK
  <1>3. /\ NoUp(c) /\ NoDown(c)
        /\ ran_pc[c] = "dead" \/ (ran_pc[c] \in {"autn", "session", "detach"}
                                  /\ m.type = Expected(ran_pc[c]))
    BY <1>2, ExpectedTypes DEF WorkerTurn
  <1>4. /\ \A d \in Conn : d # c => down'[d] = down[d]
        /\ \/ NoDown(c)' /\ ran_pc[c] = "dead"
           \/ /\ ran_pc[c] # "dead" /\ ~ NoDown(c)'
              /\ Len(down'[c]) = 1 /\ down'[c][1] = m
    BY <1>3, SentDown
  <1>5. OthersSame(c) /\ \A v \in Worker : v # w => ~ Busy(v, c) /\ ~ Busy(v, c)'
    BY <1>1, <1>2, <1>4, WorkerFrame
  <1>6. NoUp(c)'
    BY <1>3 DEF NoUp
  <1>7. RanTurn(c)' /\ Answer(c)'
    BY <1>1, <1>2, <1>3, <1>4, <1>6 DEF RanTurn, Answer
  <1>8. Busy(w, c)' => WorkerTurn(w, c)'
    BY <1>1, <1>2, <1>4, <1>6 DEF WorkerTurn, Busy
  <1>9. ConnOK(c)'
    BY <1>2, <1>5, <1>7, <1>8 DEF ConnOK
  <1>10. Busy(w, c)' => amf_id'[w] = amf_id[w]
    BY DEF Busy
  <1>11. \A i \in MmeId : Uses(c, i)' => Uses(c, i)
    <2>1. Uses(c, amf_id[w])
      BY DEF Uses
    <2> QED BY <1>1, <1>3, <1>4, <1>5, <1>6, <1>10, <2>1 DEF Uses, NoUp
  <1>12. NoAmfExit'
    BY DEF IdInv, NoAmfExit
  <1> QED BY <1>1, <1>5, <1>9, <1>11, <1>12, KeepIds

\* get_guti() finds a guti for every packet a worker takes.
LEMMA GutiFound ==
    ASSUME IdInv, NEW w \in Worker, NEW c \in Conn, NEW t \in 2 .. 5, Serve(w, c, t)
    PROVE  Head(up[c]).id \in MmeId /\ s1amf_id[Head(up[c]).id] # 0
PROOF
  <1>1. t \in 1 .. 5
    OBVIOUS
  <1>2. Head(up[c]) = up[c][1] /\ up[c][1] \in S1apMsg /\ up[c][1].type = t /\ 1 \in 1 .. Len(up[c])
    BY <1>1, Serves
  <1>3. up[c][1].id \in MmeId
    BY <1>2 DEF S1apMsg
  <1>4. Uses(c, up[c][1].id)
    BY <1>2 DEF Uses
  <1> QED BY <1>2, <1>3, <1>4, Resolves

LEMMA AutnSafe ==
    ASSUME IdInv, NEW w \in Worker, NEW c \in Conn, AmfStep(w), handle_autn(w, c)
    PROVE  IdInv'
PROOF
  <1>1. /\ TypeInv' /\ UNCHANGED <<conn, ran_pc, ran_ctx>>
        /\ \A v \in Worker : v # w => /\ amf_pc'[v] = amf_pc[v] /\ amf_conn'[v] = amf_conn[v]
                                      /\ amf_id'[v] = amf_id[v]
    BY AmfFrame
  <1>2. Serve(w, c, 2) /\ owner[c] = w /\ amf_pc[w] = "idle"
    BY DEF handle_autn, Serve, ServerRcv
  <1>3. /\ NoDown(c) /\ NoUp(c)' /\ ran_pc[c] \in {"security", "dead"}
        /\ \A d \in Conn : d # c => up'[d] = up[d]
    BY <1>2, Serves
  <1>4. PICK id \in MmeId : id = Head(up[c]).id /\ s1amf_id[id] # 0
    BY <1>2, GutiFound
  <1>5. PICK m \in S1apMsg : m = S1ap(2, id) /\ m.type = 2
    BY Headers
  <1>6. /\ ServerSnd(c, m) /\ UNCHANGED <<amf_pc, amf_conn, amf_id, owner, exited, ue_count, s1amf_id>>
    BY <1>4, <1>5 DEF handle_autn, amfLocals
  <1>7. /\ \A d \in Conn : d # c => down'[d] = down[d]
        /\ \/ NoDown(c)' /\ ran_pc[c] = "dead"
           \/ ran_pc[c] = "security" /\ Len(down'[c]) = 1 /\ down'[c][1] = m
    BY <1>3, <1>6, SentDown
  <1>8. OthersSame(c) /\ \A v \in Worker : ~ Busy(v, c)'
    <2>1. OthersSame(c) /\ \A v \in Worker : v # w => ~ Busy(v, c) /\ ~ Busy(v, c)'
      BY <1>1, <1>2, <1>3, <1>6, <1>7, WorkerFrame
    <2> QED BY <1>2, <1>6, <2>1 DEF Busy
  <1>9. RanTurn(c)
    BY ByConnection DEF IdInv, ConnOK
  <1>10. RanTurn(c)' /\ Answer(c)'
    BY <1>1, <1>3, <1>5, <1>7, <1>9, ExpectedTypes DEF RanTurn, Answer
  <1>11. ConnOK(c)'
    BY <1>8, <1>10 DEF ConnOK
  <1>12. \A i \in MmeId : Uses(c, i)' => Uses(c, i)
    BY <1>1, <1>3, <1>8 DEF Uses, NoUp
  <1>13. NoAmfExit'
    BY <1>6 DEF IdInv, NoAmfExit
  <1> QED BY <1>1, <1>6, <1>8, <1>11, <1>12, <1>13, KeepIds

LEMMA ClosedSafe ==
    ASSUME IdInv, NEW w \in Worker, NEW c \in Conn, AmfStep(w), ConnClosed(w, c)
    PROVE  IdInv'
PROOF
  <1>1. /\ TypeInv' /\ UNCHANGED <<conn, ran_pc, ran_ctx>>
        /\ \A v \in Worker : v # w => /\ amf_pc'[v] = amf_pc[v] /\ amf_conn'[v] = amf_conn[v]
                                      /\ amf_id'[v] = amf_id[v]
    BY AmfFrame
  <1>2. /\ owner[c] = w /\ amf_pc[w] = "idle" /\ conn[c] = "closed"
        /\ UNCHANGED <<amf_pc, amf_conn, amf_id, down, exited, ue_count, s1amf_id>>
    BY DEF ConnClosed, CloseConn, amfVars, amfTables, amfLocals
  <1>3. /\ up'[c] = <<>> /\ \A d \in Conn : d # c => up'[d] = up[d] /\ owner'[d] = owner[d]
    BY DEF ConnClosed, CloseConn, IdInv, TypeOK, LinksTypeOK, SctpTypeOK
  <1>4. OthersSame(c) /\ \A v \in Worker : ~ Busy(v, c)'
    <2>1. OthersSame(c) /\ \A v \in Worker : v # w => ~ Busy(v, c) /\ ~ Busy(v, c)'
      BY <1>1, <1>2, <1>3, WorkerFrame
    <2> QED BY <1>2, <2>1 DEF Busy
  <1>5. NoUp(c)'
    BY <1>3 DEF NoUp
  <1>6. RanTurn(c) /\ Answer(c)
    BY ByConnection DEF IdInv, ConnOK
  <1>7. RanTurn(c)' /\ Answer(c)'
    BY <1>1, <1>2, <1>5, <1>6 DEF RanTurn, Answer, NoDown
  <1>8. ConnOK(c)'
    BY <1>4, <1>7 DEF ConnOK
  <1>9. \A i \in MmeId : Uses(c, i)' => Uses(c, i)
    BY <1>1, <1>2, <1>4, <1>5 DEF Uses, NoUp, NoDown
  <1>10. NoAmfExit'
    BY <1>2 DEF IdInv, NoAmfExit
  <1> QED BY <1>1, <1>2, <1>4, <1>8, <1>9, <1>10, KeepIds

LEMMA AmfSafe ==
    ASSUME IdInv, NEW w \in Worker, AmfStep(w)
    PROVE  IdInv'
PROOF
  <1>1. /\ amf_pc \in [Worker -> AmfPc] /\ amf_conn \in [Worker -> Conn]
        /\ amf_id \in [Worker -> MmeId]
    BY DEF IdInv, TypeOK, AmfTypeOK
  <1>2. PICK b \in Conn : b = amf_conn[w]
    BY <1>1
  <1>3. amf_pc[w] # "idle" => Busy(w, b)
    BY <1>2 DEF Busy
  <1>4. ASSUME NEW c \in Conn, handle_initial_attach(w, c)
        PROVE  IdInv'
    BY <1>4, AttachSafe
  <1>5. ASSUME NEW c \in Conn, handle_autn(w, c)
        PROVE  IdInv'
    BY <1>5, AutnSafe
  <1>6. ASSUME NEW c \in Conn, handle_security_mode_complete(w, c)
        PROVE  IdInv'
    <2>1. Serve(w, c, 3)
      BY <1>6 DEF handle_security_mode_complete
    <2>2. s1amf_id[Head(up[c]).id] # 0
      BY <2>1, GutiFound
    <2>3. /\ amf_pc'[w] = "location" /\ amf_conn'[w] = c /\ amf_id'[w] = Head(up[c]).id
          /\ UNCHANGED <<down, owner, exited, ue_count, s1amf_id>>
      BY <1>1, <1>6, <2>2 DEF handle_security_mode_complete, Locals, Await, Goto
    <2> QED BY <2>1, <2>3, ServeSafe
  <1>7. ASSUME NEW c \in Conn, handle_attach_complete(w, c)
        PROVE  IdInv'
    <2>1. Serve(w, c, 4)
      BY <1>7 DEF handle_attach_complete
    <2>2. s1amf_id[Head(up[c]).id] # 0
      BY <2>1, GutiFound
    <2>3. /\ amf_pc'[w] = "bearer" /\ amf_conn'[w] = c /\ amf_id'[w] = Head(up[c]).id
          /\ UNCHANGED <<down, owner, exited, ue_count, s1amf_id>>
      BY <1>1, <1>7, <2>2 DEF handle_attach_complete, Locals, Goto
    <2> QED BY <2>1, <2>3, ServeSafe
  <1>8. ASSUME NEW c \in Conn, handle_detach(w, c)
        PROVE  IdInv'
    <2>1. Serve(w, c, 5)
      BY <1>8 DEF handle_detach
    <2>2. s1amf_id[Head(up[c]).id] # 0
      BY <2>1, GutiFound
    <2>3. /\ amf_pc'[w] = "detach" /\ amf_conn'[w] = c /\ amf_id'[w] = Head(up[c]).id
          /\ UNCHANGED <<down, owner, exited, ue_count, s1amf_id>>
      BY <1>1, <1>8, <2>2 DEF handle_detach, Locals, Await, Goto
    <2> QED BY <2>1, <2>3, ServeSafe
  <1>9. ASSUME NEW c \in Conn, ConnClosed(w, c)
        PROVE  IdInv'
    BY <1>9, ClosedSafe
  <1>10. CASE AttachInit(w)
    <2>1. /\ amf_pc[w] = "attach_init" /\ amf_pc'[w] = "attach_autn" /\ amf_conn'[w] = b
          /\ UNCHANGED <<amf_id, up, down, owner, exited, ue_count, s1amf_id>>
      BY <1>1, <1>2, <1>10 DEF AttachInit, Await, Goto, amfLocals
    <2> QED BY <1>3, <2>1, GoOnSafe
  <1>11. CASE handle_create_session(w)
    <2>1. amf_pc[w] = "location" /\ amf_id[w] \in MmeId
      BY <1>1, <1>11 DEF handle_create_session, Returned
    <2>2. Uses(b, amf_id[w])
      BY <1>3, <2>1 DEF Uses
    <2>3. s1amf_id[amf_id[w]] # 0
      BY <2>1, <2>2, Resolves
    <2>4. /\ amf_pc'[w] = "create" /\ amf_conn'[w] = b
          /\ UNCHANGED <<amf_id, up, down, owner, exited, ue_count, s1amf_id>>
      BY <1>1, <1>2, <1>11, <2>3 DEF handle_create_session, Await, Goto
    <2> QED BY <1>3, <2>1, <2>4, GoOnSafe
  <1>12. CASE AttachChallenge(w)
    <2>1. PICK m \in S1apMsg : m = S1ap(1, amf_id[w]) /\ m.type = 1 /\ m.id = amf_id[w]
      BY <1>1, Headers
    <2>2. /\ amf_pc[w] = "attach_autn" /\ amf_pc'[w] = "idle" /\ ServerSnd(b, m)
          /\ UNCHANGED <<up, owner, exited, ue_count, s1amf_id>>
      BY <1>1, <1>2, <1>12, <2>1 DEF AttachChallenge, Returned, Return, Goto
    <2> QED BY <1>3, <2>1, <2>2, AnswerSafe
  <1>13. CASE SessionAccept(w)
    <2>1. PICK m : m = [S1ap(3, amf_id[w]) EXCEPT !.guti = rpc[w].guti, !.teid = rpc[w].ul,
                                                  !.ip = rpc[w].ip]
      OBVIOUS
    <2>2. m \in S1apMsg /\ m.type = 3 /\ m.id = amf_id[w]
      <3>1. rpc[w].guti \in GutiSet /\ rpc[w].ul \in TeidSet /\ rpc[w].ip \in ImsiSet
        BY DEF IdInv, TypeOK, LinksTypeOK, RpcSlot
      <3>2. S1ap(3, amf_id[w]) \in S1apMsg /\ S1ap(3, amf_id[w]).type = 3
            /\ S1ap(3, amf_id[w]).id = amf_id[w]
        BY <1>1, Headers
      <3> QED BY <2>1, <3>1, <3>2, Bodies
    <2>3. /\ amf_pc[w] = "create" /\ amf_pc'[w] = "idle" /\ ServerSnd(b, m)
          /\ UNCHANGED <<up, owner, exited, ue_count, s1amf_id>>
      BY <1>1, <1>2, <1>13, <2>1 DEF SessionAccept, Returned, Return, Goto
    <2> QED BY <1>3, <2>2, <2>3, AnswerSafe
  <1>14. CASE handle_modify_bearer(w)
    <2>1. amf_pc[w] = "bearer" /\ amf_id[w] \in MmeId
      BY <1>1, <1>14 DEF handle_modify_bearer
    <2>2. Uses(b, amf_id[w])
      BY <1>3, <2>1 DEF Uses
    <2>3. s1amf_id[amf_id[w]] # 0
      BY <2>1, <2>2, Resolves
    <2>4. /\ amf_pc'[w] = "modify" /\ amf_conn'[w] = b
          /\ UNCHANGED <<amf_id, up, down, owner, exited, ue_count, s1amf_id>>
      BY <1>1, <1>2, <1>14, <2>3 DEF handle_modify_bearer, Await, Goto
    <2> QED BY <1>3, <2>1, <2>4, GoOnSafe
  <1>15. CASE BearerModified(w)
    <2>1. /\ amf_pc[w] # "idle" /\ amf_pc'[w] = "idle"
          /\ UNCHANGED <<up, down, owner, exited, ue_count, s1amf_id>>
      BY <1>1, <1>15 DEF BearerModified, Returned, Return, Goto
    <2> QED BY <1>3, <2>1, GoOnSafe
  <1>16. CASE DetachFailed(w)
    <2>1. /\ amf_pc[w] # "idle" /\ amf_pc'[w] = "idle"
          /\ UNCHANGED <<up, down, owner, exited, ue_count, s1amf_id>>
      BY <1>1, <1>16 DEF DetachFailed, Returned, Return, Goto, amfTables
    <2> QED BY <1>3, <2>1, GoOnSafe
  <1>17. CASE DetachAnswer(w)
    <2>1. PICK m \in S1apMsg : m = S1ap(5, amf_id[w]) /\ m.type = 5 /\ m.id = amf_id[w]
      BY <1>1, Headers
    <2>2. /\ amf_pc[w] = "detach" /\ amf_pc'[w] = "rem_itfid" /\ ServerSnd(b, m)
          /\ amf_conn'[w] = b
          /\ UNCHANGED <<amf_id, up, owner, exited, ue_count, s1amf_id>>
      BY <1>1, <1>2, <1>17, <2>1 DEF DetachAnswer, Returned, Await, Goto, amfTables, amfLocals
    <2> QED BY <1>3, <2>1, <2>2, AnswerSafe
  <1>18. CASE rem_itfid(w)
    BY <1>18, RemoveSafe
  <1>19. CASE rem_uectx(w)
    <2>1. /\ amf_pc[w] # "idle" /\ amf_pc'[w] = "idle"
          /\ UNCHANGED <<up, down, owner, exited, ue_count, s1amf_id>>
      BY <1>1, <1>19 DEF rem_uectx, Return, Goto
    <2> QED BY <1>3, <2>1, GoOnSafe
  <1> QED BY <1>4, <1>5, <1>6, <1>7, <1>8, <1>9, <1>10, <1>11, <1>12, <1>13, <1>14, <1>15,
             <1>16, <1>17, <1>18, <1>19 DEF AmfStep, AmfWorker

-----------------------------------------------------------------------------
LEMMA InitIdInv == Init => IdInv
PROOF
  <1> SUFFICES ASSUME Init
               PROVE  IdInv
    OBVIOUS
  <1>1. TypeOK /\ AttachImsi
    BY InitTypes DEF TypeInv
  <1>2. /\ \A c \in Conn : up[c] = <<>> /\ down[c] = <<>> /\ ran_pc[c] = "start" /\ conn[c] = "new"
        /\ \A w \in Worker, c \in Conn : ~ Busy(w, c)
        /\ exited = {}
    BY DEF Init, LinksInit, RanInit, AmfInit, Busy
  <1>3. \A c \in Conn : NoUp(c) /\ NoDown(c)
    BY <1>2 DEF NoUp, NoDown
  <1>4. NoAmfExit /\ AnswersInStep
    BY <1>2 DEF NoAmfExit, AnswersInStep
  <1>5. Conversation
    BY <1>2, <1>3 DEF Conversation, RanTurn
  <1>6. \A c \in Conn, i \in MmeId : ~ Uses(c, i)
    BY <1>2, <1>3 DEF Uses, NoUp
  <1>7. OwnIds
    BY <1>6 DEF OwnIds
  <1> QED BY <1>1, <1>4, <1>5, <1>7 DEF IdInv

LEMMA NextIdInv ==
    ASSUME IdInv, [Next]_vars
    PROVE  IdInv'
PROOF
  <1>1. CASE RestartStep
    BY <1>1, RestartSafe
  <1>2. ASSUME NEW c \in Conn, RanStep(c) \/ AcceptStep(c)
        PROVE  IdInv'
    BY <1>2, RanSafe, AcceptSafe
  <1>3. ASSUME NEW w \in Worker, AmfStep(w)
        PROVE  IdInv'
    BY <1>3, AmfSafe
  <1>4. CASE \/ LossStep
             \/ \E w \in Worker : RpcFailStep(w) \/ AusfStep(w) \/ SmfStep(w) \/ TimeoutStep(w)
             \/ \E t \in UpfThread : UpfStep(t)
    BY <1>4, OtherSteps
  <1>5. CASE UNCHANGED vars
    <2>1. TypeInv'
      BY <1>5, StutterTypes DEF IdInv, TypeInv
    <2>2. /\ UNCHANGED <<up, down, conn, ran_pc, ran_ctx, owner>>
          /\ UNCHANGED <<ue_count, s1amf_id, amf_pc, amf_conn, amf_id, exited>>
      BY <1>5 DEF vars, linkVars, ranVars, sctpVars, amfVars, amfTables, amfLocals
    <2> QED BY <2>1, <2>2, Untouched DEF IdInv, NoAmfExit
  <1> QED BY <1>1, <1>2, <1>3, <1>4, <1>5 DEF Next

\* Each UE thread and the worker that serves its connection take turns, and an
\* identifier in use is in the table for its UE and in use by no other
\* connection: the inductive invariant of the AMF's identifier handling.
THEOREM IdInvariant == Spec => []IdInv
PROOF
  <1>1. Init => IdInv
    BY InitIdInv
  <1>2. IdInv /\ [Next]_vars => IdInv'
    BY NextIdInv
  <1> QED BY <1>1, <1>2, PTL DEF Spec

\* No handler of the AMF ends the process over a zero guti, however UEs
\* detach and attach again, the simulator is restarted, calls fail and
\* datagrams are lost.
THEOREM AmfNeverExits == Spec => []NoAmfExit
PROOF
  <1>1. IdInv => NoAmfExit
    BY DEF IdInv
  <1> QED BY <1>1, IdInvariant, PTL

\* Every packet the AMF has still to read leads get_guti() to its UE.
THEOREM IdentifiersResolve == Spec => []IdsResolve
PROOF
  <1>1. IdInv => IdsResolve
    <2> SUFFICES ASSUME IdInv, NEW c \in Conn, NEW i \in 1 .. Len(up[c]), up[c][i].type # 1
                 PROVE  Mapped(c, up[c][i].id)
      BY DEF IdsResolve
    <2>1. up[c] \in Seq(S1apMsg)
      BY DEF IdInv, TypeOK, LinksTypeOK
    <2>2. up[c][i].id \in MmeId
      BY <2>1, NonEmpty
    <2>3. Uses(c, up[c][i].id)
      BY DEF Uses
    <2> QED BY <2>2, <2>3 DEF IdInv, OwnIds
  <1> QED BY <1>1, IdInvariant, PTL

\* A UE thread never takes a packet for another than the answer it waits for,
\* although Ran's methods do not look at the type.
THEOREM AnswersMatch == Spec => []AnswersInStep
PROOF
  <1>1. IdInv => AnswersInStep
    BY DEF IdInv
  <1> QED BY <1>1, IdInvariant, PTL
=============================================================================
