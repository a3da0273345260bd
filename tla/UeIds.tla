------------------------------- MODULE UeIds --------------------------------
(***************************************************************************)
(* The identifiers the AMF gives to the UEs, at the width of their type    *)
(* (amf.cpp, amf_server.cpp).  The counter has 64 bits, the identifier 32: *)
(* Modulus stands for 2^32, and MaxCount for the attaches of the AMF's     *)
(* life, which may be many times Modulus.  Of each handler only its part   *)
(* in table s1amf_id is kept; module Amf has the rest of them.             *)
(***************************************************************************)
EXTENDS Naturals

CONSTANTS Ues,       \* gutis of the UEs
          Modulus,   \* number of identifiers, 2^32 in the code
          MaxCount   \* attaches handled

ASSUME UeIdsAssumption ==
  /\ Modulus \in Nat \ {0} /\ MaxCount \in Nat
  /\ Ues \subseteq Nat \ {0}

VARIABLES
  ue_count,  \* identifiers handed out
  s1amf_id,  \* the guti of each identifier, or 0
  mine,      \* the identifier each attached UE sends, or Detached
  leaving,   \* handlers that have answered the detach, by their UE's attach
  given,     \* history: the attach, by its number, at which a UE got its own
  late       \* history: an identifier was removed Modulus attaches or more
             \* after it had been handed out

idsVars == <<ue_count, s1amf_id, mine, leaving, given, late>>

UeId == 0..(Modulus - 1)
Detached == Modulus

\* Mutant of mme_s1ap_ue_id: a type that is too narrow by one value.
NarrowerId(count) == count % (Modulus - 1)

\* The assignment of ue_count to a uint32_t.
mme_s1ap_ue_id(count) == count % Modulus

\* handle_initial_attach: one critical section; the UE copies the identifier
\* from the answer.
handle_initial_attach(u) ==
  /\ mine[u] = Detached
  /\ ue_count < MaxCount
  /\ ue_count' = ue_count + 1
  /\ LET id == mme_s1ap_ue_id(ue_count + 1)
     IN /\ s1amf_id' = [s1amf_id EXCEPT ![id] = u]
        /\ mine' = [mine EXCEPT ![u] = id]
  /\ given' = [given EXCEPT ![u] = ue_count + 1]
  /\ UNCHANGED <<leaving, late>>

\* handle_detach up to its answer, for a packet that handle_ue does not take
\* for a new UE's and that get_guti resolves, to whichever UE.
handle_detach(u) ==
  /\ mine[u] \notin {Detached, 0}
  /\ s1amf_id[mine[u]] # 0
  /\ leaving' = leaving \cup {given[u]}
  /\ mine' = [mine EXCEPT ![u] = Detached]
  /\ UNCHANGED <<ue_count, s1amf_id, given, late>>

\* The rest of handle_detach, for the identifier of the attach numbered n.
rem_itfid(n) ==
  /\ leaving' = leaving \ {n}
  /\ s1amf_id' = [s1amf_id EXCEPT ![mme_s1ap_ue_id(n)] = 0]
  /\ late' = (late \/ ue_count - n >= Modulus)
  /\ UNCHANGED <<ue_count, mine, given>>

\* The simulator is started again: a UE forgets its identifier, the AMF does
\* not.
Restart(u) ==
  /\ mine[u] # Detached
  /\ mine' = [mine EXCEPT ![u] = Detached]
  /\ UNCHANGED <<ue_count, s1amf_id, leaving, given, late>>

IdsInit ==
  /\ ue_count = 0
  /\ s1amf_id = [id \in UeId |-> 0]
  /\ mine = [u \in Ues |-> Detached]
  /\ leaving = {}
  /\ given = [u \in Ues |-> 0]
  /\ late = FALSE

IdsNext ==
  \/ \E u \in Ues : handle_initial_attach(u) \/ handle_detach(u) \/ Restart(u)
  \/ \E n \in leaving : rem_itfid(n)

IdsSpec == IdsInit /\ [][IdsNext]_idsVars

----------------------------------------------------------------------------
(* Properties                                                              *)

\* The attaches since u's own, u's included, have not used up the identifiers.
Recent(u) == mine[u] # Detached /\ ue_count - given[u] < Modulus

\* "amf_s1ap_ue_id -> guti" (amf.h:119), also when the identifiers have
\* wrapped.  Until Modulus further UEs have attached, the identifier of a UE
\* leads to its own guti, although handlers of other UEs and of its own
\* earlier attaches still remove theirs, unless one of those removals came
\* Modulus attaches after its hand-out; and nobody is given the 0 that
\* handle_ue takes for a new UE before the counter has wrapped.
IdLeadsHome ==
  /\ ~late => \A u \in Ues : Recent(u) => s1amf_id[mine[u]] = u
  /\ \A u \in Ues : mine[u] = 0 => given[u] >= Modulus

\* What makes it so: no two UEs and handlers go by the same attach, so two
\* that share an identifier are a multiple of Modulus attaches apart.
UeIdsInv ==
  /\ ue_count \in 0..MaxCount /\ late \in BOOLEAN
  /\ s1amf_id \in [UeId -> Ues \cup {0}]
  /\ mine \in [Ues -> UeId \cup {Detached}]
  /\ given \in [Ues -> 0..ue_count]
  /\ leaving \subseteq 1..ue_count
  /\ \A u \in Ues : mine[u] # Detached =>
       given[u] > 0 /\ given[u] \notin leaving /\ mine[u] = mme_s1ap_ue_id(given[u])
  /\ \A u, v \in Ues :
       u # v /\ mine[u] # Detached /\ mine[v] # Detached => given[u] # given[v]
  /\ ~late => \A u \in Ues : Recent(u) => s1amf_id[mine[u]] = u
============================================================================
