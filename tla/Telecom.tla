------------------------------ MODULE Telecom ------------------------------
(***************************************************************************)
(* Identifier arithmetic of telecom.cpp.  Every identifier is built by     *)
(* writing two decimal numbers one after the other, which multiplies the   *)
(* left number by a power of ten that depends on the width of the right    *)
(* one.  The widths are constants so that TLC's 32-bit integers suffice:   *)
(* the code has MSISDN_BASE = 9000000000, MSISDN_RANGE = 10^10,            *)
(* IMSI_RANGE = 10^12 and TEID_RANGE = 10^9.                               *)
(***************************************************************************)
EXTENDS Naturals

CONSTANTS
    PLMN_ID,       \* mcc and mnc, 11 in the code
    GUMMEI,        \* plmn_id and mmei, 1111 in the code
    MSISDN_BASE,   \* telephone number of RAN 0
    MSISDN_RANGE,  \* ten to the number of digits of a telephone number
    IMSI_RANGE,    \* ten to the number of digits of an IMSI
    TEID_RANGE     \* ten to the number of digits kept in a tunnel id

ASSUME TelecomAssumption ==
    /\ PLMN_ID \in Nat \ {0}
    /\ GUMMEI \in Nat \ {0}
    /\ MSISDN_BASE \in Nat \ {0}
    /\ MSISDN_RANGE \in Nat \ {0}
    /\ IMSI_RANGE \in Nat \ {0}
    /\ TEID_RANGE \in Nat \ {0}

\* Telephone number of the UE whose RAN thread has number n.
get_msisdn(n) == MSISDN_BASE + n

get_imsi(plmn_id, msisdn) == plmn_id * MSISDN_RANGE + msisdn

get_guti(gummei, m_tmsi) == gummei * IMSI_RANGE + m_tmsi

\* Amf::get_s11cteidamf drops the leading digits of the guti.
get_s11cteidamf(guti) == guti % TEID_RANGE

-----------------------------------------------------------------------------
\* The identities of UE n.
Imsi(n) == get_imsi(PLMN_ID, get_msisdn(n))
Guti(n) == get_guti(GUMMEI, Imsi(n))
Teid(n) == get_s11cteidamf(Guti(n))
=============================================================================
