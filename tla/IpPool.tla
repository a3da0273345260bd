------------------------------- MODULE IpPool -------------------------------
(***************************************************************************)
(* Upf::set_ip_addrs() (upf.cpp): the loop that gives every subscriber the *)
(* UPF may meet an address of 172.16.0.0/16 before it serves anybody.      *)
(***************************************************************************)
EXTENDS Integers

CONSTANTS
    MAX_UE_COUNT,   \* 10000 in the code
    FirstHost,      \* 3
    LastHost,       \* 254
    LastSubnet      \* 255: an octet holds no more

Hosts == LastHost - FirstHost + 1

ASSUME IpPoolAssumption ==
    /\ MAX_UE_COUNT \in Nat
    /\ FirstHost \in Nat /\ LastHost \in Nat /\ FirstHost <= LastHost
    /\ LastSubnet \in Nat
    /\ MAX_UE_COUNT <= LastSubnet * Hosts

VARIABLES
    i,          \* the loop variable; imsi is 119000000000 + i
    subnet, host,
    ip_addrs    \* ip_addrs[k]: address of subscriber k, once assigned

poolVars == <<i, subnet, host, ip_addrs>>

NoAddr  == <<0, 0>>
Address == (0 .. LastSubnet) \X (0 .. LastHost)

PoolTypeOK ==
    /\ i \in 0 .. MAX_UE_COUNT
    /\ subnet \in Nat
    /\ host \in FirstHost .. LastHost
    /\ ip_addrs \in [0 .. (MAX_UE_COUNT - 1) -> Address]

PoolInit ==
    /\ i = 0
    /\ subnet = 1
    /\ host = FirstHost
    /\ ip_addrs = [k \in 0 .. (MAX_UE_COUNT - 1) |-> NoAddr]

\* Mutant of set_ip_addrs: the subnet is not advanced.
SameSubnet ==
    /\ i < MAX_UE_COUNT
    /\ ip_addrs' = [ip_addrs EXCEPT ![i] = <<subnet, host>>]
    /\ host' = IF host = LastHost THEN FirstHost ELSE host + 1
    /\ i' = i + 1
    /\ UNCHANGED subnet

set_ip_addrs ==
    /\ i < MAX_UE_COUNT
    /\ ip_addrs' = [ip_addrs EXCEPT ![i] = <<subnet, host>>]
    /\ IF host = LastHost
       THEN subnet' = subnet + 1 /\ host' = FirstHost
       ELSE host' = host + 1 /\ UNCHANGED subnet
    /\ i' = i + 1

PoolSpec == PoolInit /\ [][set_ip_addrs]_poolVars

-----------------------------------------------------------------------------
\* No two subscribers share an address: the SGi table sgi_id, which is keyed
\* by address, identifies the UE.
AddressesDiffer ==
    \A a, b \in 0 .. (i - 1) : a # b => ip_addrs[a] # ip_addrs[b]

\* The position of an address in the order of the loop.
Rank(addr) == (addr[1] - 1) * Hosts + (addr[2] - FirstHost)

\* Why: the loop writes the addresses in ascending order, without a gap.
AscendingOrder ==
    /\ subnet >= 1
    /\ i = (subnet - 1) * Hosts + (host - FirstHost)
    /\ \A k \in 0 .. (i - 1) : Rank(ip_addrs[k]) = k
=============================================================================
