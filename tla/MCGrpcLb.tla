------------------------------ MODULE MCGrpcLb ------------------------------
(* GrpcLb for TLC: one list of servers for the protocol, and lists in which *)
(* the order of the servers decides for the balancer.                       *)
EXTENDS GrpcLb, TLC

Cpu(n) == [tag |-> "cpu", cpu |-> n]
Untagged == [tag |-> "none", cpu |-> 0]
Untold == [tag |-> "other", cpu |-> 0]

OneList == {<<>>, <<Cpu(1)>>}
SomeLists == {<<>>, <<Cpu(1), Untagged>>, <<Untagged, Cpu(2), Cpu(1), Untold>>}

RequestSymmetry == Permutations(Request)
=============================================================================
