-------------------------------- MODULE Ausf --------------------------------
(***************************************************************************)
(* The AUSF (ausf.cpp, ausf_server.cpp): one gRPC server per AMF worker,   *)
(* all of them on one database connection that a mutex protects query by   *)
(* query.                                                                  *)
(***************************************************************************)
EXTENDS Links

VARIABLE loc_info  \* loc_info[imsi]: rows of the IMSI in the location table

ausfVars == <<loc_info>>

AusfTypeOK == loc_info \in [ImsiSet -> Nat]

AusfInit == loc_info = [i \in ImsiSet |-> 0]

\* Mutant of AusfReturn: the server gives the call up without a reply.
AusfNoReply(w) == rpc' = [rpc EXCEPT ![w].st = "idle"]

\* The server of worker w's port returns from its call.
AusfReturn(w) == rpc' = [rpc EXCEPT ![w].st = "rep"]

\* One query under the mutex; the vector it returns is stored by nobody.
handle_autninfo_req(w) ==
    /\ rpc[w].st = "req"
    /\ rpc[w].op = "autn"
    /\ AusfReturn(w)
    /\ UNCHANGED <<loc_info, up, down, conn, calls, n4req, n4rsp, exited>>

\* handle_location_update() calls set_loc_info(): delete, then insert.
SetLocDelete(w) ==
    /\ rpc[w].st = "req"
    /\ rpc[w].op = "loc"
    /\ loc_info' = [loc_info EXCEPT ![rpc[w].imsi] = 0]
    /\ rpc' = [rpc EXCEPT ![w].st = "busy"]
    /\ UNCHANGED <<up, down, conn, calls, n4req, n4rsp, exited>>

SetLocInsert(w) ==
    /\ rpc[w].st = "busy"
    /\ rpc[w].op = "loc"
    /\ loc_info' = [loc_info EXCEPT ![rpc[w].imsi] = @ + 1]
    /\ AusfReturn(w)
    /\ UNCHANGED <<up, down, conn, calls, n4req, n4rsp, exited>>

AusfServer(w) == handle_autninfo_req(w) \/ SetLocDelete(w) \/ SetLocInsert(w)
=============================================================================
