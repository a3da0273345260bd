---------------------------- MODULE MCUserPlane -----------------------------
(***************************************************************************)
(* Four components that share no state, checked in one run: the framing of *)
(* packets on a stream, the user plane, the start of the programs and the  *)
(* pool of addresses.  `unit' says which one of them a behaviour is about; *)
(* the others stay where they start.                                       *)
(***************************************************************************)
EXTENDS PktStream, DataPlane, Startup, IpPool

VARIABLE unit

userPlaneVars == <<unit, streamVars, planeVars, startVars, poolVars>>

\* Packets of one byte more than their number.
MCSize == [m \in Packets |-> m + 1]

UserPlaneInit ==
  /\ unit \in {"stream", "plane", "start", "pool"}
  /\ StreamInit /\ PlaneInit /\ StartInit /\ PoolInit

UserPlaneNext ==
  /\ \/ /\ unit = "stream" /\ StreamNext
        /\ UNCHANGED <<planeVars, startVars, poolVars>>
     \/ /\ unit = "plane" /\ PlaneNext
        /\ UNCHANGED <<streamVars, startVars, poolVars>>
     \/ /\ unit = "start" /\ StartNext
        /\ UNCHANGED <<streamVars, planeVars, poolVars>>
     \/ /\ unit = "pool" /\ set_ip_addrs
        /\ UNCHANGED <<streamVars, planeVars, startVars>>
  /\ UNCHANGED unit

\* The fairness of StreamSpec, PlaneFair and StartFair, for the unit.
Of(u, A) == unit = u /\ A

UserPlaneFair ==
  /\ WF_streamVars(Of("stream", write_stream)) /\ WF_streamVars(Of("stream", read_stream))
  /\ WF_streamVars(Of("stream", ReadEof))
  /\ \A p \in Pkt : /\ WF_planeVars(Of("plane", Forward(p)))
                    /\ WF_planeVars(Of("plane", Reply(p)))
  /\ WF_planeVars(Of("plane", traffic_monitor))
  /\ \A p \in Proc : WF_startVars(Of("start", Launch(p)))
  /\ WF_startVars(Of("start", Ausf)) /\ WF_startVars(Of("start", Smf))
  /\ WF_startVars(Of("start", Amf))
  /\ \A p \in Proc : \A w \in ServerThread(p) : WF_startVars(Of("start", Server(p, w)))

UserPlaneSpec == UserPlaneInit /\ [][UserPlaneNext]_userPlaneVars /\ UserPlaneFair
=============================================================================
