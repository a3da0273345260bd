----------------------------- MODULE MCPrograms -----------------------------
(***************************************************************************)
(* Five components that share no state, checked in one run: the threads of *)
(* the RAN simulator, the identifiers of the AMF, the packets, the         *)
(* asynchronous greeter and the SBA demonstration.  `unit' says which one  *)
(* of them a behaviour is about; the others stay where they start.         *)
(***************************************************************************)
EXTENDS RanSched, UeIds, NasPacket, AsyncGreeter, SbaDemo

VARIABLE unit

programVars == <<unit, schedVars, idsVars, nasVars, greeterVars, sbaVars>>

SomeIds == CHOOSE ids \in [enb : RanIds, mme : RanIds] : TRUE

ProgramsInit ==
  /\ unit \in {"sched", "ids", "nas", "greeter", "sba"}
  /\ SchedInit /\ IdsInit /\ GreeterInit /\ SbaInit
  /\ IF unit = "nas" THEN NasInit ELSE NasStart(SomeIds, 1)
  /\ unit # "sched" => now = 0

ProgramsNext ==
  /\ \/ /\ unit = "sched" /\ SchedNext
        /\ UNCHANGED <<idsVars, nasVars, greeterVars, sbaVars>>
     \/ /\ unit = "ids" /\ IdsNext
        /\ UNCHANGED <<schedVars, nasVars, greeterVars, sbaVars>>
     \/ /\ unit = "nas" /\ NasNext
        /\ UNCHANGED <<schedVars, idsVars, greeterVars, sbaVars>>
     \/ /\ unit = "greeter" /\ GreeterNext
        /\ UNCHANGED <<schedVars, idsVars, nasVars, sbaVars>>
     \/ /\ unit = "sba" /\ SbaNext
        /\ UNCHANGED <<schedVars, idsVars, nasVars, greeterVars>>
  /\ UNCHANGED unit

ProgramsSpec == ProgramsInit /\ [][ProgramsNext]_programVars
=============================================================================
