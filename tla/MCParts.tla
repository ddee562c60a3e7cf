------------------------------- MODULE MCParts -------------------------------
(***************************************************************************)
(* Components that share no state, with what must happen in them           *)
(* eventually: each behaviour is one of one of them, while the others stay *)
(* as they are initially.  The reachable states are the sum of theirs and  *)
(* not the product.                                                        *)
(***************************************************************************)
EXTENDS GameLock, ScriptPump, Inspector

CONSTANTS game, s1, s2, once, every, c1, c2

MCThreads == {game, s1, s2}
MCTimers == {once, every}
MCIntervals == {every}
MCConns == {c1, c2}

VARIABLE part

partsVars == <<part, lockVars, pumpVars, inspectorVars>>

PartsInit ==
  /\ LockInit /\ PumpInit /\ InspectorInit
  /\ part \in {"Lock", "Pump", "Inspector"}

PartsNext ==
  /\ UNCHANGED part
  /\ \/ /\ part = "Lock" /\ LockNext
        /\ UNCHANGED <<pumpVars, inspectorVars>>
     \/ /\ part = "Pump" /\ PumpNext
        /\ UNCHANGED <<lockVars, inspectorVars>>
     \/ /\ part = "Inspector" /\ InspectorNext
        /\ UNCHANGED <<lockVars, pumpVars>>

(* PumpFairness and InspectorFairness, each of its own part. *)
PartsFairness ==
  /\ WF_pumpVars(part = "Pump" /\ (RequestStop \/ Terminate))
  /\ WF_pumpVars(part = "Pump" /\ PumpStep)
  /\ WF_pumpVars(part = "Pump" /\ terminating /\ Return)
  /\ WF_pumpVars(part = "Pump" /\ (Delay \/ Return))
  /\ \A p \in Pushers : WF_inspectorVars(part = "Inspector" /\ (Enqueue(p) \/ Announce(p)))
  /\ WF_inspectorVars(part = "Inspector" /\ ThreadStep)
  /\ SF_inspectorVars(part = "Inspector" /\ EndEvaluation)

PartsSpec == PartsInit /\ [][PartsNext]_partsVars /\ PartsFairness
=============================================================================
