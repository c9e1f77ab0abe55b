----------------------------- MODULE ServiceParts -----------------------------
(***************************************************************************)
(* The life of the process, and how what arrives finds its handler.  A     *)
(* handler thread and the callback are atomic there and all there is here, *)
(* so a behaviour follows one of the two, which half says.                 *)
(***************************************************************************)
EXTENDS Service, Dispatch

VARIABLE half

partsVars == <<half, serviceVars, dispatchVars>>

PartsInit ==
    /\ half \in {"process", "entrances"}
    /\ ServiceInit
    /\ DispatchInit
    /\ half = "process" => entrance = "mqtt"

Process(A) == half = "process" /\ A /\ UNCHANGED <<half, dispatchVars>>

PartsNext ==
    \/ Process(ServiceNext)
    \/ half = "entrances" /\ DispatchNext /\ UNCHANGED <<half, serviceVars>>

(* The fairness of Service, for the behaviours that follow the process. *)
PartsSpec ==
    /\ PartsInit
    /\ [][PartsNext]_partsVars
    /\ WF_partsVars(Process(MainStep))
    /\ WF_partsVars(Process(SyncStatus))
    /\ WF_partsVars(Process(AcceptorStep))
    /\ WF_partsVars(Process(CallbackEnds))
    /\ WF_partsVars(Process(ConnectionLost))

=============================================================================
