------------------------------ MODULE Middleware ------------------------------
(***************************************************************************)
(* Three parts of src/middleware that share no state: the log files, the   *)
(* schema of the database, and the MQTT client of the build without Paho.  *)
(* A behaviour follows one of them, which part says.                       *)
(***************************************************************************)
EXTENDS LogFiles

CONSTANTS MaxStarts

ASSUME MiddlewareAssumption == MaxStarts \in Nat

VARIABLES
    part,
    tables, keyed, version, step, seen, linked, refused, gap, starts,
    caller, flag, running, fd, receiver, inHand

schemaState == <<tables, keyed, version, step, seen, linked, refused, gap,
                 starts>>
clientState == <<caller, flag, running, fd, receiver, inHand>>
middlewareVars == <<part, logVars, schemaState, clientState>>

INSTANCE Schema
INSTANCE EmbeddedMqtt

MiddlewareInit ==
    /\ part \in {"logs", "schema", "client"}
    /\ LogInit
    /\ SchemaInit
    /\ part # "schema" => tables = {}
    /\ EmbeddedInit

ClientPart(A) == part = "client" /\ A /\ UNCHANGED <<part, logVars, schemaState>>

MiddlewareNext ==
    \/ part = "logs" /\ LogNext /\ UNCHANGED <<part, schemaState, clientState>>
    \/ part = "schema" /\ SchemaNext /\ UNCHANGED <<part, logVars, clientState>>
    \/ ClientPart(EmbeddedNext)

(* main goes on with a disconnect it has begun.  The receive thread runs, its
   recv returns within the receive timeout, and the callback returns; nothing
   is assumed of the broker. *)
MiddlewareSpec ==
    /\ MiddlewareInit
    /\ [][MiddlewareNext]_middlewareVars
    /\ WF_middlewareVars(ClientPart(CloseSocket \/ ClearFlag \/ JoinReceiver))
    /\ WF_middlewareVars(ClientPart(ReceiverStep))

=============================================================================
