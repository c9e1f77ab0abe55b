------------------------------ MODULE Dispatch ------------------------------
(***************************************************************************)
(* The two ways into the service: HTTP requests find a route, MQTT topics  *)
(* a handler.  They share nothing, so a behaviour follows one of them,     *)
(* which entrance says; the request of the other kind is then any one.     *)
(***************************************************************************)
EXTENDS RouteDispatch

CONSTANTS Ids, Namespaces, Commands

ASSUME TopicAssumption ==
    /\ Ids \subseteq STRING
    /\ Namespaces \subseteq STRING
    /\ Commands \subseteq STRING

VARIABLES entrance, inbox, handled, outbox

topicState == <<inbox, handled, outbox>>
dispatchVars == <<entrance, routeVars, topicState>>

INSTANCE TopicDispatch

DispatchInit ==
    /\ entrance \in {"http", "mqtt"}
    /\ Init
    /\ entrance = "mqtt" => req = CHOOSE q \in Requests : TRUE
    /\ TopicInit

DispatchNext ==
    \/ entrance = "http" /\ Next /\ UNCHANGED <<entrance, topicState>>
    \/ entrance = "mqtt" /\ TopicNext /\ UNCHANGED <<entrance, routeVars>>

DispatchSpec == DispatchInit /\ [][DispatchNext]_dispatchVars

=============================================================================
