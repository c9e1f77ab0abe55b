---------------------------- MODULE TopicDispatch ----------------------------
(***************************************************************************)
(* MQTT topics: what MessageRouter subscribes to, how a topic that arrives *)
(* finds its handler, and the topics built for devices                     *)
(* (src/app/message_router.cpp, ParsedTopic in common/types.h).            *)
(*                                                                         *)
(* A topic is the sequence of its levels.  The broker hands a message over *)
(* under the topic the device published it on, or with $T/{tenant} before  *)
(* it.                                                                     *)
(***************************************************************************)
EXTENDS Naturals, Sequences

CONSTANTS
    Ids,        \* ids that devices publish under; "" is one a device may have
    Namespaces, \* tenants of the broker
    Commands    \* names of commands sent to devices

VARIABLES
    inbox,      \* the message that arrived last: its topic and who sent it
    handled,    \* the handler it went to and the device it is taken to be from
    outbox      \* the topic built last for a device, and what it was built from

topicVars == <<inbox, handled, outbox>>

Nothing == [kind |-> "nothing"]

-----------------------------------------------------------------------------
(* subscription_topics: what may follow {device_id}/v1, and the handler of
   each.  A + matches one level, which may be empty, but no first level that
   starts with $. *)
Subscribed ==
    {<<"heartbeat">>, <<"event", "post">>, <<"event", "post_reply">>,
     <<"property", "post">>, <<"property", "set_reply">>, <<"ota", "progress">>,
     <<"status">>}

HandlerTypes == {"heartbeat", "event", "property", "ota", "status"}

(* The field of a parsed topic that the level at position i gives. *)
Level(topic, i) == IF i <= Len(topic) THEN topic[i] ELSE ""

(* Mutant: the prefix recognised only before a topic with a command level. *)
MutOffset(topic) == IF topic[1] = "$T" /\ Len(topic) > 5 THEN 2 ELSE 0

(* The broker's prefix. *)
Offset(topic) == IF topic[1] = "$T" /\ Len(topic) >= 5 THEN 2 ELSE 0

Invalid == [valid |-> FALSE, tenant |-> "", device |-> "", type |-> "", command |-> ""]

Parse(topic) ==
    LET o == Offset(topic)
        device == Level(topic, o + 1)
        type == Level(topic, o + 3)
    IN IF Len(topic) < 3 THEN Invalid
       ELSE [valid |-> Level(topic, o + 2) = "v1" /\ device # "" /\ type # "",
             tenant |-> IF o = 2 THEN topic[2] ELSE "",
             device |-> device, type |-> type, command |-> Level(topic, o + 4)]

(* build_downlink *)
BuildDownlink(tenant, device, type, sub) ==
    <<"$T", IF tenant = "" THEN "default" ELSE tenant, device, "v1", type>> \o
    IF sub = "" THEN <<>> ELSE <<sub>>

-----------------------------------------------------------------------------
TopicInit == inbox = Nothing /\ handled = Nothing /\ outbox = Nothing

(* A device publishes on one of the topics subscribed to. *)
Arrive(d, rest) ==
    /\ inbox = Nothing
    /\ \E prefix \in {<<"$T", t>> : t \in Namespaces} \cup {<<>>} :
          /\ prefix = <<>> => d # "$T"
          /\ inbox' = [kind |-> "message", from |-> d, type |-> rest[1],
                       topic |-> prefix \o <<d, "v1">> \o rest]
    /\ handled' = Nothing
    /\ UNCHANGED outbox

(* The Will topic that main subscribes to besides, +/iot/+/+/status. *)
ArriveWill(d, x, y) ==
    /\ inbox = Nothing
    /\ d # "$T"
    /\ inbox' = [kind |-> "message", from |-> d, type |-> "will",
                 topic |-> <<d, "iot", x, y, "status">>]
    /\ handled' = Nothing
    /\ UNCHANGED outbox

(* on_message *)
OnMessage ==
    /\ inbox # Nothing
    /\ LET pt == Parse(inbox.topic) IN
       handled' =
          [kind |-> IF pt.valid /\ pt.type \in HandlerTypes THEN pt.type ELSE "dropped",
           device |-> pt.device, from |-> inbox.from, type |-> inbox.type]
    /\ inbox' = Nothing
    /\ UNCHANGED outbox

(* send_command, send_ota_notify, send_property_set *)
Send(tenant, d, type, sub) ==
    /\ outbox' = [kind |-> type, tenant |-> tenant, device |-> d, sub |-> sub,
                  topic |-> BuildDownlink(tenant, d, type, sub)]
    /\ UNCHANGED <<inbox, handled>>

SendSome ==
    \E tenant \in Namespaces \cup {""}, d \in Ids :
        \/ \E c \in Commands : Send(tenant, d, "command", c)
        \/ Send(tenant, d, "ota", "notify")
        \/ Send(tenant, d, "property", "set")

TopicNext ==
    \/ \E d \in Ids, rest \in Subscribed : Arrive(d, rest)
    \/ \E d, x, y \in Ids : ArriveWill(d, x, y)
    \/ OnMessage
    \/ SendSome

TopicSpec == TopicInit /\ [][TopicNext]_topicVars

-----------------------------------------------------------------------------
(* Properties *)

(* A message on one of the router's topics reaches the handler of its type as a
   message of the device that sent it, with the broker's prefix or without, and
   whatever levels the ids of device and tenant look like; only a device
   without an id is not heard. *)
MessagesReachHandlers ==
    handled # Nothing /\ handled.type \in HandlerTypes =>
       IF handled.from = "" THEN handled.kind = "dropped"
       ELSE handled.kind = handled.type /\ handled.device = handled.from

(* A topic built for a device reads, with the same parser, as one for that
   device, type and command, in the tenant given or the default one. *)
DownlinksReadBack ==
    outbox # Nothing /\ outbox.device # "" =>
       Parse(outbox.topic) =
          [valid |-> TRUE,
           tenant |-> IF outbox.tenant = "" THEN "default" ELSE outbox.tenant,
           device |-> outbox.device, type |-> outbox.kind, command |-> outbox.sub]

(* Both directions of the topic format (ParsedTopic): what devices send finds
   its handler, and what is built for devices can be read back. *)
TopicsUnderstood == MessagesReachHandlers /\ DownlinksReadBack

=============================================================================
