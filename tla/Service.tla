------------------------------- MODULE Service -------------------------------
(***************************************************************************)
(* The life of the service process: main from the opening of the database  *)
(* to its return (src/main.cpp), the accept thread of ApiServer, its       *)
(* detached handler threads, and MqttClient in the build with Paho, which  *)
(* is the default one.                                                     *)
(*                                                                         *)
(* Four actors interleave: main, the accept thread, the handler threads,   *)
(* and Paho's own thread, which runs the callbacks one at a time.  The     *)
(* signal that ends the service may come at any moment, during startup     *)
(* too.  What a request or a message does to the managers is in the other  *)
(* modules; here it only matters whether it is running.                    *)
(*                                                                         *)
(* Paho and the broker are external.  Assumed of them: a token waited for  *)
(* is eventually completed; destroying async_client lets the callback that *)
(* is running finish; a clean session forgets its subscriptions when the   *)
(* connection is lost; automatic_reconnect restores the connection only.   *)
(***************************************************************************)
EXTENDS Naturals

CONSTANTS
    Topics,         \* subscription_topics() and the status topic
    MaxHandlers     \* handler threads alive at once (bound)

ASSUME ServiceAssumption == MaxHandlers \in Nat \ {0}

VARIABLES
    pc,             \* where main is
    gRunning,       \* g_running
    dbOpen,         \* Database::Impl::opened
    running,        \* ApiServer::Impl::running
    listening,      \* server_fd is an open, listening socket
    acceptor,       \* the accept thread: "off", "test", "accept", "done"
    handlers,       \* detached handler threads alive
    client,         \* impl_->async_client exists
    connected,      \* MqttClient::Impl::connected
    link,           \* the broker connection is up (external)
    subs,           \* topics the broker delivers on it (external)
    lost,           \* connection_lost is waiting to be called (external)
    callback,       \* message_arrived is running
    todo,           \* topics main has yet to subscribe to
    shown           \* *mqtt_connected, what /api/v1/health answers

mainVars == <<pc, gRunning, todo, shown>>
apiVars == <<running, listening, acceptor, handlers>>
mqttVars == <<client, connected, link, subs, lost, callback>>
serviceVars == <<mainVars, dbOpen, apiVars, mqttVars>>

\* From the answer of the broker to the end of the connection.
Online == {"answered", "subscribe", "announce", "loop", "stop",
           "closeListener", "join", "farewell", "disconnect"}

ServiceInit ==
    /\ pc = "open" /\ gRunning = TRUE /\ todo = Topics /\ shown = FALSE
    /\ dbOpen = FALSE
    /\ running = FALSE /\ listening = FALSE /\ acceptor = "off" /\ handlers = 0
    /\ client = FALSE /\ connected = FALSE /\ link = FALSE
    /\ subs = {} /\ lost = FALSE /\ callback = FALSE

\* GET /api/v1/health: database_ok is set once, after the opening.
Health == [mqtt |-> shown, database |-> TRUE]

At(here, next) == pc = here /\ pc' = next

(***************************************************************************)
(* Plausible faults, for the sensitivity of the properties.                *)
(***************************************************************************)
\* stop() waits for the accept thread before it tells it to end.
MutStopFlag ==
    /\ At("stop", "join")
    /\ UNCHANGED <<gRunning, todo, shown, dbOpen, apiVars, mqttVars>>

\* db.close() comes before mqtt.disconnect().
MutFarewell ==
    /\ At("farewell", "disconnect")
    /\ dbOpen' = FALSE
    /\ UNCHANGED <<gRunning, todo, shown, apiVars, mqttVars>>

\* The loop only looks for a connection that has come up.
MutSyncStatus ==
    /\ pc = "loop"
    /\ connected /\ ~shown
    /\ shown' = TRUE
    /\ UNCHANGED <<pc, gRunning, todo, dbOpen, apiVars, mqttVars>>

(***************************************************************************)
(* Startup.                                                                *)
(***************************************************************************)
\* db.open: without a database main returns.
OpenDb ==
    /\ \/ At("open", "start") /\ dbOpen' = TRUE
       \/ At("open", "destroy") /\ UNCHANGED dbOpen
    /\ UNCHANGED <<gRunning, todo, shown, apiVars, mqttVars>>

\* api.start: socket, bind and listen, then the accept thread.
ApiStart ==
    /\ \/ /\ At("start", "connect")
          /\ running' = TRUE /\ listening' = TRUE /\ acceptor' = "test"
          /\ UNCHANGED handlers
       \/ At("start", "destroy") /\ UNCHANGED apiVars
    /\ UNCHANGED <<gRunning, todo, shown, dbOpen, mqttVars>>

\* mqtt.connect up to the wait for the token.
ConnectBegin ==
    /\ At("connect", "handshake")
    /\ client' = TRUE
    /\ UNCHANGED <<gRunning, todo, shown, dbOpen, apiVars, connected, link,
                   subs, lost, callback>>

\* wait_for ends: the broker has accepted; or ten seconds are over, or Paho
\* throws, and the client is destroyed.
ConnectWait ==
    /\ \/ /\ At("handshake", "answered")
          /\ link' = TRUE
          /\ UNCHANGED <<client, shown>>
       \/ /\ At("handshake", "subscribe")
          /\ client' = FALSE
          /\ shown' = FALSE
          /\ UNCHANGED link
    /\ UNCHANGED <<gRunning, todo, dbOpen, apiVars, connected, subs, lost, callback>>

\* The flag is set after the wait: the connection may be lost in between.
ConnectEnd ==
    /\ At("answered", "subscribe")
    /\ connected' = TRUE
    /\ shown' = TRUE
    /\ UNCHANGED <<gRunning, todo, dbOpen, apiVars, client, link, subs, lost, callback>>

\* mqtt.subscribe for the next topic; main ignores what it returns.
SubscribeOne ==
    /\ pc = "subscribe"
    /\ \E t \in todo :
        /\ todo' = todo \ {t}
        /\ \/ connected /\ client /\ link /\ subs' = subs \cup {t}
           \/ UNCHANGED subs
    /\ UNCHANGED <<pc, gRunning, shown, dbOpen, apiVars, client, connected, link,
                   lost, callback>>

\* publish leaves nothing behind in the process.
Announce ==
    /\ \/ At("subscribe", "announce") /\ todo = {}
       \/ At("announce", "loop")
    /\ UNCHANGED <<gRunning, todo, shown, dbOpen, apiVars, mqttVars>>

(***************************************************************************)
(* The main loop and the signal.                                           *)
(***************************************************************************)
\* Every five seconds the flag of the client is copied for the health route.
SyncStatus ==
    /\ pc = "loop"
    /\ shown # connected
    /\ shown' = connected
    /\ UNCHANGED <<pc, gRunning, todo, dbOpen, apiVars, mqttVars>>

Signal ==
    /\ gRunning /\ pc # "gone"
    /\ gRunning' = FALSE
    /\ UNCHANGED <<pc, todo, shown, dbOpen, apiVars, mqttVars>>

LoopExit ==
    /\ At("loop", "stop") /\ ~gRunning
    /\ UNCHANGED <<gRunning, todo, shown, dbOpen, apiVars, mqttVars>>

(***************************************************************************)
(* Shutdown: api.stop(), the farewell, mqtt.disconnect(), db.close(), and  *)
(* the destructors.                                                        *)
(***************************************************************************)
StopFlag ==
    /\ At("stop", "closeListener")
    /\ running' = FALSE
    /\ UNCHANGED <<gRunning, todo, shown, dbOpen, listening, acceptor, handlers, mqttVars>>

CloseListener ==
    /\ At("closeListener", "join")
    /\ listening' = FALSE
    /\ UNCHANGED <<gRunning, todo, shown, dbOpen, running, acceptor, handlers, mqttVars>>

JoinAcceptor ==
    /\ At("join", "farewell") /\ acceptor = "done"
    /\ UNCHANGED <<gRunning, todo, shown, dbOpen, apiVars, mqttVars>>

Farewell ==
    /\ At("farewell", "disconnect")
    /\ UNCHANGED <<gRunning, todo, shown, dbOpen, apiVars, mqttVars>>

\* The connection ends with disconnect()->wait(), or, if the flag is down,
\* with the destruction of the client.
Disconnect ==
    /\ At("disconnect", "resetClient")
    /\ link' = FALSE /\ subs' = {} /\ lost' = FALSE
    /\ UNCHANGED <<gRunning, todo, shown, dbOpen, apiVars, client, connected, callback>>

ResetClient ==
    /\ At("resetClient", "closeDb") /\ ~callback
    /\ client' = FALSE
    /\ connected' = FALSE
    /\ UNCHANGED <<gRunning, todo, shown, dbOpen, apiVars, link, subs, lost, callback>>

CloseDb ==
    /\ At("closeDb", "destroy")
    /\ dbOpen' = FALSE
    /\ UNCHANGED <<gRunning, todo, shown, apiVars, mqttVars>>

\* Handler threads end with the process.
Destroy ==
    /\ At("destroy", "gone")
    /\ dbOpen' = FALSE
    /\ handlers' = 0
    /\ UNCHANGED <<gRunning, todo, shown, running, listening, acceptor, mqttVars>>

(***************************************************************************)
(* The accept thread and the handler threads.                              *)
(***************************************************************************)
AcceptTest ==
    /\ acceptor = "test" /\ pc # "gone"
    /\ acceptor' = IF running THEN "accept" ELSE "done"
    /\ UNCHANGED <<mainVars, dbOpen, running, listening, handlers, mqttVars>>

\* A connection, or EAGAIN.
AcceptReturns ==
    /\ acceptor = "accept" /\ listening /\ pc # "gone"
    /\ acceptor' = "test"
    /\ \/ handlers < MaxHandlers /\ handlers' = handlers + 1
       \/ UNCHANGED handlers
    /\ UNCHANGED <<mainVars, dbOpen, running, listening, mqttVars>>

\* Any other error ends the loop: the socket closed by stop, or a failure of
\* the system, after which is_running() still says TRUE.
AcceptFails ==
    /\ acceptor = "accept" /\ pc # "gone"
    /\ acceptor' = "done"
    /\ UNCHANGED <<mainVars, dbOpen, running, listening, handlers, mqttVars>>

\* A handler thread answers, or gives up reading.
HandlerEnds ==
    /\ handlers > 0
    /\ handlers' = handlers - 1
    /\ UNCHANGED <<mainVars, dbOpen, running, listening, acceptor, mqttVars>>

\* An exception leaves a route: handle_connection has no handler for it, and
\* std::terminate ends the process.
HandlerThrows ==
    /\ handlers > 0 /\ pc # "gone"
    /\ pc' = "gone"
    /\ handlers' = 0
    /\ dbOpen' = FALSE /\ callback' = FALSE /\ link' = FALSE /\ subs' = {}
    /\ UNCHANGED <<gRunning, todo, shown, running, listening, acceptor, client,
                   connected, lost>>

(***************************************************************************)
(* Paho's thread and the broker.                                           *)
(***************************************************************************)
MessageArrives ==
    /\ link /\ subs # {} /\ ~callback /\ pc # "gone"
    /\ callback' = TRUE
    /\ UNCHANGED <<mainVars, dbOpen, apiVars, client, connected, link, subs, lost>>

CallbackEnds ==
    /\ callback
    /\ callback' = FALSE
    /\ UNCHANGED <<mainVars, dbOpen, apiVars, client, connected, link, subs, lost>>

LinkDrops ==
    /\ link /\ pc # "gone"
    /\ link' = FALSE /\ subs' = {} /\ lost' = TRUE
    /\ UNCHANGED <<mainVars, dbOpen, apiVars, client, connected, callback>>

ConnectionLost ==
    /\ lost /\ ~callback /\ pc # "gone"
    /\ lost' = FALSE
    /\ connected' = FALSE
    /\ UNCHANGED <<mainVars, dbOpen, apiVars, client, link, subs, callback>>

\* PahoCallback::connected only logs: neither the flag nor the
\* subscriptions come back.
Reconnect ==
    /\ client /\ ~link
    /\ pc \in Online
    /\ link' = TRUE
    /\ UNCHANGED <<mainVars, dbOpen, apiVars, client, connected, subs, lost, callback>>

\* The process has ended.
Ended == pc = "gone" /\ UNCHANGED serviceVars

MainStep ==
    \/ OpenDb \/ ApiStart \/ ConnectBegin \/ ConnectWait \/ ConnectEnd
    \/ SubscribeOne \/ Announce \/ LoopExit
    \/ StopFlag \/ CloseListener \/ JoinAcceptor
    \/ Farewell \/ Disconnect \/ ResetClient \/ CloseDb \/ Destroy

AcceptorStep == AcceptTest \/ AcceptReturns \/ AcceptFails

ServiceNext ==
    \/ MainStep \/ SyncStatus \/ Signal
    \/ AcceptorStep \/ HandlerEnds \/ HandlerThrows
    \/ MessageArrives \/ CallbackEnds \/ LinkDrops \/ ConnectionLost \/ Reconnect
    \/ Ended

\* The threads of the process keep running; the signal, the clients, the
\* broker and the network owe nothing.
ServiceFairness ==
    /\ WF_serviceVars(MainStep)
    /\ WF_serviceVars(SyncStatus)
    /\ WF_serviceVars(AcceptorStep)
    /\ WF_serviceVars(CallbackEnds)
    /\ WF_serviceVars(ConnectionLost)

ServiceSpec == ServiceInit /\ [][ServiceNext]_serviceVars /\ ServiceFairness

(***************************************************************************)
(* Properties.                                                             *)
(***************************************************************************)
\* While Paho's thread is inside MessageRouter::on_message the database is
\* open and the client alive: main disconnects before it closes the database
\* (main.cpp, Phase 6), whatever was lost or reconnected before.
CallbacksBeforeClose == callback => dbOpen /\ client

\* What makes CallbacksBeforeClose inductive: the connection is up and
\* callbacks run only between the answer of the broker and the reset of the
\* client, and the database is open all that time.
OnlineInv ==
    /\ pc \in Online \cup {"start", "connect", "handshake", "resetClient", "closeDb"} => dbOpen
    /\ pc \in {"handshake", "answered"} => client
    /\ link => client /\ pc \in Online
    /\ callback => client /\ pc \in Online \cup {"resetClient"}

\* A signal ends the process, at whatever point of the startup or of the
\* loop it comes and whatever the accept thread, the broker and the
\* callbacks are doing.
ShutdownCompletes == ~gRunning ~> pc = "gone"

\* If the flag of the client settles while main loops, the health route ends
\* up answering it.
HealthFollowsFlag ==
    \A b \in BOOLEAN :
        <>[](pc = "loop" /\ gRunning /\ connected = b) => <>[](Health.mqtt = b)

=============================================================================
