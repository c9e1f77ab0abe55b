----------------------------- MODULE EmbeddedMqtt -----------------------------
(***************************************************************************)
(* The MQTT client of the build without Paho: the second half of           *)
(* src/middleware/communication/mqtt_client.cpp.                           *)
(*                                                                         *)
(* connect starts a receive thread; main publishes, reads the flag and in  *)
(* the end calls disconnect.  The socket has a receive timeout: silence of *)
(* five seconds, like a broken connection, makes recv fail, and the client *)
(* never connects again.  Packets are whole; what they hold is left out.   *)
(***************************************************************************)
VARIABLES
    caller,     \* where main is
    flag,       \* connected
    running,
    fd,         \* "none" (-1), or "open"
    receiver,   \* where the receive thread is, "off" before it starts
    inHand      \* a message is being handed to msg_cb

embeddedVars == <<caller, flag, running, fd, receiver, inHand>>

EmbeddedInit ==
    /\ caller = "start"
    /\ flag = FALSE /\ running = FALSE
    /\ fd = "none"
    /\ receiver = "off"
    /\ inHand = FALSE

(* connect: a socket, the broker's name, the TCP connection or a CONNACK may be
   wanting; then nothing has changed. *)
EmbeddedConnect ==
    /\ caller = "start"
    /\ caller' = "connected"
    /\ \/ UNCHANGED <<flag, running, fd, receiver>>
       \/ /\ fd' = "open" /\ flag' = TRUE /\ running' = TRUE
          /\ receiver' = "test"
    /\ UNCHANGED inHand

-----------------------------------------------------------------------------
(* The receive thread *)

TestRunning ==
    /\ receiver = "test"
    /\ receiver' = IF running THEN "begin" ELSE "done"
    /\ UNCHANGED <<caller, flag, running, fd, inHand>>

(* rp(impl_->fd, ...): the socket is read after the test, and may be closed by
   now. *)
BeginReceive ==
    /\ receiver = "begin"
    /\ receiver' = IF fd = "open" THEN "recv" ELSE "broken"
    /\ UNCHANGED <<caller, flag, running, fd, inHand>>

(* A packet arrives, also one that recv was waiting for when the socket was
   closed; a PUBLISH goes to the callback, anything else is skipped. *)
ReceivePacket ==
    /\ receiver = "recv"
    /\ \/ receiver' = "callback" /\ inHand' = TRUE
       \/ receiver' = "test" /\ UNCHANGED inHand
    /\ UNCHANGED <<caller, flag, running, fd>>

(* Mutant: the thread leaves the flag alone. *)
MutReceiveFails ==
    /\ receiver \in {"recv", "broken"}
    /\ receiver' = "done"
    /\ UNCHANGED <<caller, flag, running, fd, inHand>>

(* Mutant: the thread tries again and does not look at running before. *)
MutReceiveRetries ==
    /\ receiver \in {"recv", "broken"}
    /\ flag' = FALSE
    /\ receiver' = IF fd = "open" THEN "recv" ELSE "broken"
    /\ UNCHANGED <<caller, running, fd, inHand>>

(* Timeout, broken connection, or a socket that is closed. *)
ReceiveFails ==
    /\ receiver \in {"recv", "broken"}
    /\ flag' = FALSE
    /\ receiver' = "done"
    /\ UNCHANGED <<caller, running, fd, inHand>>

CallbackReturns ==
    /\ receiver = "callback"
    /\ receiver' = "test"
    /\ inHand' = FALSE
    /\ UNCHANGED <<caller, flag, running, fd>>

ReceiverStep ==
    TestRunning \/ BeginReceive \/ ReceivePacket \/ ReceiveFails \/ CallbackReturns

-----------------------------------------------------------------------------
(* disconnect *)

(* running is reset. *)
StopRunning ==
    /\ caller = "connected"
    /\ running' = FALSE
    /\ caller' = "close"
    /\ UNCHANGED <<flag, fd, receiver, inHand>>

(* DISCONNECT is sent and the socket closed, if there is one. *)
CloseSocket ==
    /\ caller = "close"
    /\ fd' = "none"
    /\ caller' = "unflag"
    /\ UNCHANGED <<flag, running, receiver, inHand>>

ClearFlag ==
    /\ caller = "unflag"
    /\ flag' = FALSE
    /\ caller' = "join"
    /\ UNCHANGED <<running, fd, receiver, inHand>>

JoinReceiver ==
    /\ caller = "join"
    /\ receiver \in {"off", "done"}
    /\ caller' = "gone"
    /\ UNCHANGED <<flag, running, fd, receiver, inHand>>

EmbeddedNext ==
    \/ EmbeddedConnect
    \/ ReceiverStep
    \/ StopRunning \/ CloseSocket \/ ClearFlag \/ JoinReceiver

-----------------------------------------------------------------------------
(* Properties *)

(* Until disconnect is called, a client that says it is connected has a thread
   that receives; and when disconnect has returned no message is in the
   callback any more, so that main may destroy what the callback uses. *)
FlagMeansReceiving ==
    /\ flag /\ running => receiver \in {"test", "begin", "recv", "callback"}
    /\ caller = "gone" => ~inHand /\ ~flag

(* A disconnect that has begun returns, whatever the broker goes on sending,
   with the receive thread inside recv or inside the callback. *)
DisconnectReturns == caller = "close" ~> caller = "gone"

=============================================================================
