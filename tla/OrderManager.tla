---------------------------- MODULE OrderManager ----------------------------
(***************************************************************************)
(* The order queue of the cloud service (src/app/order/order_manager.cpp), *)
(* the routes that drive it and the order_completed events that enter it.  *)
(*                                                                         *)
(* OrderManager has no mutex.  Its callers - one thread per HTTP           *)
(* connection and the MQTT callback thread - are the Actors.  A method is  *)
(* split where it tests one member before it changes it or another, so     *)
(* that other actors can come in between; the search of the deque and the  *)
(* change at the place found are one step.  Finer interleavings corrupt    *)
(* the deque itself, have no defined outcome, and are left out.            *)
(*                                                                         *)
(* An order is its id and its status.  emergency_stop has no caller and    *)
(* run_pre_brew_check always answers OK, so neither is an action.          *)
(***************************************************************************)
EXTENDS Naturals, Sequences, FiniteSets, SequencesExt

CONSTANTS
    Actors,         \* threads that call the manager
    OrderIds,       \* order ids clients and devices send
    SeedQueue,      \* what seed_mock_data puts into the queue (scaled down)
    SeedHistory,    \* and into the history
    MaxQueueDepth,  \* ORDER_MAX_QUEUE_DEPTH (scaled down)
    MaxOrders,      \* orders that may be accepted between two starts (bound)
    MaxRestarts,    \* crashes per behaviour (bound)
    None

Ids == OrderIds \cup {o.id : o \in ToSet(SeedQueue) \cup ToSet(SeedHistory)}

(* Order, with the OrderStatus values the manager and the seed use. *)
Orders ==
    [id : Ids, status : {"PENDING", "PAID", "BREWING", "COMPLETED", "FAILED", "CANCELLED"}]

ASSUME OrderAssumption ==
    /\ IsFiniteSet(Actors) /\ Actors # {}
    /\ MaxQueueDepth \in Nat
    /\ MaxOrders \in Nat
    /\ MaxRestarts \in Nat
    /\ SeedQueue \in Seq(Orders) /\ Len(SeedQueue) <= MaxQueueDepth
    /\ SeedHistory \in Seq(Orders)
    /\ None \notin Orders

VARIABLES
    queue,      \* Impl::order_queue
    current,    \* Impl::current_order
    history,    \* Impl::history_orders
    table,      \* ids in the orders table, oldest first
    thread,     \* per actor: idle, or inside a method with an order id
    restarts,   \* crashes so far
    accepted,   \* history: accepted orders of this process, per id
    replaced    \* history: orders of this process that another one took the slot from

orderVars == <<queue, current, history, table, thread, restarts, accepted, replaced>>

Sources == {"api", "event"}

(* A call past its test: the method, the order id and the origin or the new
   status of the order. *)
Call(pc, id, arg) == [pc |-> pc, id |-> id, arg |-> arg]

Resting == Call("idle", None, None)

-----------------------------------------------------------------------------
(* Queries *)

(* find_if over the queue: the first order with the id, 0 if there is none. *)
FindOrder(id) == SelectInSeq(queue, LAMBDA o : o.id = id)

IsBrewing(id) == current # None /\ current.id = id

(* list_all_orders *)
ListAllOrders ==
    (IF current = None THEN <<>> ELSE <<current>>) \o queue \o history

Copies(s, id) == Cardinality({i \in DOMAIN s : s[i].id = id})

-----------------------------------------------------------------------------
(* The tests at the head of the methods.  A test that fails is answered with an
   error and changes nothing. *)

(* A thread calls the manager, passes its test and goes on. *)
Enter(a, call) ==
    /\ thread[a].pc = "idle"
    /\ thread' = [thread EXCEPT ![a] = call]
    /\ UNCHANGED <<queue, current, history, table, restarts, accepted, replaced>>

(* Mutant: > in place of >=. *)
MutCreateOneMore(a, id, source) ==
    /\ Len(ListAllOrders) + Len(replaced) < MaxOrders
    /\ Len(queue) <= MaxQueueDepth
    /\ Enter(a, Call("push", id, source))

(* create_order: POST /api/v1/orders, or an order_completed event. *)
CreateCheck(a, id, source) ==
    /\ Len(ListAllOrders) + Len(replaced) < MaxOrders
    /\ Len(queue) < MaxQueueDepth
    /\ Enter(a, Call("push", id, source))

(* cancel_order: refused for the order being brewed. *)
CancelCheck(a, id) ==
    /\ ~IsBrewing(id)
    /\ Enter(a, Call("cancel", id, None))

(* start_brewing: refused while an order is being brewed. *)
StartCheck(a, id) ==
    /\ current = None
    /\ Enter(a, Call("start", id, None))

(* complete_brewing and fail_brewing: for the order being brewed only. *)
EndCheck(a, id, status) ==
    /\ IsBrewing(id)
    /\ Enter(a, Call("end", id, status))

-----------------------------------------------------------------------------
(* What the methods do after their tests *)

Leave(a) == thread' = [thread EXCEPT ![a] = Resting]

(* The order a request describes: PENDING from the API, COMPLETED from an event
   (handle_event). *)
NewOrder(id, source) ==
    [id |-> id, status |-> IF source = "event" THEN "COMPLETED" ELSE "PENDING"]

(* insert_order.  An order of the API has an empty created_at, which goes into
   the statement unquoted: it is malformed and no row is stored.  An event's
   order carries a number there and is upserted. *)
InsertOrder(id, source) ==
    table' = IF source = "event" /\ ~Contains(table, id) THEN Append(table, id) ELSE table

(* create_order: push_back, then insert_order with its result ignored. *)
CreatePush(a) ==
    LET id == thread[a].id
        source == thread[a].arg IN
    /\ thread[a].pc = "push"
    /\ queue' = Append(queue, NewOrder(id, source))
    /\ InsertOrder(id, source)
    /\ accepted' = [accepted EXCEPT ![id] = @ + 1]
    /\ Leave(a)
    /\ UNCHANGED <<current, history, restarts, replaced>>

(* Mutant: the cancelled order not kept in the history. *)
MutCancelForgets(a) ==
    LET i == FindOrder(thread[a].id) IN
    /\ thread[a].pc = "cancel"
    /\ queue' = IF i = 0 THEN queue ELSE RemoveAt(queue, i)
    /\ Leave(a)
    /\ UNCHANGED <<current, history, table, restarts, accepted, replaced>>

(* cancel_order: ORDER_NOT_FOUND unless the order waits in the queue. *)
CancelOrder(a) ==
    LET i == FindOrder(thread[a].id) IN
    /\ thread[a].pc = "cancel"
    /\ IF i = 0
       THEN UNCHANGED <<queue, history>>
       ELSE /\ history' = Append(history, [queue[i] EXCEPT !.status = "CANCELLED"])
            /\ queue' = RemoveAt(queue, i)
    /\ Leave(a)
    /\ UNCHANGED <<current, table, restarts, accepted, replaced>>

(* confirm_payment has no test but the search: whatever the status was. *)
ConfirmPayment(a, id) ==
    LET i == FindOrder(id) IN
    /\ thread[a].pc = "idle"
    /\ i # 0
    /\ queue' = [queue EXCEPT ![i].status = "PAID"]
    /\ UNCHANGED <<current, history, table, thread, restarts, accepted, replaced>>

(* start_brewing: any queued order, paid or not, goes into the slot, whatever
   another thread has put there since the test. *)
StartBrewing(a) ==
    LET i == FindOrder(thread[a].id) IN
    /\ thread[a].pc = "start"
    /\ IF i = 0
       THEN UNCHANGED <<current, queue, replaced>>
       ELSE /\ current' = [queue[i] EXCEPT !.status = "BREWING"]
            /\ queue' = RemoveAt(queue, i)
            /\ replaced' = IF current = None THEN replaced ELSE Append(replaced, current)
    /\ Leave(a)
    /\ UNCHANGED <<history, table, restarts, accepted>>

(* complete_brewing and fail_brewing: the order in the slot by then goes to the
   history.  An empty slot is read all the same, which is undefined: the bytes
   of some order are there. *)
EndBrewing(a) ==
    LET old == IF current = None THEN [id : Ids, status : {"BREWING"}] ELSE {current} IN
    /\ thread[a].pc = "end"
    /\ \E o \in old : history' = Append(history, [o EXCEPT !.status = thread[a].arg])
    /\ current' = None
    /\ Leave(a)
    /\ UNCHANGED <<queue, table, restarts, accepted, replaced>>

-----------------------------------------------------------------------------
(* Start of the process *)

(* order_from_row reads the status from the payment_method column, which holds
   no number: every order comes back PENDING. *)
OrderFromRow(id) == [id |-> id, status |-> "PENDING"]

(* Mutant: seeded whether or not there are rows. *)
MutLoadFromDatabase(ids) ==
    /\ history' = SeedHistory
    /\ queue' = SeedQueue
    /\ current' = None
    /\ accepted' = [id \in Ids |-> Copies(history', id) + Copies(queue', id)]
    /\ replaced' = <<>>

(* load_from_database (newest first, all into the history), then
   seed_mock_data if that gave no order. *)
LoadFromDatabase(ids) ==
    /\ history' = IF ids = <<>> THEN SeedHistory
                  ELSE [i \in 1..Len(ids) |-> OrderFromRow(Reverse(ids)[i])]
    /\ queue' = IF ids = <<>> THEN SeedQueue ELSE <<>>
    /\ current' = None
    /\ accepted' = [id \in Ids |-> Copies(history', id) + Copies(queue', id)]
    /\ replaced' = <<>>

(* The process dies and a new one starts. *)
Restart ==
    /\ restarts < MaxRestarts
    /\ restarts' = restarts + 1
    /\ LoadFromDatabase(table)
    /\ thread' = [a \in Actors |-> Resting]
    /\ UNCHANGED table

-----------------------------------------------------------------------------
OrderInit ==
    /\ queue = SeedQueue
    /\ current = None
    /\ history = SeedHistory
    /\ table = <<>>
    /\ thread = [a \in Actors |-> Resting]
    /\ restarts = 0
    /\ accepted = [id \in Ids |-> Copies(SeedQueue, id) + Copies(SeedHistory, id)]
    /\ replaced = <<>>

ActorStep(a) ==
    \/ \E id \in OrderIds, source \in Sources : CreateCheck(a, id, source)
    \/ \E id \in Ids :
          \/ CancelCheck(a, id)
          \/ ConfirmPayment(a, id)
          \/ StartCheck(a, id)
          \/ \E status \in {"COMPLETED", "FAILED"} : EndCheck(a, id, status)
    \/ CreatePush(a)
    \/ CancelOrder(a)
    \/ StartBrewing(a)
    \/ EndBrewing(a)

OrderNext == (\E a \in Actors : ActorStep(a)) \/ Restart

OrderSpec == OrderInit /\ [][OrderNext]_orderVars

-----------------------------------------------------------------------------
(* Properties *)

(* Callers that pass the depth test together overshoot ORDER_MAX_QUEUE_DEPTH,
   but by no more than one order each: the queue is never longer than the depth
   and all threads but one (the test and the push_back of create_order). *)
QueueOvershoot == Len(queue) <= MaxQueueDepth + Cardinality(Actors) - 1

(* The only way for an accepted order to get lost is that start_brewing of
   another thread takes the slot from it: list_all_orders and the orders
   replaced there hold every accepted order as often as it was accepted,
   whatever ids repeat and whatever method runs in between. *)
LostInSlotOnly ==
    \A id \in Ids : Copies(ListAllOrders \o replaced, id) >= accepted[id]

(* An order that has a row is listed, unless it was replaced in the slot: while
   it waits, brews or is done; the process that starts after a crash lists it in
   any case (Database::insert_order, OrderManager::load_from_database).  Orders
   of the API get no row and are forgotten. *)
StoredOrdersListed ==
    \A id \in ToSet(table) : Copies(ListAllOrders \o replaced, id) > 0

(* What order_manager.h:36 says of list_all_orders, "all orders (active +
   history)": every accepted order is listed as often as it was accepted. *)
AllOrdersListed == \A id \in Ids : Copies(ListAllOrders, id) >= accepted[id]

(* What software-requirements-specification.md:532 demands: the queue never
   holds more than ORDER_MAX_QUEUE_DEPTH orders. *)
QueueBounded == Len(queue) <= MaxQueueDepth
=============================================================================
