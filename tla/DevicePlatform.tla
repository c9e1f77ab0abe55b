--------------------------- MODULE DevicePlatform ---------------------------
(***************************************************************************)
(* The device registry with everything that drives it: the HTTP handlers   *)
(* of the activate, migrate and delete routes (one detached thread per     *)
(* connection), the MQTT callback thread behind MessageRouter, the offline *)
(* sweep of the main loop, the PostgreSQL tables behind Database, and      *)
(* crashes followed by a restart.                                          *)
(*                                                                         *)
(* A step of this module is one critical section: one DeviceManager call   *)
(* under mutex_, or one SQL statement under Database::Impl::mutex.  A      *)
(* handler is interruptible between any two of them.                       *)
(*                                                                         *)
(* The tenants table is left out: rows are only ever added to it, each     *)
(* before the statement that needs it, and an add that failed shows as a   *)
(* failure of that statement.  A SELECT is taken to be answered: only      *)
(* writes fail.                                                            *)
(***************************************************************************)
EXTENDS DeviceManager

CONSTANTS
    DefaultTenant,  \* what resolve_tenant answers for an unknown device
    Handlers,       \* HTTP connections open at the same time (bound)
    Requests,       \* the routes in use, a subset of AllRequests (bound)
    Uplinks,        \* the MQTT message types in use (bound)
    DbOutcomes,     \* results of a write: {TRUE}, or BOOLEAN if it may fail
    MaxRestarts,    \* crashes per behaviour (bound)
    ClockRuns       \* FALSE: all requests fall within one tick (bound)

AllRequests == {"activate", "migrate", "delete"}
AllUplinks == {"heartbeat", "status"}

ASSUME PlatformAssumption ==
    /\ DefaultTenant \in Tenants
    /\ Requests \subseteq AllRequests
    /\ Uplinks \subseteq AllUplinks
    /\ DbOutcomes \subseteq BOOLEAN
    /\ MaxRestarts \in Nat
    /\ ClockRuns \in BOOLEAN

VARIABLES
    row,        \* devices table: device id -> record, None where there is no row
    token,      \* device ids with a row in activation_tokens
    api,        \* per HTTP connection: where its handler is and what it holds
    mqtt,       \* the MQTT callback thread
    todo,       \* what the running sweep still has to mark; {} between sweeps
    restarts,   \* crashes so far
    claim,      \* history: handlers whose device was not deleted since they
                \* found or inserted its row
    owed        \* history: devices acknowledged under a claim, not deleted since

dbVars == <<row, token>>
ghostVars == <<claim, owed>>
vars == <<tenants, row, token, api, mqtt, todo, restarts, claim, owed>>

ApiSteps == {"idle", "insert", "token", "register", "remove", "tokens", "row",
             "update"}
Idle == [pc |-> "idle", dev |-> None, tenant |-> None]
ApiStates == [pc : ApiSteps, dev : Devices \cup {None}, tenant : Tenants \cup {None}]

-----------------------------------------------------------------------------
(* Status payloads.  JsonHelper::get_string finds a field only when its value
   is a quoted string: it searches for the key followed by an opening quote. *)
StatusPayloads ==
    [key : {"network_status", "status"}, quoted : BOOLEAN,
     value : {"offline", "online", "0", "1"}]

JsonGetString(p, key) == IF p.key = key /\ p.quoted THEN p.value ELSE ""

ReportedStatus(p) ==
    IF JsonGetString(p, "network_status") # ""
    THEN JsonGetString(p, "network_status")
    ELSE JsonGetString(p, "status")

(* handle_status: everything that is not "offline" or "1" counts as online. *)
StatusToNet(p) ==
    IF ReportedStatus(p) \in {"offline", "1"} THEN "OFFLINE" ELSE "ONLINE"

(* The Will Message of the device protocol: {"network_status":1,"work_status":0}. *)
WillPayload == [key |-> "network_status", quoted |-> FALSE, value |-> "1"]
QuotedOffline == [key |-> "status", quoted |-> TRUE, value |-> "offline"]
QuotedOnline == [key |-> "status", quoted |-> TRUE, value |-> "online"]
Payloads == {WillPayload, QuotedOffline, QuotedOnline}

MqttIdle == [pc |-> "idle", dev |-> None, tenant |-> None, payload |-> None]
MqttStates == [pc : {"idle", "heartbeat", "status"}, dev : Devices \cup {None},
               tenant : Tenants \cup {None}, payload : StatusPayloads \cup {None}]

-----------------------------------------------------------------------------
(* Database: what PostgreSQL does with the statements the code sends *)

Fresh(t, net, age) == [tenant |-> t, net |-> net, age |-> age]

(* hardware_uid is UNIQUE. *)
UidFree(d) == \A e \in Devices : UidOf(e) = UidOf(d) => row[e] = None

(* insert_device: OFFLINE, last_heartbeat_at 0. *)
InsertDevice(d, t) ==
    row' = [row EXCEPT ![d] = Fresh(t, "OFFLINE", Timeout + 1)]

(* upsert_device: updates on a device_id conflict, is refused on a
   hardware_uid conflict with another device id. *)
UpsertDevice(d, t) ==
    row' = IF row[d] # None \/ UidFree(d)
           THEN [row EXCEPT ![d] = Fresh(t, "ONLINE", 0)]
           ELSE row

(* DELETE FROM devices: refused while activation_tokens references the row. *)
DeleteDevice(d) == row' = IF d \in token THEN row ELSE [row EXCEPT ![d] = None]

(* UPDATE devices SET tenant_id: touches no row when there is none. *)
UpdateTenant(d, t) ==
    row' = IF row[d] = None THEN row ELSE [row EXCEPT ![d].tenant = t]

-----------------------------------------------------------------------------
(* POST /api/v1/device/activate *)

Goto(h, pc, d, t) == api' = [api EXCEPT ![h] = [pc |-> pc, dev |-> d, tenant |-> t]]
Reply(h) == api' = [api EXCEPT ![h] = Idle]

(* Mutant: resp.tenant_id not filled in. *)
MutActivateNoTenant(h, d) ==
    /\ "activate" \in Requests
    /\ api[h].pc = "idle"
    /\ row[d] # None
    /\ Goto(h, "register", d, None)
    /\ claim' = claim \cup {h}
    /\ UNCHANGED <<managerVars, dbVars, mqtt, todo, restarts, owed>>

(* process_activation steps 1 to 3: the uid already has a row, whose identity
   and tenant are handed out again whatever model key was sent. *)
ActivateExisting(h, d) ==
    /\ "activate" \in Requests
    /\ api[h].pc = "idle"
    /\ row[d] # None
    /\ Goto(h, "register", d, row[d].tenant)
    /\ claim' = claim \cup {h}
    /\ UNCHANGED <<managerVars, dbVars, mqtt, todo, restarts, owed>>

(* Steps 3 to 5: no row; the tenant is the one configured at this moment. *)
ActivateNew(h, d, t) ==
    /\ "activate" \in Requests
    /\ api[h].pc = "idle"
    /\ UidFree(d)
    /\ Goto(h, "insert", d, t)
    /\ UNCHANGED <<managerVars, dbVars, mqtt, todo, restarts, ghostVars>>

(* Mutant: the result of insert_device ignored. *)
MutInsertUnchecked(h) ==
    LET d == api[h].dev IN
    /\ api[h].pc = "insert"
    /\ \/ /\ TRUE \in DbOutcomes
          /\ UidFree(d)
          /\ InsertDevice(d, api[h].tenant)
       \/ /\ ~UidFree(d) \/ FALSE \in DbOutcomes
          /\ UNCHANGED row
    /\ Goto(h, "token", d, api[h].tenant)
    /\ claim' = claim \cup {h}
    /\ UNCHANGED <<managerVars, token, mqtt, todo, restarts, owed>>

(* Step 6: insert_device; on failure the handler answers with the error. *)
ActivateInsert(h) ==
    LET d == api[h].dev IN
    /\ api[h].pc = "insert"
    /\ \/ /\ TRUE \in DbOutcomes
          /\ UidFree(d)
          /\ InsertDevice(d, api[h].tenant)
          /\ Goto(h, "token", d, api[h].tenant)
          /\ claim' = claim \cup {h}
       \/ /\ ~UidFree(d) \/ FALSE \in DbOutcomes
          /\ Reply(h)
          /\ UNCHANGED <<row, claim>>
    /\ UNCHANGED <<managerVars, token, mqtt, todo, restarts, owed>>

(* Step 7: store_activation_token, its result ignored; the token row needs its
   device row. *)
ActivateToken(h) ==
    LET d == api[h].dev IN
    /\ api[h].pc = "token"
    /\ \E ok \in DbOutcomes :
          token' = IF ok /\ row[d] # None THEN token \cup {d} ELSE token
    /\ Goto(h, "register", d, api[h].tenant)
    /\ UNCHANGED <<managerVars, row, mqtt, todo, restarts, ghostVars>>

(* The route registers the device in memory and upserts its row under mutex_,
   ignores the result and answers 201. *)
ActivateRegister(h) ==
    LET d == api[h].dev IN
    /\ api[h].pc = "register"
    /\ RegisterDevice(api[h].tenant, d)
    /\ \E ok \in DbOutcomes :
          IF ok THEN UpsertDevice(d, api[h].tenant) ELSE UNCHANGED row
    /\ Reply(h)
    /\ owed' = IF h \in claim THEN owed \cup {d} ELSE owed
    /\ claim' = claim \ {h}
    /\ UNCHANGED <<token, mqtt, todo, restarts>>

-----------------------------------------------------------------------------
(* PUT /api/v1/devices/{device_id}/tenant *)

(* Memory first; 404 when no tenant holds the device. *)
MigrateMemory(h, d, t) ==
    /\ "migrate" \in Requests
    /\ api[h].pc = "idle"
    /\ MigrateDevice(d, t)
    /\ Goto(h, "update", d, t)
    /\ UNCHANGED <<dbVars, mqtt, todo, restarts, ghostVars>>

MigrateRow(h) ==
    /\ api[h].pc = "update"
    /\ \E ok \in DbOutcomes :
          IF ok THEN UpdateTenant(api[h].dev, api[h].tenant) ELSE UNCHANGED row
    /\ Reply(h)
    /\ UNCHANGED <<managerVars, token, mqtt, todo, restarts, ghostVars>>

-----------------------------------------------------------------------------
(* DELETE /api/v1/devices/{device_id} *)

Disown(d) ==
    /\ owed' = owed \ {d}
    /\ claim' = claim \ {h \in Handlers : api[h].dev = d}

(* The tenant is taken from the first copy of the device in list_all_devices;
   404 when there is none. *)
DeleteFind(h, d) ==
    /\ "delete" \in Requests
    /\ api[h].pc = "idle"
    /\ \E t \in Holders(d) : Goto(h, "remove", d, tenants[t][d].tenant)
    /\ UNCHANGED <<managerVars, dbVars, mqtt, todo, restarts, ghostVars>>

DeleteRemove(h) ==
    LET d == api[h].dev IN
    /\ api[h].pc = "remove"
    /\ RemoveDevice(api[h].tenant, d)
    /\ Goto(h, "tokens", d, api[h].tenant)
    /\ Disown(d)
    /\ UNCHANGED <<dbVars, mqtt, todo, restarts>>

DeleteTokens(h) ==
    LET d == api[h].dev IN
    /\ api[h].pc = "tokens"
    /\ \E ok \in DbOutcomes : token' = IF ok THEN token \ {d} ELSE token
    /\ Goto(h, "row", d, api[h].tenant)
    /\ UNCHANGED <<managerVars, row, mqtt, todo, restarts, ghostVars>>

(* Answers deleted:true whatever the statement did. *)
DeleteRow(h) ==
    LET d == api[h].dev IN
    /\ api[h].pc = "row"
    /\ \E ok \in DbOutcomes : IF ok THEN DeleteDevice(d) ELSE UNCHANGED row
    /\ Reply(h)
    /\ Disown(d)
    /\ UNCHANGED <<managerVars, token, mqtt, todo, restarts>>

-----------------------------------------------------------------------------
(* The MQTT callback thread: one message at a time.  resolve_tenant and the
   handler take mutex_ separately. *)

ResolvedTenants(d) ==
    IF Present(d) THEN {tenants[t][d].tenant : t \in Holders(d)} ELSE {DefaultTenant}

ReceiveHeartbeat(d) ==
    /\ "heartbeat" \in Uplinks
    /\ mqtt.pc = "idle"
    /\ \E t \in ResolvedTenants(d) :
          mqtt' = [pc |-> "heartbeat", dev |-> d, tenant |-> t, payload |-> None]
    /\ UNCHANGED <<managerVars, dbVars, api, todo, restarts, ghostVars>>

HandleHeartbeat ==
    /\ mqtt.pc = "heartbeat"
    /\ ProcessHeartbeat(mqtt.tenant, mqtt.dev)
    /\ mqtt' = MqttIdle
    /\ UNCHANGED <<dbVars, api, todo, restarts, ghostVars>>

ReceiveStatus(d, p) ==
    /\ "status" \in Uplinks
    /\ mqtt.pc = "idle"
    /\ \E t \in ResolvedTenants(d) :
          mqtt' = [pc |-> "status", dev |-> d, tenant |-> t, payload |-> p]
    /\ UNCHANGED <<managerVars, dbVars, api, todo, restarts, ghostVars>>

HandleStatus ==
    /\ mqtt.pc = "status"
    /\ UpdateDeviceStatus(mqtt.tenant, mqtt.dev, StatusToNet(mqtt.payload))
    /\ mqtt' = MqttIdle
    /\ UNCHANGED <<dbVars, api, todo, restarts, ghostVars>>

-----------------------------------------------------------------------------
(* The main loop: check_offline_devices lists under one lock and marks each
   listed device under another. *)

SweepList ==
    /\ todo = {}
    /\ todo' = ListOfflineDevices
    /\ todo' # {}
    /\ UNCHANGED <<managerVars, dbVars, api, mqtt, restarts, ghostVars>>

SweepMark ==
    /\ \E p \in todo :
          /\ UpdateDeviceStatus(p[1], p[2], "OFFLINE")
          /\ todo' = todo \ {p}
    /\ UNCHANGED <<dbVars, api, mqtt, restarts, ghostVars>>

Tick ==
    /\ ClockRuns
    /\ AgeAll
    /\ row' = [d \in Devices |-> Aged(row[d])]
    /\ <<tenants, row>>' # <<tenants, row>>
    /\ UNCHANGED <<token, api, mqtt, todo, restarts, ghostVars>>

(* The process dies at any point and a new one loads the devices table. *)
Restart ==
    /\ restarts < MaxRestarts
    /\ restarts' = restarts + 1
    /\ LoadFromDatabase(row)
    /\ api' = [h \in Handlers |-> Idle]
    /\ mqtt' = MqttIdle
    /\ todo' = {}
    /\ claim' = {}
    /\ UNCHANGED <<dbVars, owed>>

-----------------------------------------------------------------------------
Init ==
    /\ ManagerInit
    /\ row = [d \in Devices |-> None]
    /\ token = {}
    /\ api = [h \in Handlers |-> Idle]
    /\ mqtt = MqttIdle
    /\ todo = {}
    /\ restarts = 0
    /\ claim = {}
    /\ owed = {}

HandlerStep(h) ==
    \/ ActivateInsert(h)
    \/ ActivateToken(h)
    \/ ActivateRegister(h)
    \/ MigrateRow(h)
    \/ DeleteRemove(h)
    \/ DeleteTokens(h)
    \/ DeleteRow(h)

Request(h) ==
    \E d \in Devices :
        \/ ActivateExisting(h, d)
        \/ \E t \in Tenants : ActivateNew(h, d, t)
        \/ \E t \in Tenants : MigrateMemory(h, d, t)
        \/ DeleteFind(h, d)

Uplink ==
    \E d \in Devices :
        \/ ReceiveHeartbeat(d)
        \/ \E p \in Payloads : ReceiveStatus(d, p)

Next ==
    \/ \E h \in Handlers : Request(h) \/ HandlerStep(h)
    \/ Uplink
    \/ HandleHeartbeat
    \/ HandleStatus
    \/ SweepList
    \/ SweepMark
    \/ Tick
    \/ Restart

Spec == Init /\ [][Next]_vars

(* The main loop runs while g_running, so the sweep keeps being called and
   finishes; the clock advances.  Nothing is assumed of devices or clients. *)
FairSpec == Spec /\ WF_vars(SweepList) /\ WF_vars(SweepMark) /\ WF_vars(Tick)
-----------------------------------------------------------------------------
(* Properties *)

(* Every handler, the callback thread and the sweep hold what the code's local
   variables can hold, and a busy one holds a device. *)
TypeOK ==
    /\ ManagerTypeOK
    /\ row \in [Devices -> DeviceRecords \cup {None}]
    /\ token \in SUBSET Devices
    /\ api \in [Handlers -> ApiStates]
    /\ \A h \in Handlers :
          api[h].pc # "idle" => api[h].dev \in Devices /\ api[h].tenant \in Tenants
    /\ mqtt \in MqttStates
    /\ mqtt.pc # "idle" => mqtt.dev \in Devices /\ mqtt.tenant \in Tenants
    /\ mqtt.pc = "status" => mqtt.payload \in StatusPayloads
    /\ todo \in SUBSET (Tenants \X Devices)
    /\ restarts \in Nat
    /\ claim \in SUBSET Handlers
    /\ owed \in SUBSET Devices

(* A device whose activation was answered with success keeps its row in the
   devices table until a DELETE for it runs, whatever other activations,
   migrations, failed writes and crashes happen in between
   (DeviceActivation::process_activation, DeviceManager::register_device). *)
AckedDeviceDurable == \A d \in owed : row[d] # None

(* Such a device can be found in the registry by its id, in every state: no
   migration, sweep, racing handler or reload loses it
   (DeviceManager::find_device_by_id). *)
AckedDeviceManaged == \A d \in owed : Present(d)

(* One physical device never holds two identities: two racing activations of
   the same hardware uid under different model keys are not both acknowledged
   (the check in process_activation is not atomic with insert_device). *)
OneIdentityPerUid == \A d, e \in owed : UidOf(d) = UidOf(e) => d = e

(* What makes these inductive.  A handler that may acknowledge is past its
   lookup or insert and its row is still there; and hardware_uid is UNIQUE. *)
ClaimsHaveRows ==
    \A h \in claim : api[h].pc \in {"token", "register"} /\ row[api[h].dev] # None
RowsUnique ==
    \A d, e \in Devices :
        row[d] # None /\ row[e] # None /\ UidOf(d) = UidOf(e) => d = e

PlatformInv ==
    /\ TypeOK
    /\ ManagerInv
    /\ AckedDeviceDurable
    /\ AckedDeviceManaged
    /\ ClaimsHaveRows
    /\ RowsUnique

(* The sweep never brings back a device that was deleted or migrated away
   between its two lock scopes (check_offline_devices). *)
SweepNeverRevives ==
    [][todo # {} /\ todo' # todo /\ restarts' = restarts =>
          \A t \in Tenants, d \in Devices :
              tenants[t][d] = None => tenants'[t][d] = None]_vars

(* A device that some tenant shows ONLINE for ever sends heartbeats, or is
   activated again, for ever: a silent one is found by the sweep, whatever
   status messages claim and wherever it is migrated meanwhile
   (check_offline_devices in the main loop). *)
OnlineNeedsHeartbeats ==
    \A t \in Tenants, d \in Devices :
        <>[](tenants[t][d] # None /\ tenants[t][d].net = "ONLINE")
            => []<>(\E s \in Holders(d) : tenants[s][d].age = 0)

(* The service keeps the contract of module DeviceContract: found devices are
   served, acknowledged ones promised, a restart is a new epoch. *)
Contract ==
    INSTANCE DeviceContract WITH
        Devs <- Devices,
        served <- {d \in Devices : Present(d)},
        promised <- owed,
        epoch <- restarts
ContractHolds == Contract!ContractSpec
=============================================================================
