--------------------------- MODULE DeviceManager ---------------------------
(***************************************************************************)
(* The in-memory device registry of the cloud service                      *)
(* (src/app/device/device_manager.cpp).                                    *)
(*                                                                         *)
(* Every method holds DeviceManager::mutex_ from its first to its last     *)
(* line, so each one is a single action.  The callers - the MQTT callback  *)
(* thread, the detached HTTP handler threads and the main loop - interleave *)
(* between these actions; module DevicePlatform models them.               *)
(*                                                                         *)
(* Data kept: the tenant_id field, network_status and the time since the   *)
(* last heartbeat.  work_status is IDLE in every record the service makes  *)
(* and is only ever overwritten by IDLE or by the value just read, and no  *)
(* guard here reads the product, the model or the firmware version; they   *)
(* are left out.                                                           *)
(***************************************************************************)
EXTENDS Naturals, FiniteSets

CONSTANTS
    Tenants,    \* tenant ids
    Uids,       \* hardware ids (hardware_uid)
    Models,     \* model keys
    Timeout,    \* the offline timeout, in clock ticks (timeout_sec = 180)
    None        \* the absent record

(* generate_device_id hashes uid and model_key: a device id is that pair. *)
Devices == Uids \X Models
UidOf(d) == d[1]

NetworkStatus == {"ONLINE", "OFFLINE"}

(* now - last_heartbeat_at, capped one tick past the timeout: no guard of the
   code tells two longer silences apart. *)
Ages == 0 .. Timeout + 1

DeviceRecords == [tenant : Tenants, net : NetworkStatus, age : Ages]

ASSUME DeviceAssumption ==
    /\ Timeout \in Nat
    /\ None \notin DeviceRecords
    /\ None \notin Devices
    /\ None \notin Tenants

VARIABLE
    tenants     \* tenants_: tenant id -> device id -> record, None where absent

managerVars == <<tenants>>

-----------------------------------------------------------------------------
(* Queries *)

(* The tenants whose map holds d.  Code that looks a device up by id alone
   walks the unordered tenants_ and stops at the first hit: any of these. *)
Holders(d) == {t \in Tenants : tenants[t][d] # None}
Present(d) == Holders(d) # {}

(* Mutant: the timeout compared with one tick too many. *)
MutStaleLate(t, d) == tenants[t][d] # None /\ tenants[t][d].age > Timeout + 1

Stale(t, d) == tenants[t][d] # None /\ tenants[t][d].age > Timeout

(* list_offline_devices: the (tenant_id field, device id) of stale records. *)
ListOfflineDevices ==
    {<<tenants[p[1]][p[2]].tenant, p[2]>> :
        p \in {q \in Tenants \X Devices : Stale(q[1], q[2])}}

-----------------------------------------------------------------------------
(* Operations, one per method *)

(* process_heartbeat: auto-registers a device the tenant does not hold. *)
ProcessHeartbeat(t, d) ==
    tenants' = [tenants EXCEPT ![t][d] =
                   IF @ = None THEN [tenant |-> t, net |-> "ONLINE", age |-> 0]
                   ELSE [@ EXCEPT !.net = "ONLINE", !.age = 0]]

(* register_device, the in-memory half: the record of the activation route is
   ONLINE with a heartbeat of now. *)
RegisterDevice(t, d) ==
    tenants' = [tenants EXCEPT ![t][d] = [tenant |-> t, net |-> "ONLINE", age |-> 0]]

(* remove_device.  Both early returns leave the registry as it is; with its last
   device the tenant is erased, which only list_tenants can tell from an empty
   one. *)
RemoveDevice(t, d) == tenants' = [tenants EXCEPT ![t][d] = None]

(* Mutant: operator[] in place of find. *)
MutUpdateCreates(t, d, net) ==
    tenants' = [tenants EXCEPT ![t][d] = [tenant |-> t, net |-> net, age |-> 0]]

(* update_device_status: never creates a record. *)
UpdateDeviceStatus(t, d, net) ==
    tenants' = IF tenants[t][d] = None THEN tenants
               ELSE [tenants EXCEPT ![t][d].net = net]

(* Mutant: the copy filed under the new tenant before the old one is erased. *)
MutMigrateInsertsFirst(d, new) ==
    \E old \in Holders(d) :
        LET dev == tenants[old][d] IN
        tenants' = [[tenants EXCEPT ![new][d] = [dev EXCEPT !.tenant = new]]
                       EXCEPT ![old][d] = None]

(* Mutant: dev.tenant_id = new_tenant left out. *)
MutMigrateKeepsField(d, new) ==
    \E old \in Holders(d) :
        tenants' = [[tenants EXCEPT ![old][d] = None]
                       EXCEPT ![new][d] = tenants[old][d]]

(* migrate_device: copy, erase from the old tenant, insert into the new one. *)
MigrateDevice(d, new) ==
    \E old \in Holders(d) :
        LET dev == tenants[old][d] IN
        tenants' = [[tenants EXCEPT ![old][d] = None]
                       EXCEPT ![new][d] = [dev EXCEPT !.tenant = new]]

(* Mutant: only devices that were online are loaded. *)
MutLoadOnlineOnly(rows) ==
    LET kept(d, t) == rows[d] # None /\ rows[d].tenant = t /\ rows[d].net = "ONLINE" IN
    tenants' = [t \in Tenants |-> [d \in Devices |->
                   IF kept(d, t) THEN rows[d] ELSE None]]

(* A new process: the constructor, then load_from_database on the rows (each
   a record, or None where the table has no row). *)
LoadFromDatabase(rows) ==
    tenants' = [t \in Tenants |-> [d \in Devices |->
                   IF rows[d] # None /\ rows[d].tenant = t THEN rows[d] ELSE None]]

(* One tick of the clock. *)
Older(age) == IF age > Timeout THEN age ELSE age + 1
Aged(r) == IF r = None THEN None ELSE [r EXCEPT !.age = Older(@)]
AgeAll == tenants' = [t \in Tenants |-> [d \in Devices |-> Aged(tenants[t][d])]]

-----------------------------------------------------------------------------
ManagerInit == tenants = [t \in Tenants |-> [d \in Devices |-> None]]

ManagerNext ==
    \/ \E t \in Tenants, d \in Devices :
          \/ ProcessHeartbeat(t, d)
          \/ RegisterDevice(t, d)
          \/ RemoveDevice(t, d)
          \/ MigrateDevice(d, t)
          \/ \E net \in NetworkStatus : UpdateDeviceStatus(t, d, net)
    \/ \E rows \in [Devices -> DeviceRecords \cup {None}] : LoadFromDatabase(rows)
    \/ AgeAll

(* The registry under callers that call anything at any time. *)
ManagerSpec == ManagerInit /\ [][ManagerNext]_managerVars

-----------------------------------------------------------------------------
(* Properties *)

(* The registry holds records of the right shape (DeviceManager::tenants_). *)
ManagerTypeOK == tenants \in [Tenants -> [Devices -> DeviceRecords \cup {None}]]

(* A record's tenant_id field names the tenant it is filed under.
   check_offline_devices addresses a record by that field, so a record that
   disagrees with its key could never be marked offline. *)
KeyMatchesField ==
    \A t \in Tenants, d \in Devices :
        tenants[t][d] # None => tenants[t][d].tenant = t

(* The inductive invariant of the registry. *)
ManagerInv == ManagerTypeOK /\ KeyMatchesField
=============================================================================
