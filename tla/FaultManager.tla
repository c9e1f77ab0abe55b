----------------------------- MODULE FaultManager -----------------------------
(***************************************************************************)
(* The list of active faults (src/app/fault/fault_detector.cpp), next to   *)
(* the device registry that faults are booked with.                        *)
(*                                                                         *)
(* Faults come in as fault_alert and fault_resolved events on the MQTT     *)
(* callback thread, which looks the device's tenant up under one lock and  *)
(* calls the manager under another; the resolve route calls it directly.   *)
(* Each method holds FaultManager::mutex_, the insert of add_fault         *)
(* included.  Meanwhile the registry changes under its own callers: only   *)
(* presence and tenants matter here, so they are the operations of         *)
(* DeviceManager that change those.                                        *)
(*                                                                         *)
(* A fault is its tenant, device and code.  Its level decides nothing:     *)
(* nothing sets alert_cb_.  Nothing calls Database::resolve_fault,         *)
(* on_fault_event or seed_mock_data either, so no row is ever marked       *)
(* resolved.                                                               *)
(***************************************************************************)
EXTENDS DeviceManager, Sequences, SequencesExt

CONSTANTS
    DefaultTenant,  \* what resolve_tenant answers for an unknown device
    Codes,          \* fault codes
    MayFail,        \* an INSERT may fail
    MaxFaults,      \* faults reported per behaviour (bound)
    MaxRestarts     \* crashes per behaviour (bound)

ASSUME FaultAssumption ==
    /\ DefaultTenant \in Tenants
    /\ MayFail \in BOOLEAN
    /\ MaxFaults \in Nat
    /\ MaxRestarts \in Nat

Faults == [tenant : Tenants, dev : Devices, code : Codes]

VARIABLES
    active,     \* active_faults_
    faultRow,   \* the faults table, oldest first
    event,      \* the fault event on the callback thread, None between two
    reported,   \* faults reported so far
    resolved,   \* history: per code, the faults resolved in this process
    restarts    \* crashes so far

faultVars == <<active, faultRow, event, reported, resolved, restarts>>
allVars == <<managerVars, faultVars>>

(* Faults with the code in a list of them. *)
CountOf(s, c) == Cardinality({i \in DOMAIN s : s[i].code = c})

-----------------------------------------------------------------------------
(* resolve_tenant: of the record that find_device_by_id meets first. *)
TenantsFor(d) ==
    IF Present(d) THEN {tenants[t][d].tenant : t \in Holders(d)} ELSE {DefaultTenant}

(* handle_event up to the call of the manager. *)
ReceiveEvent(kind, d, c) ==
    /\ event = None
    /\ kind = "alert" => reported < MaxFaults
    /\ reported' = IF kind = "alert" THEN reported + 1 ELSE reported
    /\ \E t \in TenantsFor(d) :
          event' = [kind |-> kind, fault |-> [tenant |-> t, dev |-> d, code |-> c]]
    /\ UNCHANGED <<managerVars, active, faultRow, resolved, restarts>>

(* insert_fault *)
InsertFault(f) ==
    \E ok \in IF MayFail THEN BOOLEAN ELSE {TRUE} :
        faultRow' = IF ok THEN Append(faultRow, f) ELSE faultRow

(* add_fault: repetitions are listed again; whether the insert succeeded is
   ignored. *)
AddFault ==
    /\ event # None /\ event.kind = "alert"
    /\ active' = Append(active, event.fault)
    /\ InsertFault(event.fault)
    /\ event' = None
    /\ UNCHANGED <<managerVars, reported, resolved, restarts>>

(* Mutant: remove_if in place of find_if, so that every repetition goes. *)
MutResolveFault(t, d, c) ==
    LET same(f) == f.tenant = t /\ f.dev = d /\ f.code = c IN
    /\ active' = SelectSeq(active, LAMBDA f : ~same(f))
    /\ resolved' = IF SelectInSeq(active, same) = 0 THEN resolved
                   ELSE [resolved EXCEPT ![c] = @ + 1]

(* resolve_fault takes out the first fault with the tenant, device and code, in
   memory only; it is not found under any other tenant or device. *)
ResolveFault(t, d, c) ==
    LET i == SelectInSeq(active, LAMBDA f : f.tenant = t /\ f.dev = d /\ f.code = c) IN
    IF i = 0 THEN UNCHANGED <<active, resolved>>
    ELSE /\ active' = RemoveAt(active, i)
         /\ resolved' = [resolved EXCEPT ![c] = @ + 1]

HandleResolved ==
    /\ event # None /\ event.kind = "resolved"
    /\ ResolveFault(event.fault.tenant, event.fault.dev, event.fault.code)
    /\ event' = None
    /\ UNCHANGED <<managerVars, faultRow, reported, restarts>>

(* PUT /api/v1/faults/resolve *)
ResolveRoute(t, d, c) ==
    /\ ResolveFault(t, d, c)
    /\ UNCHANGED <<managerVars, faultRow, event, reported, restarts>>

-----------------------------------------------------------------------------
(* The registry's other callers *)

Registry(t, d) ==
    /\ \/ ProcessHeartbeat(t, d)
       \/ RemoveDevice(t, d)
       \/ MigrateDevice(d, t)
    /\ UNCHANGED faultVars

(* load_from_database: list_active_faults, newest first. *)
LoadedFaults == Reverse(faultRow)

(* Mutant: find_if in place of the loop, so that one fault is reassigned. *)
MutReassign(faults, valid, target) ==
    LET i == SelectInSeq(faults, LAMBDA f : f.dev \notin valid) IN
    IF i = 0 THEN faults ELSE [faults EXCEPT ![i].dev = target]

(* reassign_unknown_devices: the device changes, the tenant stays. *)
ReassignUnknown(faults, valid, target) ==
    [i \in DOMAIN faults |->
        IF faults[i].dev \in valid THEN faults[i] ELSE [faults[i] EXCEPT !.dev = target]]

(* A crash, and the start of the next process: the registry is loaded from
   whatever the devices table holds, then the faults; those of devices that are
   gone are shown under the first device, if there is one. *)
Start(rows) ==
    /\ restarts < MaxRestarts
    /\ restarts' = restarts + 1
    /\ LoadFromDatabase(rows)
    /\ LET valid == {d \in Devices : Present(d)'} IN
       \/ valid = {} /\ active' = LoadedFaults
       \/ \E target \in valid : active' = ReassignUnknown(LoadedFaults, valid, target)
    /\ event' = None
    /\ resolved' = [c \in Codes |-> 0]
    /\ UNCHANGED <<faultRow, reported>>

StoredDevices == [Devices -> {None} \cup [tenant : Tenants, net : {"ONLINE"}, age : {0}]]

-----------------------------------------------------------------------------
FaultInit ==
    /\ ManagerInit
    /\ active = <<>>
    /\ faultRow = <<>>
    /\ event = None
    /\ reported = 0
    /\ resolved = [c \in Codes |-> 0]
    /\ restarts = 0

FaultNext ==
    \/ \E kind \in {"alert", "resolved"}, d \in Devices, c \in Codes : ReceiveEvent(kind, d, c)
    \/ AddFault
    \/ HandleResolved
    \/ \E t \in Tenants, d \in Devices, c \in Codes : ResolveRoute(t, d, c)
    \/ \E t \in Tenants, d \in Devices : Registry(t, d)
    \/ \E rows \in StoredDevices : Start(rows)

FaultSpec == FaultInit /\ [][FaultNext]_allVars

-----------------------------------------------------------------------------
(* Properties *)

(* No stored fault gets lost: of every code at least as many are listed as have
   a row and were not resolved one by one in this process, whatever devices were
   migrated or deleted, faults reassigned and processes restarted in between; a
   process starts with every row listed again, the resolved ones too (add_fault,
   resolve_fault, load_from_database, reassign_unknown_devices). *)
StoredFaultsListed ==
    \A c \in Codes : CountOf(active, c) + resolved[c] >= CountOf(faultRow, c)

(* A start leaves no fault with a device that is gone, as long as there is any
   device to show it under (main, reassign_unknown_devices). *)
StartAdoptsFaults ==
    [][restarts' # restarts /\ (\E d \in Devices : Present(d)') =>
          \A i \in DOMAIN active' : \E t \in Tenants : tenants'[t][active'[i].dev] # None]_allVars
=============================================================================
