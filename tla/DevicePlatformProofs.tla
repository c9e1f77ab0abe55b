----------------------- MODULE DevicePlatformProofs -------------------------
(***************************************************************************)
(* Safety of the device service for any number of connections, devices,    *)
(* tenants, failed writes and restarts.                                    *)
(*                                                                         *)
(* The promise made by an activation rests on PlatformInv.  A handler that  *)
(* may acknowledge (claim) is past insert_device and the row it saw is     *)
(* still there, because the only statement that removes a row also ends    *)
(* every claim on it; and the registry never loses a device except in      *)
(* remove_device, which ends the promise, or in a crash, after which it    *)
(* holds exactly the rows.                                                 *)
(***************************************************************************)
EXTENDS DevicePlatform, DeviceManagerProofs

USE DeviceAssumption, PlatformAssumption

-----------------------------------------------------------------------------
(* Which calls of the registry keep a device findable *)

(* A heartbeat loses no device. *)
LEMMA HeartbeatKeepsPresent ==
    ASSUME NEW t \in Tenants, NEW d \in Devices, ManagerTypeOK,
           ProcessHeartbeat(t, d), NEW e \in Devices, Present(e)
    PROVE  Present(e)'
<1>1. PICK s \in Tenants : tenants[s][e] # None
  BY DEF Present, Holders
<1>2. CASE s = t /\ e = d
  <2>1. tenants[s][e] \in DeviceRecords
    BY <1>1 DEF ManagerTypeOK
  <2>2. tenants'[s][e] = [tenants[s][e] EXCEPT !.net = "ONLINE", !.age = 0]
    BY <1>1, <1>2 DEF ProcessHeartbeat, ManagerTypeOK
  <2>3. tenants[s][e] = [tenant |-> tenants[s][e].tenant, net |-> tenants[s][e].net,
                         age |-> tenants[s][e].age]
    BY <2>1 DEF DeviceRecords
  <2>4. tenants'[s][e] = [tenant |-> tenants[s][e].tenant, net |-> "ONLINE", age |-> 0]
    BY <2>2, <2>3
  <2>5. tenants[s][e].tenant \in Tenants
    BY <2>1 DEF DeviceRecords
  <2>6. tenants'[s][e] \in DeviceRecords
    BY <2>4, <2>5, FreshRecord DEF NetworkStatus
  <2>. QED
    BY <2>6 DEF Present, Holders
<1>3. CASE ~(s = t /\ e = d)
  <2>1. tenants'[s][e] = tenants[s][e]
    BY <1>3 DEF ProcessHeartbeat, ManagerTypeOK
  <2>. QED
    BY <1>1, <2>1 DEF Present, Holders
<1>. QED
  BY <1>2, <1>3

(* Registration loses none and adds its own. *)
LEMMA RegisterKeepsPresent ==
    ASSUME NEW t \in Tenants, NEW d \in Devices, ManagerTypeOK,
           RegisterDevice(t, d), NEW e \in Devices, Present(e) \/ e = d
    PROVE  Present(e)'
<1>1. [tenant |-> t, net |-> "ONLINE", age |-> 0] # None
  BY FreshRecord DEF NetworkStatus
<1>2. tenants'[t][d] = [tenant |-> t, net |-> "ONLINE", age |-> 0]
  BY DEF RegisterDevice, ManagerTypeOK
<1>3. \A s \in Tenants : tenants[s][e] # None => tenants'[s][e] # None
  BY <1>1 DEF RegisterDevice, ManagerTypeOK
<1>. QED
  BY <1>1, <1>2, <1>3 DEF Present, Holders

(* Removal loses no other device. *)
LEMMA RemoveKeepsOthers ==
    ASSUME NEW t \in Tenants, NEW d \in Devices, ManagerTypeOK,
           RemoveDevice(t, d), NEW e \in Devices, e # d, Present(e)
    PROVE  Present(e)'
<1>1. \A s \in Tenants : tenants'[s][e] = tenants[s][e]
  BY DEF RemoveDevice, ManagerTypeOK, managerVars
<1>. QED
  BY <1>1 DEF Present, Holders

(* A status change loses none. *)
LEMMA UpdateKeepsPresent ==
    ASSUME NEW t \in Tenants, NEW d \in Devices, NEW net \in NetworkStatus,
           ManagerTypeOK, UpdateDeviceStatus(t, d, net),
           NEW e \in Devices, Present(e)
    PROVE  Present(e)'
<1>1. PICK s \in Tenants : tenants[s][e] # None
  BY DEF Present, Holders
<1>2. tenants'[s][e] # None
  <2>1. CASE tenants[t][d] = None \/ ~(s = t /\ e = d)
    BY <1>1, <2>1 DEF UpdateDeviceStatus, ManagerTypeOK
  <2>2. CASE tenants[t][d] # None /\ s = t /\ e = d
    <3>1. tenants'[s][e] = [tenants[s][e] EXCEPT !.net = net]
      BY <2>2 DEF UpdateDeviceStatus, ManagerTypeOK
    <3>2. tenants[s][e] \in DeviceRecords
      BY <1>1 DEF ManagerTypeOK
    <3>3. tenants'[s][e] \in DeviceRecords
      BY <3>1, <3>2 DEF DeviceRecords
    <3>. QED
      BY <3>3
  <2>. QED
    BY <2>1, <2>2
<1>. QED
  BY <1>2 DEF Present, Holders

(* Migration loses none, to the same tenant included. *)
LEMMA MigrateKeepsPresent ==
    ASSUME NEW t \in Tenants, NEW d \in Devices, ManagerTypeOK,
           MigrateDevice(d, t), NEW e \in Devices, Present(e)
    PROVE  Present(e)'
<1>1. PICK old \in Holders(d) :
         tenants' = [[tenants EXCEPT ![old][d] = None]
                        EXCEPT ![t][d] = [tenants[old][d] EXCEPT !.tenant = t]]
  BY DEF MigrateDevice
<1>2. old \in Tenants /\ tenants[old][d] \in DeviceRecords
  BY DEF Holders, ManagerTypeOK
<1>3. [tenants[old][d] EXCEPT !.tenant = t] \in DeviceRecords
  BY <1>2 DEF DeviceRecords
<1>4. tenants'[t][d] = [tenants[old][d] EXCEPT !.tenant = t]
  BY <1>1, <1>2 DEF ManagerTypeOK
<1>5. CASE e = d
  BY <1>3, <1>4, <1>5 DEF Present, Holders
<1>6. CASE e # d
  <2>1. \A s \in Tenants : tenants'[s][e] = tenants[s][e]
    BY <1>1, <1>2, <1>6 DEF ManagerTypeOK
  <2>. QED
    BY <2>1 DEF Present, Holders
<1>. QED
  BY <1>5, <1>6

(* The clock loses none. *)
LEMMA AgeKeepsPresent ==
    ASSUME ManagerTypeOK, AgeAll, NEW e \in Devices, Present(e)
    PROVE  Present(e)'
<1>1. \A s \in Tenants : tenants[s][e] \in DeviceRecords \cup {None}
  BY DEF ManagerTypeOK
<1>2. \A s \in Tenants : tenants[s][e] # None => tenants'[s][e] # None
  BY <1>1, AgedRecord DEF AgeAll
<1>. QED
  BY <1>2 DEF Present, Holders

(* After a reload a device with a row can be found. *)
LEMMA LoadedArePresent ==
    ASSUME NEW rows \in [Devices -> DeviceRecords \cup {None}],
           LoadFromDatabase(rows), NEW e \in Devices, rows[e] # None
    PROVE  Present(e)'
<1>1. rows[e].tenant \in Tenants
  BY DEF DeviceRecords
<1>2. tenants'[rows[e].tenant][e] = rows[e]
  BY <1>1 DEF LoadFromDatabase
<1>. QED
  BY <1>1, <1>2 DEF Present, Holders

-----------------------------------------------------------------------------
(* The service drives the registry only through its methods *)

(* Every status payload is turned into a network status. *)
LEMMA StatusIsNet == \A p : StatusToNet(p) \in NetworkStatus
BY DEF StatusToNet, NetworkStatus

(* A step of the service is one call of the registry, or leaves it alone. *)
LEMMA StepIsManagerStep == TypeOK /\ [Next]_vars => [ManagerNext]_managerVars
<1>. SUFFICES ASSUME TypeOK, [Next]_vars PROVE [ManagerNext]_managerVars
  OBVIOUS
<1>1. CASE UNCHANGED vars
  BY <1>1 DEF vars, managerVars
<1>2. ASSUME NEW h \in Handlers, NEW d \in Devices, ActivateExisting(h, d) \/ DeleteFind(h, d)
      PROVE  [ManagerNext]_managerVars
  BY <1>2 DEF ActivateExisting, DeleteFind
<1>3. ASSUME NEW h \in Handlers, NEW d \in Devices, NEW t \in Tenants, ActivateNew(h, d, t)
      PROVE  [ManagerNext]_managerVars
  BY <1>3 DEF ActivateNew
<1>4. ASSUME NEW h \in Handlers, NEW d \in Devices, NEW t \in Tenants, MigrateMemory(h, d, t)
      PROVE  [ManagerNext]_managerVars
  BY <1>4 DEF MigrateMemory, ManagerNext
<1>5. ASSUME NEW h \in Handlers,
             ActivateInsert(h) \/ ActivateToken(h) \/ MigrateRow(h)
                \/ DeleteTokens(h) \/ DeleteRow(h)
      PROVE  [ManagerNext]_managerVars
  BY <1>5 DEF ActivateInsert, ActivateToken, MigrateRow, DeleteTokens, DeleteRow
<1>6. ASSUME NEW h \in Handlers, ActivateRegister(h)
      PROVE  [ManagerNext]_managerVars
  <2>1. api[h].dev \in Devices /\ api[h].tenant \in Tenants
    BY <1>6 DEF TypeOK, ActivateRegister
  <2>. QED
    BY <1>6, <2>1 DEF ActivateRegister, ManagerNext
<1>7. ASSUME NEW h \in Handlers, DeleteRemove(h)
      PROVE  [ManagerNext]_managerVars
  <2>1. api[h].dev \in Devices /\ api[h].tenant \in Tenants
    BY <1>7 DEF TypeOK, DeleteRemove
  <2>. QED
    BY <1>7, <2>1 DEF DeleteRemove, ManagerNext
<1>8. CASE Uplink \/ SweepList
  BY <1>8 DEF Uplink, ReceiveHeartbeat, ReceiveStatus, SweepList
<1>9. CASE HandleHeartbeat
  <2>1. mqtt.dev \in Devices /\ mqtt.tenant \in Tenants
    BY <1>9 DEF TypeOK, HandleHeartbeat
  <2>. QED
    BY <1>9, <2>1 DEF HandleHeartbeat, ManagerNext
<1>10. CASE HandleStatus
  <2>1. mqtt.dev \in Devices /\ mqtt.tenant \in Tenants
    BY <1>10 DEF TypeOK, HandleStatus
  <2>. QED
    BY <1>10, <2>1, StatusIsNet DEF HandleStatus, ManagerNext
<1>11. CASE SweepMark
  <2>1. PICK p \in todo : UpdateDeviceStatus(p[1], p[2], "OFFLINE")
    BY <1>11 DEF SweepMark
  <2>2. p[1] \in Tenants /\ p[2] \in Devices
    BY DEF TypeOK
  <2>. QED
    BY <2>1, <2>2 DEF ManagerNext, NetworkStatus
<1>12. CASE Tick
  BY <1>12 DEF Tick, ManagerNext
<1>13. CASE Restart
  BY <1>13 DEF Restart, TypeOK, ManagerNext
<1>. QED
  BY <1>1, <1>2, <1>3, <1>4, <1>5, <1>6, <1>7, <1>8, <1>9, <1>10, <1>11, <1>12, <1>13
  DEF Next, Request, HandlerStep

-----------------------------------------------------------------------------
(* Type correctness *)

(* A request handler moving on keeps the types of all handlers. *)
LEMMA GotoType ==
    ASSUME TypeOK, NEW h \in Handlers, NEW pc \in ApiSteps,
           NEW d \in Devices, NEW t \in Tenants, Goto(h, pc, d, t)
    PROVE  /\ api' \in [Handlers -> ApiStates]
           /\ \A g \in Handlers : api'[g].pc # "idle" =>
                 api'[g].dev \in Devices /\ api'[g].tenant \in Tenants
<1>. DEFINE new == [pc |-> pc, dev |-> d, tenant |-> t]
<1>1. new \in ApiStates /\ new.dev = d /\ new.tenant = t
  BY DEF ApiStates
<1>2. api' = [api EXCEPT ![h] = new]
  BY DEF Goto
<1>. HIDE DEF new
<1>. QED
  BY <1>1, <1>2 DEF TypeOK

(* So does one that answers. *)
LEMMA ReplyType ==
    ASSUME TypeOK, NEW h \in Handlers, Reply(h)
    PROVE  /\ api' \in [Handlers -> ApiStates]
           /\ \A g \in Handlers : api'[g].pc # "idle" =>
                 api'[g].dev \in Devices /\ api'[g].tenant \in Tenants
<1>1. Idle \in ApiStates /\ Idle.pc = "idle"
  BY DEF Idle, ApiStates, ApiSteps
<1>2. api' = [api EXCEPT ![h] = Idle]
  BY DEF Reply
<1>. QED
  BY <1>1, <1>2 DEF TypeOK

(* The rows the statements write are records. *)
LEMMA RowTypes ==
    ASSUME TypeOK, NEW d \in Devices, NEW t \in Tenants,
           \/ InsertDevice(d, t)
           \/ UpsertDevice(d, t)
           \/ UpdateTenant(d, t)
           \/ DeleteDevice(d)
           \/ UNCHANGED row
    PROVE  row' \in [Devices -> DeviceRecords \cup {None}]
<1>1. Fresh(t, "OFFLINE", Timeout + 1) \in DeviceRecords
  BY DEF Fresh, DeviceRecords, NetworkStatus, Ages
<1>2. Fresh(t, "ONLINE", 0) \in DeviceRecords
  BY DEF Fresh, DeviceRecords, NetworkStatus, Ages
<1>3. row[d] # None => [row[d] EXCEPT !.tenant = t] \in DeviceRecords
  <2>. SUFFICES ASSUME row[d] # None PROVE [row[d] EXCEPT !.tenant = t] \in DeviceRecords
    OBVIOUS
  <2>1. row[d] \in DeviceRecords
    BY DEF TypeOK
  <2>. QED
    BY <2>1 DEF DeviceRecords
<1>4. CASE InsertDevice(d, t)
  BY <1>1, <1>4 DEF TypeOK, InsertDevice
<1>5. CASE UpsertDevice(d, t)
  BY <1>2, <1>5 DEF TypeOK, UpsertDevice
<1>6. CASE UpdateTenant(d, t)
  BY <1>3, <1>6 DEF TypeOK, UpdateTenant
<1>7. CASE DeleteDevice(d)
  BY <1>7 DEF TypeOK, DeleteDevice
<1>8. CASE UNCHANGED row
  BY <1>8 DEF TypeOK
<1>. QED
  BY <1>4, <1>5, <1>6, <1>7, <1>8

(* Every step keeps the types, given that the registry keeps its own. *)
LEMMA TypeStep == TypeOK /\ ManagerTypeOK' /\ [Next]_vars => TypeOK'
<1>. SUFFICES ASSUME TypeOK, ManagerTypeOK', [Next]_vars PROVE TypeOK'
  OBVIOUS
<1>1. CASE UNCHANGED vars
  BY <1>1 DEF vars, TypeOK
<1>2. ASSUME NEW h \in Handlers, NEW d \in Devices, ActivateExisting(h, d) PROVE TypeOK'
  <2>1. row[d].tenant \in Tenants
    BY <1>2 DEF ActivateExisting, TypeOK, DeviceRecords
  <2>2. "register" \in ApiSteps
    BY DEF ApiSteps
  <2>. QED
    BY <1>2, <2>1, <2>2, GotoType DEF ActivateExisting, TypeOK, dbVars
<1>3. ASSUME NEW h \in Handlers, NEW d \in Devices, NEW t \in Tenants, ActivateNew(h, d, t)
      PROVE TypeOK'
  <2>1. "insert" \in ApiSteps
    BY DEF ApiSteps
  <2>. QED
    BY <1>3, <2>1, GotoType DEF ActivateNew, TypeOK, dbVars, ghostVars
<1>4. ASSUME NEW h \in Handlers, ActivateInsert(h) PROVE TypeOK'
  <2>1. api[h].dev \in Devices /\ api[h].tenant \in Tenants
    BY <1>4 DEF TypeOK, ActivateInsert
  <2>2. "token" \in ApiSteps
    BY DEF ApiSteps
  <2>3. /\ api' \in [Handlers -> ApiStates]
        /\ \A g \in Handlers : api'[g].pc # "idle" =>
              api'[g].dev \in Devices /\ api'[g].tenant \in Tenants
    BY <1>4, <2>1, <2>2, GotoType, ReplyType DEF ActivateInsert
  <2>4. row' \in [Devices -> DeviceRecords \cup {None}]
    BY <1>4, <2>1, RowTypes DEF ActivateInsert
  <2>. QED
    BY <1>4, <2>3, <2>4 DEF ActivateInsert, TypeOK
<1>5. ASSUME NEW h \in Handlers, ActivateToken(h) PROVE TypeOK'
  <2>1. api[h].dev \in Devices /\ api[h].tenant \in Tenants
    BY <1>5 DEF TypeOK, ActivateToken
  <2>2. "register" \in ApiSteps
    BY DEF ApiSteps
  <2>. QED
    BY <1>5, <2>1, <2>2, GotoType DEF ActivateToken, TypeOK, ghostVars
<1>6. ASSUME NEW h \in Handlers, ActivateRegister(h) PROVE TypeOK'
  <2>1. api[h].dev \in Devices /\ api[h].tenant \in Tenants
    BY <1>6 DEF TypeOK, ActivateRegister
  <2>2. row' \in [Devices -> DeviceRecords \cup {None}]
    BY <1>6, <2>1, RowTypes DEF ActivateRegister
  <2>. QED
    BY <1>6, <2>1, <2>2, ReplyType DEF ActivateRegister, TypeOK
<1>7. ASSUME NEW h \in Handlers, NEW d \in Devices, NEW t \in Tenants, MigrateMemory(h, d, t)
      PROVE TypeOK'
  <2>1. "update" \in ApiSteps
    BY DEF ApiSteps
  <2>. QED
    BY <1>7, <2>1, GotoType DEF MigrateMemory, TypeOK, dbVars, ghostVars
<1>8. ASSUME NEW h \in Handlers, MigrateRow(h) PROVE TypeOK'
  <2>1. api[h].dev \in Devices /\ api[h].tenant \in Tenants
    BY <1>8 DEF TypeOK, MigrateRow
  <2>2. row' \in [Devices -> DeviceRecords \cup {None}]
    BY <1>8, <2>1, RowTypes DEF MigrateRow
  <2>. QED
    BY <1>8, <2>2, ReplyType DEF MigrateRow, TypeOK, ghostVars
<1>9. ASSUME NEW h \in Handlers, NEW d \in Devices, DeleteFind(h, d) PROVE TypeOK'
  <2>1. PICK t \in Holders(d) : Goto(h, "remove", d, tenants[t][d].tenant)
    BY <1>9 DEF DeleteFind
  <2>2. tenants[t][d].tenant \in Tenants
    BY DEF Holders, TypeOK, ManagerTypeOK, DeviceRecords
  <2>3. "remove" \in ApiSteps
    BY DEF ApiSteps
  <2>. QED
    BY <1>9, <2>1, <2>2, <2>3, GotoType DEF DeleteFind, TypeOK, dbVars, ghostVars
<1>10. ASSUME NEW h \in Handlers, DeleteRemove(h) PROVE TypeOK'
  <2>1. api[h].dev \in Devices /\ api[h].tenant \in Tenants
    BY <1>10 DEF TypeOK, DeleteRemove
  <2>2. "tokens" \in ApiSteps
    BY DEF ApiSteps
  <2>. QED
    BY <1>10, <2>1, <2>2, GotoType DEF DeleteRemove, TypeOK, dbVars, Disown
<1>11. ASSUME NEW h \in Handlers, DeleteTokens(h) PROVE TypeOK'
  <2>1. api[h].dev \in Devices /\ api[h].tenant \in Tenants
    BY <1>11 DEF TypeOK, DeleteTokens
  <2>2. "row" \in ApiSteps
    BY DEF ApiSteps
  <2>. QED
    BY <1>11, <2>1, <2>2, GotoType DEF DeleteTokens, TypeOK, ghostVars
<1>12. ASSUME NEW h \in Handlers, DeleteRow(h) PROVE TypeOK'
  <2>1. api[h].dev \in Devices /\ api[h].tenant \in Tenants
    BY <1>12 DEF TypeOK, DeleteRow
  <2>2. row' \in [Devices -> DeviceRecords \cup {None}]
    BY <1>12, <2>1, RowTypes DEF DeleteRow
  <2>. QED
    BY <1>12, <2>2, ReplyType DEF DeleteRow, TypeOK, Disown
<1>13. ASSUME NEW d \in Devices, ReceiveHeartbeat(d) PROVE TypeOK'
  <2>1. ResolvedTenants(d) \subseteq Tenants
    BY DEF ResolvedTenants, Holders, TypeOK, ManagerTypeOK, DeviceRecords
  <2>2. PICK t \in ResolvedTenants(d) :
           mqtt' = [pc |-> "heartbeat", dev |-> d, tenant |-> t, payload |-> None]
    BY <1>13 DEF ReceiveHeartbeat
  <2>3. /\ mqtt' \in MqttStates
        /\ mqtt'.dev \in Devices /\ mqtt'.tenant \in Tenants
        /\ mqtt'.pc # "status"
    BY <2>1, <2>2 DEF MqttStates
  <2>. QED
    BY <1>13, <2>3 DEF ReceiveHeartbeat, TypeOK, dbVars, ghostVars
<1>14. ASSUME NEW d \in Devices, NEW p \in Payloads, ReceiveStatus(d, p) PROVE TypeOK'
  <2>1. ResolvedTenants(d) \subseteq Tenants
    BY DEF ResolvedTenants, Holders, TypeOK, ManagerTypeOK, DeviceRecords
  <2>2. PICK t \in ResolvedTenants(d) :
           mqtt' = [pc |-> "status", dev |-> d, tenant |-> t, payload |-> p]
    BY <1>14 DEF ReceiveStatus
  <2>3. p \in StatusPayloads
    <3>1. /\ WillPayload \in StatusPayloads
          /\ QuotedOffline \in StatusPayloads
          /\ QuotedOnline \in StatusPayloads
      BY DEF WillPayload, QuotedOffline, QuotedOnline, StatusPayloads
    <3>. QED
      BY <3>1 DEF Payloads
  <2>4. /\ mqtt' \in MqttStates
        /\ mqtt'.dev \in Devices /\ mqtt'.tenant \in Tenants
        /\ mqtt'.payload \in StatusPayloads
    <3>1. t \in Tenants
      BY <2>1, <2>2
    <3>. QED
      BY <2>2, <2>3, <3>1 DEF MqttStates
  <2>. QED
    BY <1>14, <2>4 DEF ReceiveStatus, TypeOK, dbVars, ghostVars
<1>15. CASE HandleHeartbeat \/ HandleStatus
  <2>1. MqttIdle \in MqttStates /\ MqttIdle.pc = "idle"
    BY DEF MqttIdle, MqttStates
  <2>. QED
    BY <1>15, <2>1 DEF HandleHeartbeat, HandleStatus, TypeOK, dbVars, ghostVars
<1>16. CASE SweepList
  <2>1. ListOfflineDevices \subseteq Tenants \X Devices
    BY DEF ListOfflineDevices, Stale, TypeOK, ManagerTypeOK, DeviceRecords
  <2>. QED
    BY <1>16, <2>1 DEF SweepList, TypeOK, dbVars, ghostVars
<1>17. CASE SweepMark
  BY <1>17 DEF SweepMark, TypeOK, dbVars, ghostVars
<1>18. CASE Tick
  <2>1. row' \in [Devices -> DeviceRecords \cup {None}]
    BY <1>18, AgedRecord DEF Tick, TypeOK
  <2>. QED
    BY <1>18, <2>1 DEF Tick, TypeOK, ghostVars
<1>19. CASE Restart
  <2>1. Idle \in ApiStates /\ Idle.pc = "idle" /\ MqttIdle \in MqttStates /\ MqttIdle.pc = "idle"
    BY DEF Idle, ApiStates, ApiSteps, MqttIdle, MqttStates
  <2>. QED
    BY <1>19, <2>1 DEF Restart, TypeOK, dbVars
<1>. QED
  BY <1>1, <1>2, <1>3, <1>4, <1>5, <1>6, <1>7, <1>8, <1>9, <1>10, <1>11, <1>12, <1>13,
     <1>14, <1>15, <1>16, <1>17, <1>18, <1>19
  DEF Next, Request, HandlerStep, Uplink

-----------------------------------------------------------------------------
(* The promise of an activation *)

(* A device that can be found is found after every step, but for a crash and
   for the removal of that very device. *)
LEMMA PresenceKept ==
    ASSUME TypeOK, Next, ~Restart, NEW e \in Devices, Present(e),
           \A h \in Handlers : DeleteRemove(h) => api[h].dev # e
    PROVE  Present(e)'
<1>. USE DEF TypeOK
<1>1. CASE UNCHANGED managerVars
  BY <1>1 DEF managerVars, Present, Holders
<1>2. ASSUME NEW h \in Handlers, NEW d \in Devices, NEW t \in Tenants, MigrateMemory(h, d, t)
      PROVE  Present(e)'
  BY <1>2, MigrateKeepsPresent DEF MigrateMemory
<1>3. ASSUME NEW h \in Handlers, ActivateRegister(h)
      PROVE  Present(e)'
  <2>1. api[h].dev \in Devices /\ api[h].tenant \in Tenants
    BY <1>3 DEF ActivateRegister
  <2>. QED
    BY <1>3, <2>1, RegisterKeepsPresent DEF ActivateRegister
<1>4. ASSUME NEW h \in Handlers, DeleteRemove(h)
      PROVE  Present(e)'
  <2>1. api[h].dev \in Devices /\ api[h].tenant \in Tenants /\ api[h].dev # e
    BY <1>4 DEF DeleteRemove
  <2>. QED
    BY <1>4, <2>1, RemoveKeepsOthers DEF DeleteRemove
<1>5. CASE HandleHeartbeat
  <2>1. mqtt.dev \in Devices /\ mqtt.tenant \in Tenants
    BY <1>5 DEF HandleHeartbeat
  <2>. QED
    BY <1>5, <2>1, HeartbeatKeepsPresent DEF HandleHeartbeat
<1>6. CASE HandleStatus
  <2>1. mqtt.dev \in Devices /\ mqtt.tenant \in Tenants
    BY <1>6 DEF HandleStatus
  <2>. QED
    BY <1>6, <2>1, StatusIsNet, UpdateKeepsPresent DEF HandleStatus
<1>7. CASE SweepMark
  <2>1. PICK p \in todo : UpdateDeviceStatus(p[1], p[2], "OFFLINE")
    BY <1>7 DEF SweepMark
  <2>2. p[1] \in Tenants /\ p[2] \in Devices /\ "OFFLINE" \in NetworkStatus
    BY DEF NetworkStatus
  <2>. QED
    BY <2>1, <2>2, UpdateKeepsPresent
<1>8. CASE Tick
  BY <1>8, AgeKeepsPresent DEF Tick
<1>9. \/ UNCHANGED managerVars
      \/ \E h \in Handlers, d \in Devices, t \in Tenants : MigrateMemory(h, d, t)
      \/ \E h \in Handlers : ActivateRegister(h) \/ DeleteRemove(h)
      \/ HandleHeartbeat \/ HandleStatus \/ SweepMark \/ Tick
  BY DEF Next, Request, HandlerStep, Uplink, ActivateExisting, ActivateNew, ActivateInsert,
         ActivateToken, MigrateRow, DeleteFind, DeleteTokens, DeleteRow, ReceiveHeartbeat,
         ReceiveStatus, SweepList
<1>. QED
  BY <1>1, <1>2, <1>3, <1>4, <1>5, <1>6, <1>7, <1>8, <1>9

(* The steps that leave rows, requests and promises alone. *)
QuietStep ==
    \/ Uplink \/ HandleHeartbeat \/ HandleStatus \/ SweepList \/ SweepMark

(* Rows stay unique per hardware uid, and claims and promises keep their row,
   in every step. *)
LEMMA RowsStep ==
    ASSUME PlatformInv, Next
    PROVE  AckedDeviceDurable' /\ ClaimsHaveRows' /\ RowsUnique'
<1>. USE DEF PlatformInv, AckedDeviceDurable, ClaimsHaveRows, RowsUnique
<1>0. /\ row \in [Devices -> DeviceRecords \cup {None}]
      /\ api \in [Handlers -> ApiStates]
      /\ claim \subseteq Handlers /\ owed \subseteq Devices
      /\ \A h \in Handlers : api[h].pc # "idle" =>
            api[h].dev \in Devices /\ api[h].tenant \in Tenants
      /\ \A h \in claim : api[h].dev \in Devices
  BY DEF TypeOK
<1>1. \A t \in Tenants, net \in NetworkStatus, age \in Ages : Fresh(t, net, age) # None
  BY DEF Fresh, DeviceRecords
<1>2. /\ "ONLINE" \in NetworkStatus /\ "OFFLINE" \in NetworkStatus
      /\ 0 \in Ages /\ Timeout + 1 \in Ages
  BY DEF NetworkStatus, Ages
<1>3. ASSUME NEW h \in Handlers, NEW d \in Devices, ActivateExisting(h, d)
      PROVE  AckedDeviceDurable' /\ ClaimsHaveRows' /\ RowsUnique'
  BY <1>0, <1>3 DEF ActivateExisting, Goto, dbVars
<1>4. ASSUME NEW h \in Handlers, NEW d \in Devices, NEW t \in Tenants,
             ActivateNew(h, d, t) \/ MigrateMemory(h, d, t) \/ DeleteFind(h, d)
      PROVE  AckedDeviceDurable' /\ ClaimsHaveRows' /\ RowsUnique'
  <2>1. h \notin claim
    BY <1>4 DEF ActivateNew, MigrateMemory, DeleteFind
  <2>2. \A g \in Handlers \ {h} : api'[g] = api[g]
    BY <1>0, <1>4 DEF ActivateNew, MigrateMemory, DeleteFind, Goto
  <2>3. UNCHANGED <<row, claim, owed>>
    BY <1>4 DEF ActivateNew, MigrateMemory, DeleteFind, dbVars, ghostVars
  <2>. QED
    BY <1>0, <2>1, <2>2, <2>3
<1>5. ASSUME NEW h \in Handlers, ActivateInsert(h)
      PROVE  AckedDeviceDurable' /\ ClaimsHaveRows' /\ RowsUnique'
  <2>. DEFINE d == api[h].dev
  <2>0. h \notin claim /\ d \in Devices /\ api[h].tenant \in Tenants
    BY <1>0, <1>5 DEF ActivateInsert
  <2>1. CASE UidFree(d) /\ InsertDevice(d, api[h].tenant)
              /\ Goto(h, "token", d, api[h].tenant) /\ claim' = claim \cup {h}
    <3>1. /\ row'[d] # None
          /\ \A e \in Devices \ {d} : row'[e] = row[e]
          /\ \A e \in Devices : UidOf(e) = UidOf(d) => row[e] = None
      BY <1>0, <1>1, <1>2, <2>0, <2>1 DEF InsertDevice, UidFree
    <3>2. RowsUnique'
      BY <2>0, <3>1
    <3>3. \A e \in Devices : row[e] # None => row'[e] # None
      BY <2>0, <3>1
    <3>4. AckedDeviceDurable'
      BY <1>0, <1>5, <3>3 DEF ActivateInsert
    <3>5. /\ \A g \in Handlers \ {h} : api'[g] = api[g]
          /\ api'[h].pc = "token" /\ api'[h].dev = d
      BY <1>0, <2>1 DEF Goto
    <3>6. ClaimsHaveRows'
      BY <1>0, <2>0, <2>1, <3>1, <3>3, <3>5
    <3>. QED
      BY <3>2, <3>4, <3>6
  <2>2. CASE Reply(h) /\ UNCHANGED <<row, claim>>
    <3>1. \A g \in Handlers \ {h} : api'[g] = api[g]
      BY <1>0, <2>2 DEF Reply
    <3>. QED
      BY <1>0, <1>5, <2>0, <2>2, <3>1 DEF ActivateInsert
  <2>. QED
    BY <1>5, <2>1, <2>2 DEF ActivateInsert
<1>6. ASSUME NEW h \in Handlers, ActivateToken(h)
      PROVE  AckedDeviceDurable' /\ ClaimsHaveRows' /\ RowsUnique'
  <2>1. /\ \A g \in Handlers \ {h} : api'[g] = api[g]
        /\ api'[h].pc = "register" /\ api'[h].dev = api[h].dev
    BY <1>0, <1>6 DEF ActivateToken, Goto
  <2>. QED
    BY <1>0, <1>6, <2>1 DEF ActivateToken, ghostVars
<1>7. ASSUME NEW h \in Handlers, ActivateRegister(h)
      PROVE  AckedDeviceDurable' /\ ClaimsHaveRows' /\ RowsUnique'
  <2>. DEFINE d == api[h].dev
  <2>0. d \in Devices /\ api[h].tenant \in Tenants
    BY <1>0, <1>7 DEF ActivateRegister
  <2>1. CASE UNCHANGED row
    <3>1. \A g \in Handlers \ {h} : api'[g] = api[g]
      BY <1>0, <1>7 DEF ActivateRegister, Reply
    <3>. QED
      BY <1>0, <1>7, <2>1, <3>1 DEF ActivateRegister
  <2>2. CASE (row[d] # None \/ UidFree(d))
               /\ row' = [row EXCEPT ![d] = Fresh(api[h].tenant, "ONLINE", 0)]
    <3>1. /\ row'[d] # None
          /\ \A e \in Devices \ {d} : row'[e] = row[e]
      BY <1>0, <1>1, <1>2, <2>0, <2>2
    <3>2. \A e \in Devices \ {d} : UidOf(e) = UidOf(d) => row[e] = None
      BY <2>0, <2>2 DEF UidFree
    <3>3. RowsUnique'
      BY <2>0, <3>1, <3>2
    <3>4. \A e \in Devices : row[e] # None => row'[e] # None
      BY <2>0, <3>1
    <3>5. \A g \in Handlers \ {h} : api'[g] = api[g]
      BY <1>0, <1>7 DEF ActivateRegister, Reply
    <3>6. ClaimsHaveRows'
      BY <1>0, <1>7, <3>4, <3>5 DEF ActivateRegister
    <3>7. AckedDeviceDurable'
      BY <1>0, <1>7, <2>0, <3>1, <3>4 DEF ActivateRegister
    <3>. QED
      BY <3>3, <3>6, <3>7
  <2>. QED
    BY <1>7, <2>1, <2>2 DEF ActivateRegister, UpsertDevice
<1>8. ASSUME NEW h \in Handlers, MigrateRow(h)
      PROVE  AckedDeviceDurable' /\ ClaimsHaveRows' /\ RowsUnique'
  <2>. DEFINE d == api[h].dev
  <2>0. d \in Devices /\ api[h].tenant \in Tenants /\ h \notin claim
    BY <1>0, <1>8 DEF MigrateRow
  <2>1. \A e \in Devices : (row'[e] = None) <=> (row[e] = None)
    <3>1. CASE UNCHANGED row
      BY <3>1
    <3>2. CASE row[d] # None /\ row' = [row EXCEPT ![d].tenant = api[h].tenant]
      <4>1. [row[d] EXCEPT !.tenant = api[h].tenant] \in DeviceRecords
        <5>1. row[d] \in DeviceRecords
          BY <1>0, <2>0, <3>2
        <5>. QED
          BY <2>0, <5>1 DEF DeviceRecords
      <4>. QED
        BY <1>0, <2>0, <3>2, <4>1
    <3>. QED
      BY <1>8, <3>1, <3>2 DEF MigrateRow, UpdateTenant
  <2>2. \A g \in Handlers \ {h} : api'[g] = api[g]
    BY <1>0, <1>8 DEF MigrateRow, Reply
  <2>. QED
    BY <1>0, <1>8, <2>0, <2>1, <2>2 DEF MigrateRow, ghostVars
<1>9. ASSUME NEW h \in Handlers, DeleteRemove(h) \/ DeleteTokens(h)
      PROVE  AckedDeviceDurable' /\ ClaimsHaveRows' /\ RowsUnique'
  <2>1. h \notin claim
    BY <1>9 DEF DeleteRemove, DeleteTokens
  <2>2. /\ \A g \in Handlers \ {h} : api'[g] = api[g]
        /\ UNCHANGED row /\ claim' \subseteq claim /\ owed' \subseteq owed
    BY <1>0, <1>9 DEF DeleteRemove, DeleteTokens, Goto, Disown, dbVars, ghostVars
  <2>. QED
    BY <1>0, <2>1, <2>2
<1>10. ASSUME NEW h \in Handlers, DeleteRow(h)
      PROVE  AckedDeviceDurable' /\ ClaimsHaveRows' /\ RowsUnique'
  <2>. DEFINE d == api[h].dev
  <2>0. d \in Devices /\ h \notin claim
    BY <1>0, <1>10 DEF DeleteRow
  <2>1. \A e \in Devices : row'[e] = row[e] \/ (e = d /\ row'[e] = None)
    BY <1>0, <1>10, <2>0 DEF DeleteRow, DeleteDevice
  <2>2. /\ \A g \in Handlers \ {h} : api'[g] = api[g]
        /\ owed' = owed \ {d}
        /\ claim' = claim \ {g \in Handlers : api[g].dev = d}
    BY <1>0, <1>10 DEF DeleteRow, Reply, Disown
  <2>. QED
    BY <1>0, <2>0, <2>1, <2>2
<1>11. CASE QuietStep
  <2>1. UNCHANGED <<row, api, claim, owed>>
    BY <1>11 DEF QuietStep, Uplink, ReceiveHeartbeat, ReceiveStatus, HandleHeartbeat,
                 HandleStatus, SweepList, SweepMark, dbVars, ghostVars
  <2>. QED
    BY <1>0, <2>1
<1>12. CASE Tick
  <2>1. \A e \in Devices : (row'[e] = None) <=> (row[e] = None)
    BY <1>0, <1>12, AgedRecord DEF Tick
  <2>. QED
    BY <1>0, <1>12, <2>1 DEF Tick, ghostVars
<1>13. CASE Restart
  BY <1>0, <1>13 DEF Restart, dbVars
<1>. QED
  BY <1>3, <1>4, <1>5, <1>6, <1>7, <1>8, <1>9, <1>10, <1>11, <1>12, <1>13
  DEF Next, Request, HandlerStep, QuietStep

(* Promised devices stay findable. *)
LEMMA ManagedStep ==
    ASSUME PlatformInv, Next
    PROVE  AckedDeviceManaged'
<1>. USE DEF PlatformInv, AckedDeviceManaged
<1>0. owed \subseteq Devices /\ row \in [Devices -> DeviceRecords \cup {None}]
  BY DEF TypeOK
<1>1. CASE Restart
  <2>1. \A e \in owed : row[e] # None
    BY DEF AckedDeviceDurable
  <2>. QED
    BY <1>0, <1>1, <2>1, LoadedArePresent DEF Restart
<1>2. ASSUME ~Restart, NEW h \in Handlers, ActivateRegister(h) PROVE AckedDeviceManaged'
  <2>1. api[h].dev \in Devices /\ api[h].tenant \in Tenants /\ ManagerTypeOK
    BY <1>2 DEF ActivateRegister, TypeOK
  <2>2. \A e \in owed \cup {api[h].dev} : Present(e)'
    BY <1>0, <1>2, <2>1, RegisterKeepsPresent DEF ActivateRegister
  <2>3. owed' \subseteq owed \cup {api[h].dev}
    BY <1>2 DEF ActivateRegister
  <2>. QED
    BY <2>2, <2>3
<1>3. ASSUME ~Restart, NEW h \in Handlers, DeleteRemove(h) PROVE AckedDeviceManaged'
  <2>1. api[h].dev \in Devices /\ api[h].tenant \in Tenants /\ ManagerTypeOK
    BY <1>3 DEF DeleteRemove, TypeOK
  <2>2. owed' = owed \ {api[h].dev}
    BY <1>3 DEF DeleteRemove, Disown
  <2>3. \A e \in owed \ {api[h].dev} : Present(e)'
    BY <1>0, <1>3, <2>1, RemoveKeepsOthers DEF DeleteRemove
  <2>. QED
    BY <2>2, <2>3
<1>4. CASE ~Restart /\ \A h \in Handlers : ~ActivateRegister(h) /\ ~DeleteRemove(h)
  <2>1. owed' \subseteq owed
    BY <1>4 DEF Next, Request, HandlerStep, Uplink, ActivateExisting, ActivateNew,
       ActivateInsert, ActivateToken, MigrateMemory, MigrateRow, DeleteFind, DeleteTokens,
       DeleteRow, Disown, ReceiveHeartbeat, ReceiveStatus, HandleHeartbeat, HandleStatus,
       SweepList, SweepMark, Tick, ghostVars
  <2>2. \A e \in owed : Present(e)'
    BY <1>0, <1>4, PresenceKept
  <2>. QED
    BY <2>1, <2>2
<1>. QED
  BY <1>1, <1>2, <1>3, <1>4

(* The invariant is inductive. *)
LEMMA PlatformStep == PlatformInv /\ [Next]_vars => PlatformInv'
<1>. SUFFICES ASSUME PlatformInv, [Next]_vars PROVE PlatformInv'
  OBVIOUS
<1>1. ManagerInv'
  BY StepIsManagerStep, ManagerStep DEF PlatformInv
<1>2. TypeOK'
  BY <1>1, TypeStep DEF PlatformInv, ManagerInv
<1>3. CASE Next
  BY <1>1, <1>2, <1>3, RowsStep, ManagedStep DEF PlatformInv
<1>4. CASE UNCHANGED vars
  <2>1. AckedDeviceDurable' /\ AckedDeviceManaged' /\ ClaimsHaveRows' /\ RowsUnique'
    BY <1>4 DEF vars, PlatformInv, AckedDeviceDurable, AckedDeviceManaged, ClaimsHaveRows,
                RowsUnique, Present, Holders
  <2>. QED
    BY <1>1, <1>2, <2>1 DEF PlatformInv
<1>. QED
  BY <1>3, <1>4

(* It holds of a service with empty tables. *)
LEMMA PlatformStart == Init => PlatformInv
<1>. SUFFICES ASSUME Init PROVE PlatformInv
  OBVIOUS
<1>1. ManagerInv
  BY ManagerStart DEF Init
<1>2. TypeOK
  BY <1>1 DEF Init, TypeOK, ManagerInv, Idle, ApiStates, ApiSteps, MqttIdle, MqttStates
<1>. QED
  BY <1>1, <1>2 DEF Init, PlatformInv, AckedDeviceDurable, AckedDeviceManaged,
                    ClaimsHaveRows, RowsUnique

(* Type correctness of the whole service: no handler ever works on a missing
   device or tenant. *)
THEOREM PlatformTypes == Spec => []TypeOK
<1>1. PlatformInv => TypeOK
  BY DEF PlatformInv
<1>. QED
  BY PlatformStart, PlatformStep, <1>1, PTL DEF Spec

(* An acknowledged activation is durable and the device stays findable, for
   every number of handlers, failed writes and restarts
   (process_activation, register_device, load_from_database). *)
THEOREM AcknowledgementsKept == Spec => [](AckedDeviceDurable /\ AckedDeviceManaged)
<1>1. PlatformInv => AckedDeviceDurable /\ AckedDeviceManaged
  BY DEF PlatformInv
<1>. QED
  BY PlatformStart, PlatformStep, <1>1, PTL DEF Spec

(* Racing activations never give one hardware uid two acknowledged
   identities (process_activation against the UNIQUE hardware_uid). *)
THEOREM IdentitiesUnique == Spec => []OneIdentityPerUid
<1>1. PlatformInv => OneIdentityPerUid
  BY DEF PlatformInv, TypeOK, AckedDeviceDurable, RowsUnique, OneIdentityPerUid
<1>. QED
  BY PlatformStart, PlatformStep, <1>1, PTL DEF Spec

(* The service uses the registry as its specification allows: its behaviours
   are behaviours of DeviceManager called in any order. *)
THEOREM PlatformImplementsManager == Spec => ManagerSpec
<1>1. Init => ManagerInit
  BY DEF Init
<1>2. PlatformInv /\ [Next]_vars => [ManagerNext]_managerVars
  BY StepIsManagerStep DEF PlatformInv
<1>. QED
  BY PlatformStart, PlatformStep, <1>1, <1>2, PTL DEF Spec, ManagerSpec

(* In memory alone: find_device_by_id finds every acknowledged device, whatever
   migrations, sweeps, racing handlers and reloads do. *)
THEOREM AcknowledgedFound == Spec => []AckedDeviceManaged
  BY AcknowledgementsKept, PTL

(* What DeviceManager guarantees its callers holds in the service. *)
THEOREM PlatformRegistrySafe == Spec => []KeyMatchesField
  BY PlatformImplementsManager, ManagerSafe, PTL

-----------------------------------------------------------------------------
(* The contract: every step of the service is a step of DeviceContract *)

Served == {e \in Devices : Present(e)}

(* A call of the registry for one device decides about no other. *)
LEMMA OthersUntouched ==
    ASSUME ManagerTypeOK, NEW t \in Tenants, NEW d \in Devices, NEW net \in NetworkStatus,
           \/ ProcessHeartbeat(t, d) \/ RegisterDevice(t, d) \/ RemoveDevice(t, d)
           \/ MigrateDevice(d, t) \/ UpdateDeviceStatus(t, d, net),
           NEW e \in Devices, e # d
    PROVE  Present(e)' <=> Present(e)
<1>1. \A s \in Tenants : tenants'[s][e] = tenants[s][e]
  <2>1. CASE ProcessHeartbeat(t, d) \/ RegisterDevice(t, d)
    BY <2>1 DEF ProcessHeartbeat, RegisterDevice, ManagerTypeOK
  <2>2. CASE RemoveDevice(t, d)
    BY <2>2 DEF RemoveDevice, ManagerTypeOK, managerVars
  <2>3. CASE MigrateDevice(d, t)
    <3>1. PICK old \in Tenants :
             tenants' = [[tenants EXCEPT ![old][d] = None]
                            EXCEPT ![t][d] = [tenants[old][d] EXCEPT !.tenant = t]]
      BY <2>3 DEF MigrateDevice, Holders
    <3>. QED
      BY <3>1 DEF ManagerTypeOK
  <2>4. CASE UpdateDeviceStatus(t, d, net)
    BY <2>4 DEF UpdateDeviceStatus, ManagerTypeOK
  <2>. QED
    BY <2>1, <2>2, <2>3, <2>4
<1>. QED
  BY <1>1 DEF Present, Holders

(* After a heartbeat its device can be found, registered before or not. *)
LEMMA HeartbeatServes ==
    ASSUME ManagerTypeOK, NEW t \in Tenants, NEW d \in Devices, ProcessHeartbeat(t, d)
    PROVE  Served' = Served \cup {d}
<1>1. Present(d)'
  <2>1. CASE Present(d)
    BY <2>1, HeartbeatKeepsPresent
  <2>2. CASE ~Present(d)
    <3>1. tenants'[t][d] = [tenant |-> t, net |-> "ONLINE", age |-> 0]
      BY <2>2 DEF ProcessHeartbeat, ManagerTypeOK, Present, Holders
    <3>2. tenants'[t][d] # None
      BY <3>1, FreshRecord DEF NetworkStatus
    <3>. QED
      BY <3>2 DEF Present, Holders
  <2>. QED
    BY <2>1, <2>2
<1>2. "ONLINE" \in NetworkStatus
  BY DEF NetworkStatus
<1>3. \A e \in Devices : e # d => (Present(e)' <=> Present(e))
  BY <1>2, OthersUntouched
<1>. QED
  BY <1>1, <1>3 DEF Served

(* So it is after its registration. *)
LEMMA RegisterServes ==
    ASSUME ManagerTypeOK, NEW t \in Tenants, NEW d \in Devices, RegisterDevice(t, d)
    PROVE  Served' = Served \cup {d}
<1>1. Present(d)'
  BY RegisterKeepsPresent
<1>2. "ONLINE" \in NetworkStatus
  BY DEF NetworkStatus
<1>3. \A e \in Devices : e # d => (Present(e)' <=> Present(e))
  BY <1>2, OthersUntouched
<1>. QED
  BY <1>1, <1>3 DEF Served

(* A removal takes its own device off the registry, or leaves another copy. *)
LEMMA RemoveServes ==
    ASSUME ManagerTypeOK, NEW t \in Tenants, NEW d \in Devices, RemoveDevice(t, d)
    PROVE  Served' \in {Served, Served \ {d}}
<1>1. "ONLINE" \in NetworkStatus
  BY DEF NetworkStatus
<1>2. \A e \in Devices : e # d => (Present(e)' <=> Present(e))
  BY <1>1, OthersUntouched
<1>3. Present(d)' => Present(d)
  <2>1. \A s \in Tenants : tenants'[s][d] # None => tenants[s][d] # None
    BY DEF RemoveDevice, ManagerTypeOK, managerVars
  <2>. QED
    BY <2>1 DEF Present, Holders
<1>4. CASE Present(d)' <=> Present(d)
  <2>1. Served' = Served
    BY <1>2, <1>4 DEF Served
  <2>. QED
    BY <2>1
<1>5. CASE ~Present(d)' /\ Present(d)
  <2>1. Served' = Served \ {d}
    BY <1>2, <1>5 DEF Served
  <2>. QED
    BY <2>1
<1>. QED
  BY <1>3, <1>4, <1>5

(* A migration leaves the served devices as they are. *)
LEMMA MigrateServes ==
    ASSUME ManagerTypeOK, NEW t \in Tenants, NEW d \in Devices, MigrateDevice(d, t)
    PROVE  Served' = Served
<1>1. Present(d)
  BY DEF MigrateDevice, Present
<1>2. Present(d)'
  BY <1>1, MigrateKeepsPresent
<1>3. "ONLINE" \in NetworkStatus
  BY DEF NetworkStatus
<1>4. \A e \in Devices : e # d => (Present(e)' <=> Present(e))
  BY <1>3, OthersUntouched
<1>. QED
  BY <1>1, <1>2, <1>4 DEF Served

(* So does a status change: it creates no record. *)
LEMMA UpdateServes ==
    ASSUME ManagerTypeOK, NEW t \in Tenants, NEW d \in Devices, NEW net \in NetworkStatus,
           UpdateDeviceStatus(t, d, net)
    PROVE  Served' = Served
<1>1. Present(d) => Present(d)'
  BY UpdateKeepsPresent
<1>2. ~Present(d) => ~Present(d)'
  BY DEF UpdateDeviceStatus, Present, Holders
<1>3. \A e \in Devices : e # d => (Present(e)' <=> Present(e))
  BY OthersUntouched
<1>. QED
  BY <1>1, <1>2, <1>3 DEF Served

(* So does the clock. *)
LEMMA AgeServes ==
    ASSUME ManagerTypeOK, AgeAll
    PROVE  Served' = Served
<1>1. \A e \in Devices, s \in Tenants : tenants[s][e] \in DeviceRecords \cup {None}
  BY DEF ManagerTypeOK
<1>2. \A e \in Devices, s \in Tenants : (tenants'[s][e] = None) <=> (tenants[s][e] = None)
  BY <1>1, AgedRecord DEF AgeAll
<1>3. \A e \in Devices : Present(e)' <=> Present(e)
  BY <1>2 DEF Present, Holders
<1>. QED
  BY <1>3 DEF Served

(* Every step of the service is a step of the contract or leaves its state
   alone. *)
LEMMA ContractStep ==
    ASSUME PlatformInv, [Next]_vars
    PROVE  [Contract!ContractNext]_(Contract!contractVars)
<1>. USE DEF Contract!contractVars
<1>0. TypeOK /\ ManagerTypeOK
  BY DEF PlatformInv, TypeOK
<1>1. ASSUME UNCHANGED <<Served, owed, restarts>>
      PROVE  [Contract!ContractNext]_(Contract!contractVars)
  BY <1>1 DEF Served
<1>2. CASE UNCHANGED managerVars /\ UNCHANGED <<owed, restarts>>
  <2>1. Served' = Served
    BY <1>2 DEF managerVars, Served, Present, Holders
  <2>. QED
    BY <1>1, <1>2, <2>1
<1>3. ASSUME NEW h \in Handlers, NEW d \in Devices, NEW t \in Tenants, MigrateMemory(h, d, t)
      PROVE  [Contract!ContractNext]_(Contract!contractVars)
  <2>1. Served' = Served
    BY <1>0, <1>3, MigrateServes DEF MigrateMemory
  <2>. QED
    BY <1>1, <1>3, <2>1 DEF MigrateMemory, ghostVars
<1>4. ASSUME NEW h \in Handlers, ActivateRegister(h)
      PROVE  [Contract!ContractNext]_(Contract!contractVars)
  <2>. DEFINE d == api[h].dev
  <2>1. d \in Devices /\ api[h].tenant \in Tenants
    BY <1>0, <1>4 DEF TypeOK, ActivateRegister
  <2>2. Served' = Served \cup {d}
    BY <1>0, <1>4, <2>1, RegisterServes DEF ActivateRegister
  <2>3. CASE h \in claim
    <3>1. Contract!Promise(d)
      BY <1>4, <2>2, <2>3 DEF Contract!Promise, ActivateRegister, Served
    <3>. QED
      BY <2>1, <3>1 DEF Contract!ContractNext
  <2>4. CASE h \notin claim
    <3>1. Contract!Discover(d)
      BY <1>4, <2>2, <2>4 DEF Contract!Discover, ActivateRegister, Served
    <3>. QED
      BY <2>1, <3>1 DEF Contract!ContractNext
  <2>. QED
    BY <2>3, <2>4
<1>5. ASSUME NEW h \in Handlers, DeleteRemove(h)
      PROVE  [Contract!ContractNext]_(Contract!contractVars)
  <2>. DEFINE d == api[h].dev
  <2>1. d \in Devices /\ api[h].tenant \in Tenants
    BY <1>0, <1>5 DEF TypeOK, DeleteRemove
  <2>2. Served' \in {Served, Served \ {d}}
    BY <1>0, <1>5, <2>1, RemoveServes DEF DeleteRemove
  <2>3. Contract!Withdraw(d)
    BY <1>5, <2>2 DEF Contract!Withdraw, DeleteRemove, Disown, Served
  <2>. QED
    BY <2>1, <2>3 DEF Contract!ContractNext
<1>6. ASSUME NEW h \in Handlers, DeleteRow(h)
      PROVE  [Contract!ContractNext]_(Contract!contractVars)
  <2>. DEFINE d == api[h].dev
  <2>1. d \in Devices
    BY <1>0, <1>6 DEF TypeOK, DeleteRow
  <2>2. Served' = Served
    BY <1>6 DEF DeleteRow, managerVars, Served, Present, Holders
  <2>3. Contract!Withdraw(d)
    BY <1>6, <2>2 DEF Contract!Withdraw, DeleteRow, Disown, Served
  <2>. QED
    BY <2>1, <2>3 DEF Contract!ContractNext
<1>7. CASE HandleHeartbeat
  <2>1. mqtt.dev \in Devices /\ mqtt.tenant \in Tenants
    BY <1>0, <1>7 DEF TypeOK, HandleHeartbeat
  <2>2. Served' = Served \cup {mqtt.dev}
    BY <1>0, <1>7, <2>1, HeartbeatServes DEF HandleHeartbeat
  <2>3. Contract!Discover(mqtt.dev)
    BY <1>7, <2>2 DEF Contract!Discover, HandleHeartbeat, Served, ghostVars
  <2>. QED
    BY <2>1, <2>3 DEF Contract!ContractNext
<1>8. CASE HandleStatus
  <2>1. mqtt.dev \in Devices /\ mqtt.tenant \in Tenants
    BY <1>0, <1>8 DEF TypeOK, HandleStatus
  <2>2. Served' = Served
    BY <1>0, <1>8, <2>1, StatusIsNet, UpdateServes DEF HandleStatus
  <2>. QED
    BY <1>1, <1>8, <2>2 DEF HandleStatus, ghostVars
<1>9. CASE SweepMark
  <2>1. PICK p \in todo : UpdateDeviceStatus(p[1], p[2], "OFFLINE")
    BY <1>9 DEF SweepMark
  <2>2. p[1] \in Tenants /\ p[2] \in Devices /\ "OFFLINE" \in NetworkStatus
    BY <1>0 DEF TypeOK, NetworkStatus
  <2>3. Served' = Served
    BY <1>0, <2>1, <2>2, UpdateServes
  <2>. QED
    BY <1>1, <1>9, <2>3 DEF SweepMark, ghostVars
<1>10. CASE Tick
  <2>1. Served' = Served
    BY <1>0, <1>10, AgeServes DEF Tick
  <2>. QED
    BY <1>1, <1>10, <2>1 DEF Tick, ghostVars
<1>11. CASE Restart
  <2>1. row \in [Devices -> DeviceRecords \cup {None}] /\ owed \subseteq Devices
    BY <1>0 DEF TypeOK
  <2>2. \A e \in owed : row[e] # None
    BY DEF PlatformInv, AckedDeviceDurable
  <2>3. \A e \in owed : Present(e)'
    BY <1>11, <2>1, <2>2, LoadedArePresent DEF Restart
  <2>4. Contract!Reborn
    BY <1>11, <2>1, <2>3 DEF Contract!Reborn, Restart
  <2>. QED
    BY <2>4 DEF Contract!ContractNext
<1>12. \/ UNCHANGED vars
       \/ UNCHANGED managerVars /\ UNCHANGED <<owed, restarts>>
       \/ \E h \in Handlers, d \in Devices, t \in Tenants : MigrateMemory(h, d, t)
       \/ \E h \in Handlers : ActivateRegister(h) \/ DeleteRemove(h) \/ DeleteRow(h)
       \/ HandleHeartbeat \/ HandleStatus \/ SweepMark \/ Tick \/ Restart
  BY DEF Next, Request, HandlerStep, Uplink, ActivateExisting, ActivateNew, ActivateInsert,
         ActivateToken, MigrateRow, DeleteFind, DeleteTokens, ReceiveHeartbeat,
         ReceiveStatus, SweepList, ghostVars
<1>13. CASE UNCHANGED vars
  BY <1>2, <1>13 DEF vars, managerVars
<1>. QED
  BY <1>2, <1>3, <1>4, <1>5, <1>6, <1>7, <1>8, <1>9, <1>10, <1>11, <1>12, <1>13

(* The service implements its contract: an acknowledged device is served until
   somebody asks for its deletion, whatever handlers race, writes fail and
   processes die (activation, migration and deletion routes, MessageRouter,
   check_offline_devices, load_from_database). *)
THEOREM ServiceKeepsContract == Spec => ContractHolds
<1>1. Init => Contract!ContractInit
  BY DEF Init, Contract!ContractInit, ManagerInit, Present, Holders
<1>2. PlatformInv /\ [Next]_vars => [Contract!ContractNext]_(Contract!contractVars)
  BY ContractStep
<1>. QED
  BY PlatformStart, PlatformStep, <1>1, <1>2, PTL DEF Spec, ContractHolds, Contract!ContractSpec

-----------------------------------------------------------------------------
(* The offline sweep *)

(* Between its two lock scopes the sweep's list goes stale; marking from it
   still brings back no deleted or migrated device (check_offline_devices,
   update_device_status). *)
THEOREM SweepRevivesNothing == Spec => SweepNeverRevives
<1>1. TypeOK /\ [Next]_vars =>
        [todo # {} /\ todo' # todo /\ restarts' = restarts =>
            \A t \in Tenants, d \in Devices :
                tenants[t][d] = None => tenants'[t][d] = None]_vars
  <2>. SUFFICES ASSUME TypeOK, Next, todo # {}, todo' # todo, restarts' = restarts,
                       NEW t \in Tenants, NEW d \in Devices, tenants[t][d] = None
                PROVE  tenants'[t][d] = None
    OBVIOUS
  <2>1. ~Restart
    BY DEF Restart, TypeOK
  <2>2. SweepMark
    BY <2>1 DEF Next, Request, HandlerStep, Uplink, ActivateExisting, ActivateNew,
       ActivateInsert, ActivateToken, ActivateRegister, MigrateMemory, MigrateRow, DeleteFind,
       DeleteRemove, DeleteTokens, DeleteRow, ReceiveHeartbeat, ReceiveStatus,
       HandleHeartbeat, HandleStatus, SweepList, Tick
  <2>3. PICK p \in todo : UpdateDeviceStatus(p[1], p[2], "OFFLINE")
    BY <2>2 DEF SweepMark
  <2>4. p[1] \in Tenants /\ p[2] \in Devices
    BY DEF TypeOK
  <2>. QED
    BY <2>3, <2>4 DEF UpdateDeviceStatus, TypeOK, ManagerTypeOK
<1>. QED
  BY PlatformTypes, <1>1, PTL DEF Spec, SweepNeverRevives

=============================================================================
