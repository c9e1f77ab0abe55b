------------------------ MODULE DeviceManagerProofs -------------------------
(***************************************************************************)
(* The invariant of the device registry, for every set of tenants and      *)
(* devices and every timeout.                                              *)
(***************************************************************************)
EXTENDS DeviceManager, TLAPS

USE DeviceAssumption

(* A record put under its own tenant is a record. *)
LEMMA FreshRecord ==
    ASSUME NEW t \in Tenants, NEW net \in NetworkStatus
    PROVE  [tenant |-> t, net |-> net, age |-> 0] \in DeviceRecords
BY DEF DeviceRecords, Ages

(* Growing older keeps a record a record, its tenant and its presence. *)
LEMMA AgedRecord ==
    ASSUME NEW r \in DeviceRecords \cup {None}
    PROVE  /\ Aged(r) \in DeviceRecords \cup {None}
           /\ (Aged(r) = None) <=> (r = None)
           /\ r # None => Aged(r).tenant = r.tenant
<1>1. CASE r = None
  BY <1>1 DEF Aged
<1>2. CASE r # None
  <2>1. r \in DeviceRecords
    BY <1>2
  <2>2. Older(r.age) \in Ages
    BY <2>1 DEF Older, Ages, DeviceRecords
  <2>3. /\ Aged(r) \in DeviceRecords
        /\ Aged(r).tenant = r.tenant
    BY <1>2, <2>1, <2>2 DEF Aged, DeviceRecords
  <2>. QED
    BY <1>2, <2>3
<1>. QED
  BY <1>1, <1>2

(* A heartbeat, known or auto-registering, keeps the registry's invariant. *)
LEMMA HeartbeatKeepsInv ==
    ASSUME NEW t \in Tenants, NEW d \in Devices,
           ManagerInv, ProcessHeartbeat(t, d)
    PROVE  ManagerInv'
<1>. DEFINE r == tenants[t][d]
            new == IF r = None THEN [tenant |-> t, net |-> "ONLINE", age |-> 0]
                   ELSE [r EXCEPT !.net = "ONLINE", !.age = 0]
<1>0. r \in DeviceRecords \cup {None} /\ (r # None => r.tenant = t)
  BY DEF ManagerInv, ManagerTypeOK, KeyMatchesField
<1>1. new \in DeviceRecords /\ new.tenant = t
  <2>1. CASE r = None
    BY <2>1, FreshRecord DEF NetworkStatus
  <2>2. CASE r # None
    <3>1. r \in DeviceRecords /\ r.tenant = t
      BY <1>0, <2>2
    <3>2. new = [r EXCEPT !.net = "ONLINE", !.age = 0]
      BY <2>2
    <3>. HIDE DEF r, new
    <3>3. r = [tenant |-> r.tenant, net |-> r.net, age |-> r.age]
      BY <3>1 DEF DeviceRecords
    <3>4. new = [tenant |-> r.tenant, net |-> "ONLINE", age |-> 0]
      BY <3>2, <3>3
    <3>. QED
      BY <3>1, <3>4, FreshRecord DEF NetworkStatus
  <2>. QED
    BY <2>1, <2>2
<1>2. tenants' = [tenants EXCEPT ![t][d] = new]
  BY DEF ProcessHeartbeat
<1>. HIDE DEF new, r
<1>3. ManagerTypeOK'
  BY <1>1, <1>2 DEF ManagerInv, ManagerTypeOK, ProcessHeartbeat
<1>4. KeyMatchesField'
  BY <1>1, <1>2 DEF ManagerInv, ManagerTypeOK, KeyMatchesField
<1>. QED
  BY <1>3, <1>4 DEF ManagerInv

(* Registration keeps it. *)
LEMMA RegisterKeepsInv ==
    ASSUME NEW t \in Tenants, NEW d \in Devices,
           ManagerInv, RegisterDevice(t, d)
    PROVE  ManagerInv'
<1>. DEFINE new == [tenant |-> t, net |-> "ONLINE", age |-> 0]
<1>1. new \in DeviceRecords /\ new.tenant = t
  BY FreshRecord DEF NetworkStatus
<1>2. tenants' = [tenants EXCEPT ![t][d] = new]
  BY DEF RegisterDevice
<1>. HIDE DEF new
<1>3. ManagerTypeOK'
  BY <1>1, <1>2 DEF ManagerInv, ManagerTypeOK, RegisterDevice
<1>4. KeyMatchesField'
  BY <1>1, <1>2 DEF ManagerInv, ManagerTypeOK, KeyMatchesField
<1>. QED
  BY <1>3, <1>4 DEF ManagerInv

(* Removal keeps it. *)
LEMMA RemoveKeepsInv ==
    ASSUME NEW t \in Tenants, NEW d \in Devices,
           ManagerInv, RemoveDevice(t, d)
    PROVE  ManagerInv'
<1>1. ManagerTypeOK'
  BY DEF ManagerInv, ManagerTypeOK, RemoveDevice
<1>2. KeyMatchesField'
  BY DEF ManagerInv, ManagerTypeOK, KeyMatchesField, RemoveDevice
<1>. QED
  BY <1>1, <1>2 DEF ManagerInv

(* A status change touches the status only. *)
LEMMA UpdateKeepsInv ==
    ASSUME NEW t \in Tenants, NEW d \in Devices, NEW net \in NetworkStatus,
           ManagerInv, UpdateDeviceStatus(t, d, net)
    PROVE  ManagerInv'
<1>1. CASE tenants[t][d] = None
  BY <1>1 DEF ManagerInv, ManagerTypeOK, KeyMatchesField,
              UpdateDeviceStatus
<1>2. CASE tenants[t][d] # None
  <2>. DEFINE new == [tenants[t][d] EXCEPT !.net = net]
  <2>1. new \in DeviceRecords /\ new.tenant = t
    <3>1. tenants[t][d] \in DeviceRecords /\ tenants[t][d].tenant = t
      BY <1>2 DEF ManagerInv, ManagerTypeOK, KeyMatchesField
    <3>. QED
      BY <3>1 DEF DeviceRecords
  <2>2. tenants' = [tenants EXCEPT ![t][d] = new]
    BY <1>2 DEF UpdateDeviceStatus
  <2>. HIDE DEF new
  <2>3. ManagerTypeOK'
    BY <2>1, <2>2 DEF ManagerInv, ManagerTypeOK
  <2>4. KeyMatchesField'
    BY <2>1, <2>2 DEF ManagerInv, ManagerTypeOK, KeyMatchesField
    <2>. QED
    BY <2>3, <2>4 DEF ManagerInv
<1>. QED
  BY <1>1, <1>2

(* Migration keeps it, to the same tenant included: the copy is made before
   the erase and filed after it. *)
LEMMA MigrateKeepsInv ==
    ASSUME NEW t \in Tenants, NEW d \in Devices,
           ManagerInv, MigrateDevice(d, t)
    PROVE  ManagerInv'
<1>1. PICK old \in Holders(d) :
         tenants' = [[tenants EXCEPT ![old][d] = None]
                           EXCEPT ![t][d] = [tenants[old][d] EXCEPT !.tenant = t]]
  BY DEF MigrateDevice
<1>. DEFINE new == [tenants[old][d] EXCEPT !.tenant = t]
<1>2. new \in DeviceRecords /\ new.tenant = t
  <2>1. tenants[old][d] \in DeviceRecords
    BY DEF ManagerInv, ManagerTypeOK, Holders
  <2>. QED
    BY <2>1 DEF DeviceRecords
<1>3. /\ tenants' \in [Tenants -> [Devices -> DeviceRecords \cup {None}]]
      /\ tenants'[t][d] = new
      /\ \A s \in Tenants, e \in Devices :
            <<s, e>> # <<t, d>> => tenants'[s][e] = None \/ tenants'[s][e] = tenants[s][e]
  <2>. HIDE DEF new
  <2>0. old \in Tenants
    BY DEF Holders
  <2>1. tenants' = [[tenants EXCEPT ![old][d] = None] EXCEPT ![t][d] = new]
    BY <1>1 DEF new
  <2>. QED
    BY <1>2, <2>0, <2>1 DEF ManagerInv, ManagerTypeOK
<1>. HIDE DEF new
<1>4. ManagerTypeOK'
  BY <1>1, <1>3 DEF ManagerInv, ManagerTypeOK
<1>5. KeyMatchesField'
  BY <1>2, <1>3 DEF ManagerInv, KeyMatchesField
<1>. QED
  BY <1>4, <1>5 DEF ManagerInv

(* Loading any table of well-formed rows establishes it. *)
LEMMA LoadKeepsInv ==
    ASSUME NEW rows \in [Devices -> DeviceRecords \cup {None}],
           LoadFromDatabase(rows)
    PROVE  ManagerInv'
<1>1. ManagerTypeOK'
  BY DEF LoadFromDatabase, ManagerTypeOK
<1>2. KeyMatchesField'
  BY DEF LoadFromDatabase, KeyMatchesField
<1>. QED
  BY <1>1, <1>2 DEF ManagerInv

(* The clock keeps it. *)
LEMMA AgeKeepsInv ==
    ASSUME ManagerInv, AgeAll
    PROVE  ManagerInv'
<1>0. \A t \in Tenants, d \in Devices : tenants[t][d] \in DeviceRecords \cup {None}
  BY DEF ManagerInv, ManagerTypeOK
<1>1. \A t \in Tenants, d \in Devices :
         /\ tenants'[t][d] \in DeviceRecords \cup {None}
         /\ (tenants'[t][d] = None) <=> (tenants[t][d] = None)
         /\ tenants[t][d] # None => tenants'[t][d].tenant = tenants[t][d].tenant
  BY <1>0, AgedRecord DEF AgeAll
<1>2. ManagerTypeOK'
  BY <1>0, AgedRecord DEF ManagerInv, ManagerTypeOK, AgeAll
<1>3. KeyMatchesField'
  BY <1>1 DEF ManagerInv, KeyMatchesField
<1>. QED
  BY <1>2, <1>3 DEF ManagerInv

(* Every call of the registry keeps its invariant. *)
LEMMA ManagerStep == ManagerInv /\ [ManagerNext]_managerVars => ManagerInv'
<1>. SUFFICES ASSUME ManagerInv, [ManagerNext]_managerVars PROVE ManagerInv'
  OBVIOUS
<1>1. CASE UNCHANGED managerVars
  BY <1>1 DEF ManagerInv, ManagerTypeOK, KeyMatchesField, managerVars
<1>2. ASSUME NEW t \in Tenants, NEW d \in Devices, ProcessHeartbeat(t, d) PROVE ManagerInv'
  BY <1>2, HeartbeatKeepsInv
<1>3. ASSUME NEW t \in Tenants, NEW d \in Devices, RegisterDevice(t, d) PROVE ManagerInv'
  BY <1>3, RegisterKeepsInv
<1>4. ASSUME NEW t \in Tenants, NEW d \in Devices, RemoveDevice(t, d) PROVE ManagerInv'
  BY <1>4, RemoveKeepsInv
<1>5. ASSUME NEW t \in Tenants, NEW d \in Devices, MigrateDevice(d, t) PROVE ManagerInv'
  BY <1>5, MigrateKeepsInv
<1>6. ASSUME NEW t \in Tenants, NEW d \in Devices, NEW net \in NetworkStatus,
             UpdateDeviceStatus(t, d, net)
      PROVE  ManagerInv'
  BY <1>6, UpdateKeepsInv
<1>7. ASSUME NEW rows \in [Devices -> DeviceRecords \cup {None}], LoadFromDatabase(rows)
      PROVE  ManagerInv'
  BY <1>7, LoadKeepsInv
<1>8. CASE AgeAll
  BY <1>8, AgeKeepsInv
<1>. QED
  BY <1>1, <1>2, <1>3, <1>4, <1>5, <1>6, <1>7, <1>8 DEF ManagerNext

(* An empty registry satisfies it. *)
LEMMA ManagerStart == ManagerInit => ManagerInv
BY DEF ManagerInit, ManagerInv, ManagerTypeOK, KeyMatchesField

(* Whatever the callers of the registry do, every record is filed under the
   tenant its field names (DeviceManager). *)
THEOREM ManagerSafe == ManagerSpec => []KeyMatchesField
<1>1. ManagerInv => KeyMatchesField
  BY DEF ManagerInv
<1>. QED
  BY ManagerStart, ManagerStep, <1>1, PTL DEF ManagerSpec

=============================================================================
