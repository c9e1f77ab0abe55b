---------------------------- MODULE SupportProofs ----------------------------
(***************************************************************************)
(* The parts around the devices, each by itself.                           *)
(*                                                                         *)
(* What operators configure (types and models, tenant key, recipes) is     *)
(* kept as the answers say, for any codes, recipes and keys and any number *)
(* of racing requests, with failing statements and crashes.  The embedded  *)
(* MQTT client, the schema and the log files are safe for every number of  *)
(* lines, files, crashes and starts.                                       *)
(***************************************************************************)
EXTENDS Configuration, Middleware, SequenceTheorems, TLAPS

USE LogAssumption, MiddlewareAssumption

-----------------------------------------------------------------------------
(* The catalogue of device types and models *)

(* The first creation counts. *)
LEMMA CountStarts == Count(0) = 1
  BY CatalogueAssumption DEF Count

(* A new row is a row. *)
LEMMA ActiveRow == [active |-> TRUE] \in TypeRows /\ [active |-> TRUE] # None
  <1>1. [active |-> TRUE] \in TypeRows
    BY DEF TypeRows
  <1> QED
    BY <1>1, CatalogueAssumption

(* The catalogue starts in order. *)
LEMMA CatalogueStarts == CatalogueInit => CatalogueInv
  <1> SUFFICES ASSUME CatalogueInit PROVE CatalogueInv
    OBVIOUS
  <1> USE CatalogueAssumption
  <1>2. CatalogueTypeOK
    BY ActiveRow DEF CatalogueInit, CatalogueTypeOK
  <1>3. CreatedOnce
    BY ActiveRow DEF CatalogueInit, CreatedOnce
  <1>4. ChecksStayTrue
    BY DEF CatalogueInit, ChecksStayTrue
  <1> QED
    BY <1>2, <1>3, <1>4 DEF CatalogueInv

(* The checks of a request, which end in Proceed. *)
LEMMA ChecksKeep ==
    ASSUME CatalogueInv, NEW h \in Clients, NEW q \in Calls,
           q.write = "update_device_type" => typeRow[q.code] # None,
           q.write = "update_device_model" => modelRow[q.code] # None,
           q.type # None => typeRow[q.type] # None,
           Proceed(h, q.write, q.code, q.type, q.active)
    PROVE  CatalogueInv'
  <1>1. q = [write |-> q.write, code |-> q.code, type |-> q.type, active |-> q.active]
    BY DEF Calls, TypeCalls, ModelCalls
  <1>2. call' = [call EXCEPT ![h] = q]
    BY <1>1 DEF Proceed
  <1> QED
    BY <1>2 DEF Proceed, CatalogueInv, CatalogueTypeOK, CreatedOnce, ChecksStayTrue

(* The checks of the requests for types keep the invariant. *)
LEMMA TypeRequestsKeep ==
    ASSUME CatalogueInv, NEW h \in Clients, NEW c \in TypeCodes, NEW on \in BOOLEAN,
           CreateType(h, c) \/ UpdateType(h, c, on) \/ DeleteType(h, c)
    PROVE  CatalogueInv'
  <1> DEFINE Q(w, a) == [write |-> w, code |-> c, type |-> None, active |-> a]
  <1>1. CASE CreateType(h, c)
    <2>1. Q("insert_device_type", TRUE) \in Calls
      BY DEF Calls, TypeCalls
    <2> QED
      BY <1>1, <2>1, ChecksKeep DEF CreateType
  <1>2. CASE UpdateType(h, c, on)
    <2>1. Q("update_device_type", on) \in Calls
      BY DEF Calls, TypeCalls
    <2>2. typeRow[c] # None
      BY <1>2 DEF UpdateType, TypeExists, Finds
    <2> QED
      BY <1>2, <2>1, <2>2, ChecksKeep DEF UpdateType
  <1>3. CASE DeleteType(h, c)
    <2>1. Q("delete_device_type", FALSE) \in Calls
      BY DEF Calls, TypeCalls
    <2> QED
      BY <1>3, <2>1, ChecksKeep DEF DeleteType
  <1> QED
    BY <1>1, <1>2, <1>3

(* The checks of the requests for models keep it. *)
LEMMA ModelRequestsKeep ==
    ASSUME CatalogueInv, NEW h \in Clients, NEW c \in TypeCodes, NEW m \in ModelCodes,
           NEW on \in BOOLEAN,
           CreateModel(h, m, c) \/ UpdateModel(h, m, c, on)
    PROVE  CatalogueInv'
  <1> DEFINE Q(w, a) == [write |-> w, code |-> m, type |-> c, active |-> a]
  <1>1. typeRow[c] # None
    BY DEF CreateModel, UpdateModel, TypeExists, Finds
  <1>2. CASE CreateModel(h, m, c)
    <2>1. Q("insert_device_model", TRUE) \in Calls
      BY DEF Calls, ModelCalls
    <2> QED
      BY <1>1, <1>2, <2>1, ChecksKeep DEF CreateModel
  <1>3. CASE UpdateModel(h, m, c, on)
    <2>1. Q("update_device_model", on) \in Calls
      BY DEF Calls, ModelCalls
    <2>2. modelRow[m] # None
      BY <1>3 DEF UpdateModel, ModelExists, Finds
    <2> QED
      BY <1>1, <1>3, <2>1, <2>2, ChecksKeep DEF UpdateModel
  <1> QED
    BY <1>2, <1>3

(* The writes, whether or not the client is told of their success. *)
LEMMA WritesKeep ==
    ASSUME CatalogueInv, NEW h \in Clients, call[h] # None, Execute(call[h]),
           call' = [call EXCEPT ![h] = None],
           \/ created' = created
           \/ /\ call[h].write \in Inserts
              /\ created' = [created EXCEPT ![call[h].code] = Count(@)]
    PROVE  CatalogueInv'
  <1> DEFINE q == call[h]
  <1> USE CatalogueAssumption
  <1>1. /\ q \in Calls
        /\ call' \in [Clients -> Calls \cup {None}]
        /\ call' = [call EXCEPT ![h] = None]
    BY DEF CatalogueInv, CatalogueTypeOK
  <1>2. CASE q.write = "insert_device_type" /\ InsertDeviceType(q)
    <2>1. q.code \in TypeCodes
      BY <1>1, <1>2 DEF Calls, TypeCalls, ModelCalls
    <2>2. created[q.code] = 0 /\ q.code \notin Seeds
      BY <1>2, <2>1 DEF InsertDeviceType, CatalogueInv, CatalogueTypeOK, CreatedOnce
    <2>3. created' = created \/ created' = [created EXCEPT ![q.code] = 1]
      BY <2>2, CountStarts
    <2>4. typeRow' = [typeRow EXCEPT ![q.code] = [active |-> TRUE]] /\ modelRow' = modelRow
      BY <1>2 DEF InsertDeviceType
    <2>6. CatalogueTypeOK'
      BY <1>1, <2>1, <2>3, <2>4, ActiveRow DEF CatalogueInv, CatalogueTypeOK
    <2>7. CreatedOnce'
      BY <2>1, <2>2, <2>3, <2>4, ActiveRow DEF CatalogueInv, CatalogueTypeOK, CreatedOnce
    <2>8. ChecksStayTrue'
      BY <1>1, <2>1, <2>4, ActiveRow DEF CatalogueInv, CatalogueTypeOK, ChecksStayTrue, Calls,
         TypeCalls, ModelCalls, ModelRows
    <2> QED
      BY <2>6, <2>7, <2>8 DEF CatalogueInv
  <1>3. CASE q.write \in {"update_device_type", "delete_device_type"}
             /\ (UpdateDeviceType(q) \/ DeleteDeviceType(q))
    <2>1. q.code \in TypeCodes /\ q.active \in BOOLEAN
      BY <1>1, <1>3 DEF Calls, TypeCalls, ModelCalls
    <2>2. modelRow' = modelRow /\ created' = created
      BY <1>3 DEF UpdateDeviceType, DeleteDeviceType, Inserts
    <2>3. PICK r \in TypeRows :
            typeRow' = IF typeRow[q.code] = None THEN typeRow ELSE [typeRow EXCEPT ![q.code] = r]
      <3>1. [active |-> q.active] \in TypeRows /\ [active |-> FALSE] \in TypeRows
        BY <2>1 DEF TypeRows
      <3> QED
        BY <1>3, <3>1 DEF UpdateDeviceType, DeleteDeviceType
    <2>4. /\ typeRow' \in [TypeCodes -> TypeRows \cup {None}]
          /\ \A c \in TypeCodes : typeRow'[c] = None <=> typeRow[c] = None
      BY <2>1, <2>3 DEF CatalogueInv, CatalogueTypeOK
    <2>5. CatalogueTypeOK' /\ CreatedOnce'
      BY <1>1, <2>2, <2>4 DEF CatalogueInv, CatalogueTypeOK, CreatedOnce
    <2>6. ChecksStayTrue'
      BY <1>1, <2>2, <2>4 DEF CatalogueInv, CatalogueTypeOK, ChecksStayTrue, Calls,
         TypeCalls, ModelCalls, ModelRows
    <2> QED
      BY <2>5, <2>6 DEF CatalogueInv
  <1>4. CASE q.write = "insert_device_model" /\ InsertDeviceModel(q)
    <2>1. q.code \in ModelCodes /\ q.type \in TypeCodes
      BY <1>1, <1>4 DEF Calls, TypeCalls, ModelCalls
    <2>2. created[q.code] = 0
      BY <1>4, <2>1 DEF InsertDeviceModel, CatalogueInv, CatalogueTypeOK, CreatedOnce
    <2>3. created' = created \/ created' = [created EXCEPT ![q.code] = 1]
      BY <2>2, CountStarts
    <2> DEFINE r == [type |-> q.type, active |-> TRUE]
    <2>4. modelRow' = [modelRow EXCEPT ![q.code] = r] /\ typeRow' = typeRow
      BY <1>4 DEF InsertDeviceModel
    <2>5. r \in ModelRows /\ r # None /\ typeRow[r.type] # None
      <3>1. r \in ModelRows /\ typeRow[r.type] # None
        BY <1>4, <2>1 DEF ModelRows, InsertDeviceModel
      <3> QED
        BY <3>1
    <2>6. CatalogueTypeOK' /\ CreatedOnce'
      <3> HIDE DEF r
      <3> QED
        BY <1>1, <2>1, <2>2, <2>3, <2>4, <2>5 DEF CatalogueInv, CatalogueTypeOK, CreatedOnce
    <2>7. ChecksStayTrue'
      <3> HIDE DEF r
      <3> QED
        BY <1>1, <2>1, <2>4, <2>5 DEF CatalogueInv, CatalogueTypeOK, ChecksStayTrue
    <2> QED
      BY <2>6, <2>7 DEF CatalogueInv
  <1>5. CASE q.write = "update_device_model" /\ UpdateDeviceModel(q)
    <2>1. q.code \in ModelCodes /\ q.type \in TypeCodes /\ q.active \in BOOLEAN
      BY <1>1, <1>5 DEF Calls, TypeCalls, ModelCalls
    <2> DEFINE r == [type |-> q.type, active |-> q.active]
    <2>2. modelRow' = [modelRow EXCEPT ![q.code] = r] /\ typeRow' = typeRow /\ created' = created
      BY <1>5 DEF UpdateDeviceModel, CatalogueInv, ChecksStayTrue, Inserts
    <2>3. r \in ModelRows /\ r # None /\ typeRow[r.type] # None
      BY <1>5, <2>1 DEF ModelRows, UpdateDeviceModel
    <2>4. modelRow[q.code] # None
      BY <1>5 DEF CatalogueInv, ChecksStayTrue
    <2>5. CatalogueTypeOK' /\ CreatedOnce'
      <3> HIDE DEF r
      <3> QED
        BY <1>1, <2>1, <2>2, <2>3, <2>4 DEF CatalogueInv, CatalogueTypeOK, CreatedOnce
    <2>6. ChecksStayTrue'
      <3> HIDE DEF r
      <3> QED
        BY <1>1, <2>1, <2>2, <2>3 DEF CatalogueInv, CatalogueTypeOK, ChecksStayTrue
    <2> QED
      BY <2>5, <2>6 DEF CatalogueInv
  <1> QED
    BY <1>2, <1>3, <1>4, <1>5 DEF Execute

(* delete_device_model keeps it. *)
LEMMA DeleteModelKeeps ==
    ASSUME CatalogueInv, NEW m \in ModelCodes, DeleteModel(m)
    PROVE  CatalogueInv'
  <1> USE CatalogueAssumption
  <1>1. CASE modelRow[m] = None
    BY <1>1 DEF DeleteModel, CatalogueInv, CatalogueTypeOK, CreatedOnce, ChecksStayTrue
  <1>2. CASE modelRow[m] # None
    <2> DEFINE r == [modelRow[m] EXCEPT !.active = FALSE]
    <2>1. r \in ModelRows /\ r.type = modelRow[m].type
      BY <1>2 DEF CatalogueInv, CatalogueTypeOK, ModelRows
    <2>2. modelRow' = [modelRow EXCEPT ![m] = r] /\ UNCHANGED <<typeRow, call, created>>
      BY <1>2 DEF DeleteModel
    <2>3. r # None
      BY <2>1
    <2> HIDE DEF r
    <2>4. CatalogueTypeOK' /\ CreatedOnce'
      BY <1>2, <2>1, <2>2, <2>3 DEF CatalogueInv, CatalogueTypeOK, CreatedOnce
    <2>5. ChecksStayTrue'
      BY <1>2, <2>1, <2>2, <2>3 DEF CatalogueInv, CatalogueTypeOK, ChecksStayTrue
    <2> QED
      BY <2>4, <2>5 DEF CatalogueInv
  <1> QED
    BY <1>1, <1>2

(* Every step of the catalogue keeps it. *)
LEMMA CatalogueSteps == CatalogueInv /\ [CatalogueNext]_catalogueVars => CatalogueInv'
  <1> SUFFICES ASSUME CatalogueInv, [CatalogueNext]_catalogueVars
               PROVE  CatalogueInv'
    OBVIOUS
  <1>1. CASE UNCHANGED catalogueVars
    BY <1>1 DEF catalogueVars, CatalogueInv, CatalogueTypeOK, CreatedOnce, ChecksStayTrue
  <1>2. ASSUME NEW h \in Clients, Succeed(h)
        PROVE  CatalogueInv'
    BY <1>2, WritesKeep DEF Succeed
  <1>5. ASSUME NEW h \in Clients, Fail(h)
        PROVE  CatalogueInv'
    <2>1. CASE UNCHANGED <<typeRow, modelRow>>
      BY <1>5, <2>1 DEF Fail, CatalogueInv, CatalogueTypeOK, CreatedOnce, ChecksStayTrue
    <2>2. CASE Execute(call[h])
      BY <1>5, <2>2, WritesKeep DEF Fail
    <2> QED
      BY <1>5, <2>1, <2>2 DEF Fail
  <1>3. ASSUME NEW h \in Clients, NEW c \in TypeCodes, TypeRequest(h, c)
        PROVE  CatalogueInv'
    BY <1>3, TypeRequestsKeep DEF TypeRequest
  <1>4. ASSUME NEW h \in Clients, NEW m \in ModelCodes, ModelRequest(h, m)
        PROVE  CatalogueInv'
    BY <1>4, ModelRequestsKeep DEF ModelRequest
  <1> QED
    BY <1>1, <1>2, <1>3, <1>4, <1>5, DeleteModelKeeps DEF CatalogueNext

(* For any catalogue and any number of clients, with failing statements and lost
   answers: at most one client is told that it created a code, the code stays, and what a request has checked is still true when it writes. *)
THEOREM CatalogueSafe == CatalogueSpec => [](CatalogueTypeOK /\ CreatedOnce /\ ChecksStayTrue)
  <1>1. CatalogueInv => CatalogueTypeOK /\ CreatedOnce /\ ChecksStayTrue
    BY DEF CatalogueInv
  <1> QED
    BY <1>1, CatalogueStarts, CatalogueSteps, PTL DEF CatalogueSpec

(* The last part by itself: the answer of a write is the truth about what was
   checked before it, and every model has its type. *)
THEOREM ChecksHold == CatalogueSpec => []ChecksStayTrue
  BY CatalogueSafe, PTL

(* The same of the service that also serves recipes and the tenant key. *)
THEOREM ConfiguredTypesSafe == ConfigSpec => [](CreatedOnce /\ ChecksStayTrue)
<1>1. ConfigInit => CatalogueInv
  BY CatalogueStarts DEF ConfigInit
<1>2. CatalogueInv /\ [ConfigNext]_configVars => CatalogueInv'
  <2>1. [ConfigNext]_configVars => [CatalogueNext]_catalogueVars
    BY DEF ConfigNext, configVars
  <2>. QED
    BY <2>1, CatalogueSteps
<1>3. CatalogueInv => CreatedOnce /\ ChecksStayTrue
  BY DEF CatalogueInv
<1>. QED
  BY <1>1, <1>2, <1>3, PTL DEF ConfigSpec

-----------------------------------------------------------------------------
(* The tenant key *)

(* Requests past their verification that carry only the given keys. *)
KeyCalls(V) ==
    [pc : {"load_name", "save_key", "load_key", "save_name"},
     key : V, name : V, loaded : V]

(* What makes KeyVouchedFor inductive: the keys and names that requests under
   way hold, loaded or to be saved, are vouched for like those of the row. *)
KeyInv ==
    /\ keyRow \in [key : vouched \cup {None}, name : vouched \cup {None}]
    /\ saving \in [Clients -> KeyCalls(vouched \cup {None}) \cup {None}]

(* A request that begins with a vouched key and name. *)
LEMMA BeginKeeps ==
    ASSUME KeyInv, NEW h \in Clients, vouched \subseteq vouched',
           NEW k \in vouched' \cup {None}, NEW n \in vouched' \cup {None}, Begin(h, k, n)
    PROVE  KeyInv'
<1>. DEFINE W == vouched' \cup {None}
<1>1. [pc |-> "load_name", key |-> k, name |-> n, loaded |-> None] \in KeyCalls(W)
  BY DEF KeyCalls
<1>2. KeyCalls(vouched \cup {None}) \subseteq KeyCalls(W)
  BY DEF KeyCalls
<1>3. saving' \in [Clients -> KeyCalls(W) \cup {None}]
  BY <1>1, <1>2 DEF Begin, KeyInv
<1>4. keyRow' \in [key : W, name : W]
  BY DEF Begin, KeyInv
<1>. QED
  BY <1>3, <1>4 DEF KeyInv

(* A SELECT of the row. *)
LEMMA LoadKeeps ==
    ASSUME KeyInv, NEW h \in Clients, saving[h] # None,
           NEW v \in vouched \cup {None}, NEW next \in {"save_key", "save_name"},
           LoadTenantConfig(h, v, next)
    PROVE  KeyInv'
<1>. DEFINE W == vouched \cup {None}
<1>1. PICK w \in W :
         saving' = [saving EXCEPT ![h].loaded = w, ![h].pc = next]
  BY DEF LoadTenantConfig
<1>2. saving[h] \in KeyCalls(W)
  BY DEF KeyInv
<1>3. [saving[h] EXCEPT !.loaded = w, !.pc = next] \in KeyCalls(W)
  BY <1>2 DEF KeyCalls
<1>4. saving' = [saving EXCEPT ![h] = [saving[h] EXCEPT !.loaded = w, !.pc = next]]
  BY <1>1 DEF KeyInv
<1>5. saving' \in [Clients -> KeyCalls(W) \cup {None}]
  BY <1>3, <1>4 DEF KeyInv
<1>. QED
  BY <1>5 DEF LoadTenantConfig, KeyInv

(* A write of the row. *)
LEMMA SaveKeeps ==
    ASSUME KeyInv, NEW k \in vouched \cup {None}, NEW n \in vouched \cup {None},
           SaveTenantConfig(k, n)
    PROVE  keyRow' \in [key : vouched' \cup {None}, name : vouched' \cup {None}]
BY DEF SaveTenantConfig, KeyInv

(* Every statement of every request keeps the invariant. *)
LEMMA KeyStep == KeyInv /\ [KeyNext]_keyState => KeyInv'
<1>. SUFFICES ASSUME KeyInv, [KeyNext]_keyState PROVE KeyInv'
  OBVIOUS
<1>. DEFINE W == vouched \cup {None}
<1>1. ASSUME NEW h \in Clients, NEW k \in Keys, VerifyKnown(h, k) PROVE KeyInv'
  BY <1>1, BeginKeeps DEF VerifyKnown
<1>2. ASSUME NEW h \in Clients, NEW k \in Keys, VerifySaved(h, k) PROVE KeyInv'
  <2>1. keyRow.key = k /\ UNCHANGED vouched
    BY <1>2 DEF VerifySaved, ByConfig
  <2>2. k \in vouched' \cup {None} /\ keyRow.name \in vouched' \cup {None}
    BY <2>1 DEF KeyInv
  <2>. QED
    BY <1>2, <2>1, <2>2, BeginKeeps DEF VerifySaved
<1>3. ASSUME NEW h \in Clients, DeleteKey(h) PROVE KeyInv'
  BY <1>3, BeginKeeps DEF DeleteKey
<1>4. ASSUME NEW h \in Clients, LoadName(h) \/ LoadKey(h) PROVE KeyInv'
  <2>1. keyRow.key \in W /\ keyRow.name \in W
    BY DEF KeyInv
  <2>. QED
    BY <1>4, <2>1, LoadKeeps DEF LoadName, LoadKey, At
<1>5. ASSUME NEW h \in Clients, SaveKey(h) PROVE KeyInv'
  <2>1. saving[h] \in KeyCalls(W) /\ UNCHANGED vouched
    BY <1>5 DEF SaveKey, At, SaveTenantConfig, KeyInv
  <2>2. saving[h].key \in W /\ saving[h].loaded \in W
    BY <2>1 DEF KeyCalls
  <2>3. [saving[h] EXCEPT !.pc = "load_key"] \in KeyCalls(W)
    BY <2>1 DEF KeyCalls
  <2>4. saving' \in [Clients -> KeyCalls(W) \cup {None}]
    BY <1>5, <2>3 DEF SaveKey, KeyInv
  <2>. QED
    BY <1>5, <2>1, <2>2, <2>4, SaveKeeps DEF SaveKey, KeyInv
<1>6. ASSUME NEW h \in Clients, SaveName(h) PROVE KeyInv'
  <2>1. saving[h] \in KeyCalls(W) /\ UNCHANGED vouched
    BY <1>6 DEF SaveName, At, SaveTenantConfig, KeyInv
  <2>2. saving[h].loaded \in W /\ saving[h].name \in W
    BY <2>1 DEF KeyCalls
  <2>3. saving' \in [Clients -> KeyCalls(W) \cup {None}]
    BY <1>6 DEF SaveName, KeyInv
  <2>. QED
    BY <1>6, <2>1, <2>2, <2>3, SaveKeeps DEF SaveName, KeyInv
<1>7. CASE (\E k \in Tenants : InsertOrg(k) \/ RetireOrg(k)) \/ KeyCrash
  BY <1>7 DEF InsertOrg, RetireOrg, KeyCrash, KeyInv
<1>8. CASE UNCHANGED keyState
  BY <1>8 DEF keyState, KeyInv
<1>. QED
  BY <1>1, <1>2, <1>3, <1>4, <1>5, <1>6, <1>7, <1>8 DEF KeyNext, KeyRequest, PutKey

(* Whatever PUTs and DELETEs overlap, fail half-way or are cut off, the saved
   key and name are vouched for or empty (the routes below
   /api/v1/mqtt-tenant-key, verify_tenant_via_broker, save_tenant_config). *)
THEOREM SavedKeyVouchedFor == ConfigSpec => []KeyVouchedFor
<1>1. ConfigInit => KeyInv
  BY DEF ConfigInit, KeyInit, KeyInv
<1>2. KeyInv /\ [ConfigNext]_configVars => KeyInv'
  <2>1. [ConfigNext]_configVars => [KeyNext]_keyState
    BY DEF ConfigNext, configVars
  <2>. QED
    BY <2>1, KeyStep
<1>3. KeyInv => KeyVouchedFor
  BY DEF KeyInv, KeyVouchedFor
<1>. QED
  BY <1>1, <1>2, <1>3, PTL DEF ConfigSpec

-----------------------------------------------------------------------------
(* Recipes *)

RecipeCalls == [method : {"create_recipe", "update_recipe"}, id : RecipeIds]

(* The invariant with the types it needs. *)
RecipeInv ==
    /\ recipes \in Seq(RecipeIds)
    /\ pending \in [Clients -> RecipeCalls \cup {None}]
    /\ RecipesAsAnswered

(* The list a new process starts with. *)
LEMMA LoadedIsList == Loaded \in Seq(RecipeIds)
BY RecipeAssumption DEF Loaded

(* A recipe pushed to the end is offered, and nothing else changes. *)
LEMMA PushOffers ==
    ASSUME NEW s \in Seq(RecipeIds), NEW r \in RecipeIds
    PROVE  Append(s, r) \in Seq(RecipeIds) /\ ToSet(Append(s, r)) = ToSet(s) \cup {r}
<1>1. Append(s, r) \in Seq(RecipeIds)
  OBVIOUS
<1>2. Len(Append(s, r)) = Len(s) + 1 /\ Len(s) \in Nat
  OBVIOUS
<1>3. DOMAIN s = 1..Len(s) /\ DOMAIN Append(s, r) = 1..(Len(s) + 1)
  BY <1>1, <1>2
<1>4. Append(s, r)[Len(s) + 1] = r /\ \A i \in 1..Len(s) : Append(s, r)[i] = s[i]
  OBVIOUS
<1>5. ToSet(Append(s, r)) = ToSet(s) \cup {r}
  <2>1. ASSUME NEW x \in ToSet(Append(s, r)) PROVE x \in ToSet(s) \cup {r}
    <3>1. PICK i \in 1..(Len(s) + 1) : x = Append(s, r)[i]
      BY <1>3, <2>1 DEF ToSet
    <3>2. CASE i = Len(s) + 1
      BY <1>4, <3>1, <3>2
    <3>3. CASE i # Len(s) + 1
      <4>1. i \in 1..Len(s)
        BY <1>2, <3>3
      <4>. QED
        BY <1>3, <1>4, <3>1, <4>1 DEF ToSet
    <3>. QED
      BY <3>2, <3>3
  <2>2. ASSUME NEW x \in ToSet(s) PROVE x \in ToSet(Append(s, r))
    <3>1. PICK i \in 1..Len(s) : x = s[i]
      BY <1>3, <2>2 DEF ToSet
    <3>2. i \in 1..(Len(s) + 1)
      BY <1>2
    <3>. QED
      BY <1>3, <1>4, <3>1, <3>2 DEF ToSet
  <2>3. r \in ToSet(Append(s, r))
    <3>1. Len(s) + 1 \in 1..(Len(s) + 1)
      BY <1>2
    <3>. QED
      BY <1>3, <1>4, <3>1 DEF ToSet
  <2>. QED
    BY <2>1, <2>2, <2>3
<1>. QED
  BY <1>1, <1>5

(* remove_if leaves every recipe but one. *)
LEMMA EraseLeavesOthers ==
    ASSUME recipes \in Seq(RecipeIds), NEW r \in RecipeIds, EraseAll(r)
    PROVE  recipes' \in Seq(RecipeIds) /\ ToSet(recipes)' = ToSet(recipes) \ {r}
<1>0. PICK n \in 0..Len(recipes) : \E kept \in [1..n -> DOMAIN recipes] :
         /\ {kept[i] : i \in 1..n} = {k \in DOMAIN recipes : recipes[k] # r}
         /\ recipes' = [i \in 1..n |-> recipes[kept[i]]]
  BY DEF EraseAll
<1>1. PICK kept \in [1..n -> DOMAIN recipes] :
         /\ {kept[i] : i \in 1..n} = {k \in DOMAIN recipes : recipes[k] # r}
         /\ recipes' = [i \in 1..n |-> recipes[kept[i]]]
  BY <1>0
<1>2. n \in Nat /\ \A i \in 1..n : recipes[kept[i]] \in RecipeIds
  BY <1>1
<1>3. recipes' \in Seq(RecipeIds) /\ DOMAIN recipes' = 1..n
  BY <1>1, <1>2
<1>4. ToSet(recipes)' = {recipes[kept[i]] : i \in 1..n}
  BY <1>1, <1>3 DEF ToSet
<1>5. {recipes[kept[i]] : i \in 1..n} = {recipes[k] : k \in {k \in DOMAIN recipes : recipes[k] # r}}
  BY <1>1
<1>6. {recipes[k] : k \in {k \in DOMAIN recipes : recipes[k] # r}} = ToSet(recipes) \ {r}
  BY DEF ToSet
<1>. QED
  BY <1>3, <1>4, <1>5, <1>6

(* Every request, and a restart, keeps list and answers together. *)
LEMMA RecipeStep == RecipeInv /\ [RecipeNext]_recipeState => RecipeInv'
<1>. SUFFICES ASSUME RecipeInv, [RecipeNext]_recipeState PROVE RecipeInv'
  OBVIOUS
<1>1. ASSUME NEW h \in Clients, NEW r \in RecipeIds, CreateFind(h, r) \/ PutFind(h, r)
      PROVE  RecipeInv'
  <2>1. PICK m \in {"create_recipe", "update_recipe"} : Await(h, m, r)
    BY <1>1 DEF CreateFind, PutFind
  <2>2. [method |-> m, id |-> r] \in RecipeCalls
    BY DEF RecipeCalls
  <2>3. pending' \in [Clients -> RecipeCalls \cup {None}]
    BY <2>1, <2>2 DEF Await, RecipeInv
  <2>4. UNCHANGED <<recipes, offered, answered>>
    BY <1>1 DEF CreateFind, PutFind
  <2>. QED
    BY <2>3, <2>4 DEF RecipeInv, RecipesAsAnswered
<1>2. ASSUME NEW h \in Clients, NEW r \in RecipeIds, RemoveRecipe(h, r)
      PROVE  RecipeInv'
  <2>1. recipes' \in Seq(RecipeIds) /\ ToSet(recipes)' = ToSet(recipes) \ {r}
    BY <1>2, EraseLeavesOthers DEF RemoveRecipe, RecipeInv
  <2>. QED
    BY <1>2, <2>1 DEF RemoveRecipe, RecipeInv, RecipesAsAnswered
<1>3. ASSUME NEW h \in Clients, CreatePush(h) \/ UpdateRecipe(h)
      PROVE  RecipeInv'
  <2>. DEFINE r == pending[h].id
  <2>1. /\ r \in RecipeIds /\ offered' = offered \cup {r}
        /\ answered' = answered \cup {r}
        /\ pending' = [pending EXCEPT ![h] = None]
    BY <1>3 DEF CreatePush, UpdateRecipe, Awaits, Answer, RecipeInv, RecipeCalls
  <2>2. pending' \in [Clients -> RecipeCalls \cup {None}]
    BY <2>1 DEF RecipeInv
  <2>3. CASE PushBack(r)
    <3>1. recipes' \in Seq(RecipeIds) /\ ToSet(recipes)' = ToSet(recipes) \cup {r}
      BY <2>1, <2>3, PushOffers DEF PushBack, RecipeInv
    <3>. QED
      BY <2>1, <2>2, <3>1 DEF RecipeInv, RecipesAsAnswered
  <2>4. CASE FindById(r) /\ UNCHANGED recipes
    <3>1. r \in ToSet(recipes)
      BY <2>4 DEF FindById, Contains, ToSet, RecipeInv
    <3>. QED
      BY <2>1, <2>2, <2>4, <3>1 DEF RecipeInv, RecipesAsAnswered
  <2>. QED
    BY <1>3, <2>3, <2>4 DEF CreatePush, UpdateRecipe
<1>4. CASE RecipeRestart
  BY <1>4, LoadedIsList DEF RecipeRestart, RecipeInv, RecipesAsAnswered
<1>5. CASE UNCHANGED recipeState
  BY <1>5 DEF recipeState, RecipeInv, RecipesAsAnswered
<1>. QED
  BY <1>1, <1>2, <1>3, <1>4, <1>5 DEF RecipeNext, RecipeRequest

(* However requests overlap, the list offers what the answers of this process say,
   and where it has given none, what the table or the seed holds
   (create_recipe, update_recipe, remove_recipe, load_from_database). *)
THEOREM RecipesKept == ConfigSpec => []RecipesAsAnswered
<1>1. ConfigInit => RecipeInv
  BY LoadedIsList DEF ConfigInit, RecipeInit, RecipeInv, RecipesAsAnswered
<1>2. RecipeInv /\ [ConfigNext]_configVars => RecipeInv'
  <2>1. [ConfigNext]_configVars => [RecipeNext]_recipeState
    BY DEF ConfigNext, configVars
  <2>. QED
    BY <2>1, RecipeStep
<1>3. RecipeInv => RecipesAsAnswered
  BY DEF RecipeInv
<1>. QED
  BY <1>1, <1>2, <1>3, PTL DEF ConfigSpec

-----------------------------------------------------------------------------
(* The embedded MQTT client *)

(* What makes FlagMeansReceiving inductive: the callback runs on the receive
   thread only, the thread exists only after connect, and from the first step
   of disconnect on running stays reset; the thread finds the socket closed
   only after that. *)
EmbeddedInv ==
    /\ FlagMeansReceiving
    /\ inHand => receiver = "callback"
    /\ caller = "start" => receiver = "off" /\ ~flag /\ ~running
    /\ caller = "gone" => receiver \in {"off", "done"}
    /\ caller \in {"join", "gone"} => ~flag
    /\ caller \in {"close", "unflag", "join", "gone"} => ~running
    /\ caller \in {"start", "connected", "close", "unflag", "join", "gone"}
    /\ caller = "connected" /\ receiver # "off" => fd = "open"
    /\ receiver = "broken" => ~running

(* Every step of main or of the receive thread keeps it. *)
LEMMA EmbeddedStep == EmbeddedInv /\ [EmbeddedNext]_clientState => EmbeddedInv'
<1>. SUFFICES ASSUME EmbeddedInv, [EmbeddedNext]_clientState PROVE EmbeddedInv'
  OBVIOUS
<1>. USE DEF EmbeddedInv, FlagMeansReceiving
<1>1. CASE EmbeddedConnect
  BY <1>1 DEF EmbeddedConnect
<1>2. CASE TestRunning
  BY <1>2 DEF TestRunning
<1>11. CASE BeginReceive
  BY <1>11 DEF BeginReceive
<1>3. CASE ReceivePacket
  BY <1>3 DEF ReceivePacket
<1>4. CASE ReceiveFails
  BY <1>4 DEF ReceiveFails
<1>5. CASE CallbackReturns
  BY <1>5 DEF CallbackReturns
<1>6. CASE StopRunning
  BY <1>6 DEF StopRunning
<1>7. CASE CloseSocket
  BY <1>7 DEF CloseSocket
<1>8. CASE ClearFlag
  BY <1>8 DEF ClearFlag
<1>9. CASE JoinReceiver
  BY <1>9 DEF JoinReceiver
<1>10. CASE UNCHANGED clientState
  BY <1>10 DEF clientState
<1>. QED
  BY <1>1, <1>2, <1>3, <1>4, <1>5, <1>6, <1>7, <1>8, <1>9, <1>10, <1>11
  DEF EmbeddedNext, ReceiverStep

(* MqttClient built in, for any number of connects, failures and disconnects:
   until disconnect is called, is_connected answers true only while the receive
   thread lives, and once disconnect has returned no callback is running. *)
THEOREM ClientFlagHonest == MiddlewareSpec => []FlagMeansReceiving
<1>1. MiddlewareInit => EmbeddedInv
  BY DEF MiddlewareInit, EmbeddedInit, EmbeddedInv, FlagMeansReceiving
<1>2. EmbeddedInv /\ [MiddlewareNext]_middlewareVars => EmbeddedInv'
  <2>1. [MiddlewareNext]_middlewareVars => [EmbeddedNext]_clientState
    BY DEF MiddlewareNext, ClientPart, middlewareVars
  <2>. QED
    BY <2>1, EmbeddedStep
<1>3. EmbeddedInv => FlagMeansReceiving
  BY DEF EmbeddedInv
<1>. QED
  BY <1>1, <1>2, <1>3, PTL DEF MiddlewareSpec

-----------------------------------------------------------------------------
(* The schema *)

SchemaSteps == AllTables \cup {"version", "v1", "alter", "v2", "running", "down"}

(* What makes SchemaAsRecorded inductive: the tables before the one being
   created exist, all of them do once the migration has begun, and a migration
   that still has its connection when it records version 2 has added the
   column, unless its ALTER TABLE was refused. *)
SchemaInv ==
    /\ SchemaAsRecorded
    /\ version \in 0..2 /\ gap \in BOOLEAN
    /\ step \in SchemaSteps
    /\ \A i \in DOMAIN CreateOrder : step = CreateOrder[i] =>
          \A j \in DOMAIN CreateOrder : j < i => CreateOrder[j] \in tables
    /\ step \in {"version", "v1", "alter", "v2"} => AllTables \subseteq tables
    /\ step = "v2" /\ linked => keyed \/ gap

(* No table is created twice, and none is called as a step of the migration. *)
LEMMA CreateOrderFacts ==
    /\ DOMAIN CreateOrder = 1..13 /\ Len(CreateOrder) = 13
    /\ \A i, j \in DOMAIN CreateOrder : CreateOrder[i] = CreateOrder[j] => i = j
    /\ AllTables \cap {"version", "v1", "alter", "v2", "running", "down"} = {}
<1>1. DOMAIN CreateOrder = 1..13 /\ Len(CreateOrder) = 13
  BY DEF CreateOrder
<1>2. \A i, j \in DOMAIN CreateOrder : CreateOrder[i] = CreateOrder[j] => i = j
  BY DEF CreateOrder
<1>3. AllTables \cap {"version", "v1", "alter", "v2", "running", "down"} = {}
  BY DEF AllTables, CreateOrder
<1>. QED
  BY <1>1, <1>2, <1>3

(* Every statement, answered or not, and every crash keeps it. *)
LEMMA SchemaStep == SchemaInv /\ [SchemaNext]_schemaState => SchemaInv'
<1>. SUFFICES ASSUME SchemaInv, [SchemaNext]_schemaState PROVE SchemaInv'
  OBVIOUS
<1>. USE CreateOrderFacts DEF SchemaInv, SchemaAsRecorded, SchemaSteps
<1>0. /\ \A i \in DOMAIN CreateOrder : CreateOrder[i] \in AllTables
      /\ \A t \in AllTables : \E i \in DOMAIN CreateOrder : t = CreateOrder[i]
  BY DEF AllTables
<1>1. CASE Open
  BY <1>0, <1>1 DEF Open
<1>2. ASSUME NEW i \in DOMAIN CreateOrder, CreateTable(i)
      PROVE  SchemaInv'
  <2>1. CASE Succeeds(AddTable(step)) /\ Goto(IF i = Len(CreateOrder) THEN "version" ELSE CreateOrder[i + 1])
    <3>1. \A j \in DOMAIN CreateOrder : j < i + 1 => CreateOrder[j] \in tables'
      BY <1>2, <2>1 DEF CreateTable, Succeeds, AddTable
    <3>2. CASE i = 13
      <4>1. step' = "version" /\ AllTables \subseteq tables'
        BY <1>0, <2>1, <3>1, <3>2 DEF Goto
      <4>. QED
        BY <1>0, <1>2, <2>1, <4>1 DEF CreateTable, Succeeds, AddTable
    <3>3. CASE i # 13
      <4>1. i + 1 \in DOMAIN CreateOrder /\ step' = CreateOrder[i + 1]
        BY <2>1, <3>3 DEF Goto
      <4>2. step' \in AllTables
        BY <1>0, <4>1
      <4>3. version' = version /\ gap' = gap /\ (keyed => keyed')
        BY <1>2, <2>1 DEF CreateTable, Succeeds, AddTable
      <4>4. \A k \in DOMAIN CreateOrder : step' = CreateOrder[k] =>
               \A j \in DOMAIN CreateOrder : j < k => CreateOrder[j] \in tables'
        BY <3>1, <4>1
      <4>. QED
        BY <4>2, <4>3, <4>4
    <3>. QED
      BY <3>2, <3>3
  <2>2. CASE Fails(AddTable(step), UNCHANGED <<tables, keyed>>) /\ Goto("down")
    BY <1>0, <1>2, <2>2 DEF CreateTable, Fails, AddTable, Goto
  <2>. QED
    BY <1>2, <2>1, <2>2 DEF CreateTable
<1>3. CASE ReadVersion
  <2>1. /\ UNCHANGED <<tables, keyed, version, gap>>
        /\ step' \in {"v1", "alter", "running"}
        /\ step' = "running" /\ ~refused' => version = 2
    BY <1>3 DEF ReadVersion, Goto, Succeeds, Fails
  <2>. QED
    BY <1>0, <1>3, <2>1 DEF ReadVersion
<1>4. CASE RecordV1
  <2>1. version' \in 0..2 /\ (version' = 2 => version = 2)
    BY <1>4 DEF RecordV1, Succeeds, Fails, Record
  <2>. QED
    BY <1>0, <1>4, <2>1 DEF RecordV1, Goto
<1>5. CASE AddModelKey
  BY <1>0, <1>5 DEF AddModelKey, Succeeds, Fails, Goto
<1>6. CASE RecordV2
  <2>1. /\ version' \in {version, 2}
        /\ ~refused' => version' = 2
        /\ version' = 2 /\ version # 2 => linked
    BY <1>6 DEF RecordV2, Succeeds, Fails, Record
  <2>. QED
    BY <1>0, <1>6, <2>1 DEF RecordV2, Goto
<1>7. CASE LoseLink
  BY <1>7 DEF LoseLink
<1>8. CASE CrashAnywhere
  BY <1>0, <1>8 DEF CrashAnywhere
<1>9. CASE UNCHANGED schemaState
  BY <1>9 DEF schemaState
<1>. QED
  BY <1>1, <1>2, <1>3, <1>4, <1>5, <1>6, <1>7, <1>8, <1>9 DEF SchemaNext

(* Wherever starts broke off before and whatever statements were refused, for any
   number of starts: a running service has the tables, one whose statements all
   went through has version 2 on record, and behind that record is the column
   or an ALTER TABLE that the server refused (Database::open, init_schema,
   migrate_if_needed). *)
THEOREM SchemaUpToDate == MiddlewareSpec => []SchemaAsRecorded
<1>1. MiddlewareInit => SchemaInv
  <2>. SUFFICES ASSUME MiddlewareInit PROVE SchemaInv
    OBVIOUS
  <2>1. /\ version \in {0, 1} /\ gap = FALSE
        /\ step = "down"
    BY DEF MiddlewareInit, SchemaInit
  <2>2. SchemaAsRecorded
    BY <2>1 DEF SchemaAsRecorded
  <2>3. \A i \in DOMAIN CreateOrder : step # CreateOrder[i]
    BY CreateOrderFacts, <2>1 DEF AllTables
  <2>4. version \in 0..2 /\ step \in SchemaSteps
    BY <2>1 DEF SchemaSteps
  <2>5. gap \in BOOLEAN
    BY <2>1
  <2>. QED
    BY <2>1, <2>2, <2>3, <2>4, <2>5 DEF SchemaInv
<1>2. SchemaInv /\ [MiddlewareNext]_middlewareVars => SchemaInv'
  <2>1. [MiddlewareNext]_middlewareVars => [SchemaNext]_schemaState
    BY DEF MiddlewareNext, ClientPart, middlewareVars
  <2>. QED
    BY <2>1, SchemaStep
<1>3. SchemaInv => SchemaAsRecorded
  BY DEF SchemaInv
<1>. QED
  BY <1>1, <1>2, <1>3, PTL DEF MiddlewareSpec

-----------------------------------------------------------------------------
(* The log files *)

(* Where a rotation is: the position a file is about to move to is free, the
   current file has lines until it is renamed and none afterwards. *)
RotationInv ==
    /\ files \in [Slots -> Seq(Nat)]
    /\ pc \in {"down", "up", "shift", "current", "reopen"}
    /\ slot \in Slots /\ written \in Nat /\ crashes \in Nat
    /\ pc # "up" => ~open
    /\ pc = "shift" => slot >= 1 /\ (slot < MaxFiles => files[slot + 1] = <<>>)
    /\ pc = "current" => files[1] = <<>>
    /\ pc \in {"shift", "current"} => files[0] # <<>>
    /\ pc = "reopen" => files[0] = <<>>

(* How far the current file has grown: below the limit while it is written to;
   what a crash kept from being rotated is counted by the crash. *)
GrowthInv ==
    /\ FilesBounded
    /\ pc \in {"down", "up"} => Len(files[0]) < FileLimit + crashes
    /\ pc = "up" /\ open => Len(files[0]) < FileLimit

LogInv == RotationInv /\ GrowthInv /\ NothingLostBetween

(* What appending does to a file. *)
LEMMA AppendFacts ==
    ASSUME NEW q \in Seq(Nat), NEW n \in Nat
    PROVE  /\ Append(q, n) # <<>> /\ Len(Append(q, n)) = Len(q) + 1
           /\ Append(q, n)[Len(q) + 1] = n
           /\ \A i \in 1..Len(q) : Append(q, n)[i] = q[i]
<1>1. Append(q, n) # <<>>
  BY AppendProperties
<1>2. Len(Append(q, n)) = Len(q) + 1
  OBVIOUS
<1>3. Append(q, n)[Len(q) + 1] = n
  OBVIOUS
<1>4. \A i \in 1..Len(q) : Append(q, n)[i] = q[i]
  OBVIOUS
<1>. QED
  BY <1>1, <1>2, <1>3, <1>4

(* A line put at the end of the current file - a new one, or the one that filled
   the file just renamed - is the line that comes next. *)
LEMMA AppendKeepsOrder ==
    ASSUME files \in [Slots -> Seq(Nat)], written \in Nat, NothingLostBetween,
           NEW n \in Nat, n = written + 1 \/ (n = written /\ files[0] = <<>>),
           files' = [files EXCEPT ![0] = Append(@, n)], written' = n
    PROVE  NothingLostBetween'
<1>. USE DEF Slots
<1>1. 0 \in Slots /\ \A s \in Slots : files[s] \in Seq(Nat)
  OBVIOUS
<1>2. /\ files'[0] = Append(files[0], n)
      /\ \A s \in Slots : s # 0 => files'[s] = files[s]
  BY <1>1
<1>3. /\ files'[0] # <<>> /\ Len(files'[0]) = Len(files[0]) + 1
      /\ files'[0][Len(files'[0])] = n
      /\ \A i \in 1..Len(files[0]) : files'[0][i] = files[0][i]
  <2>. DEFINE q == files[0]
  <2>1. q \in Seq(Nat)
    BY <1>1
  <2>. HIDE DEF q
  <2>2. /\ Append(q, n) # <<>> /\ Len(Append(q, n)) = Len(q) + 1
        /\ Append(q, n)[Len(q) + 1] = n
        /\ \A i \in 1..Len(q) : Append(q, n)[i] = q[i]
    BY <2>1, AppendFacts, Zenon
  <2>3. files'[0] = Append(q, n)
    BY <1>2 DEF q
  <2>. QED
    BY <2>2, <2>3, Zenon DEF q
<1>4. files[0] # <<>> => files[0][Len(files[0])] = written /\ Len(files[0]) >= 1
  BY <1>1 DEF NothingLostBetween
<1>5. ASSUME NEW s \in Slots, NEW i \in 1..(Len(files'[s]) - 1)
      PROVE  files'[s][i + 1] = files'[s][i] + 1
  <2>1. CASE s # 0
    BY <1>2, <1>5, <2>1 DEF NothingLostBetween
  <2>2. CASE s = 0 /\ i < Len(files[0])
    <3>1. i \in 1..(Len(files[0]) - 1) /\ i + 1 \in 1..Len(files[0]) /\ i \in 1..Len(files[0])
      BY <1>1, <1>5, <2>2
    <3>. QED
      BY <1>1, <1>3, <2>2, <3>1 DEF NothingLostBetween
  <2>3. CASE s = 0 /\ i = Len(files[0])
    <3>1. files[0] # <<>> /\ i \in 1..Len(files[0])
      BY <1>1, <1>5, <2>3
    <3>. QED
      BY <1>1, <1>3, <1>4, <2>3, <3>1
  <2>. QED
    BY <1>1, <1>3, <1>5, <2>1, <2>2, <2>3
<1>6. ASSUME NEW j \in Slots, NEW k \in Slots, Follows(j, k)'
      PROVE  files'[j][1] \in {files'[k][Len(files'[k])], files'[k][Len(files'[k])] + 1}
  <2>1. /\ j < k /\ files'[j] # <<>> /\ files'[k] # <<>>
        /\ \A m \in Slots : j < m /\ m < k => files'[m] = <<>>
    BY <1>6 DEF Follows
  <2>2. k # 0 /\ files'[k] = files[k]
    BY <1>2, <2>1
  <2>3. CASE j # 0
    <3>1. Follows(j, k)
      BY <1>2, <2>1, <2>2, <2>3 DEF Follows
    <3>. QED
      BY <1>2, <2>2, <2>3, <3>1 DEF NothingLostBetween
  <2>4. CASE j = 0 /\ files[0] # <<>>
    <3>1. Follows(j, k)
      BY <1>2, <2>1, <2>2, <2>4 DEF Follows
    <3>2. files'[0][1] = files[0][1]
      BY <1>1, <1>3, <1>4, <2>4
    <3>. QED
      BY <2>2, <2>4, <3>1, <3>2 DEF NothingLostBetween
  <2>5. CASE j = 0 /\ files[0] = <<>>
    <3>1. files'[0][1] = n
      BY <1>1, <1>3, <2>5
    <3>2. \A m \in Slots : m < k => files[m] = <<>>
      BY <1>2, <2>1, <2>5
    <3>3. files[k][Len(files[k])] = written
      BY <2>1, <2>2, <3>2 DEF NothingLostBetween
    <3>. QED
      BY <2>2, <2>5, <3>1, <3>3
  <2>. QED
    BY <2>3, <2>4, <2>5
<1>7. ASSUME NEW j \in Slots, files'[j] # <<>>, \A m \in Slots : m < j => files'[m] = <<>>
      PROVE  files'[j][Len(files'[j])] = written'
  <2>1. j = 0
    BY <1>1, <1>3, <1>7
  <2>. QED
    BY <1>3, <2>1
<1>. QED
  BY <1>5, <1>6, <1>7 DEF NothingLostBetween

(* Renaming a file to the free next position changes no order. *)
LEMMA MoveKeepsOrder ==
    ASSUME files \in [Slots -> Seq(Nat)], written' = written, NothingLostBetween,
           NEW s \in Slots, NEW n \in Slots, n = s + 1, files[n] = <<>>,
           files' = [files EXCEPT ![n] = files[s], ![s] = <<>>]
    PROVE  NothingLostBetween'
<1>. USE DEF Slots
<1>. DEFINE was(m) == IF m = s + 1 THEN s ELSE m
<1>1. /\ files'[s] = <<>>
      /\ \A m \in Slots : m # s => was(m) \in Slots /\ files'[m] = files[was(m)]
      /\ \A m \in Slots : m # s /\ m # s + 1 => files'[m] = files[m]
      /\ files'[s + 1] = files[s]
  OBVIOUS
<1>2. \A j, k \in Slots : j # s /\ k # s /\ j < k => was(j) < was(k)
  OBVIOUS
<1>3. ASSUME NEW m \in Slots, NEW i \in 1..(Len(files'[m]) - 1)
      PROVE  files'[m][i + 1] = files'[m][i] + 1
  <2>1. m # s
    BY <1>1
  <2>. QED
    BY <1>1, <2>1 DEF NothingLostBetween
<1>4. ASSUME NEW j \in Slots, NEW k \in Slots, Follows(j, k)'
      PROVE  files'[j][1] \in {files'[k][Len(files'[k])], files'[k][Len(files'[k])] + 1}
  <2>1. /\ j < k /\ files'[j] # <<>> /\ files'[k] # <<>>
        /\ \A m \in Slots : j < m /\ m < k => files'[m] = <<>>
    BY <1>4 DEF Follows
  <2>2. j # s /\ k # s
    BY <1>1, <2>1
  <2>3. was(j) < was(k) /\ files[was(j)] # <<>> /\ files[was(k)] # <<>>
    BY <1>1, <1>2, <2>1, <2>2
  <2>4. ASSUME NEW m \in Slots, was(j) < m, m < was(k)
        PROVE  files[m] = <<>>
    <3>1. CASE m = s
      BY <1>1, <2>1, <2>2, <2>4, <3>1
    <3>2. CASE m = s + 1
      BY <3>2
    <3>3. CASE m # s /\ m # s + 1
      <4>1. j < m /\ m < k
        BY <2>2, <2>4, <3>3
      <4>. QED
        BY <1>1, <2>1, <3>3, <4>1
    <3>. QED
      BY <3>1, <3>2, <3>3
  <2>5. Follows(was(j), was(k))
    BY <2>3, <2>4 DEF Follows
  <2>. QED
    BY <1>1, <2>2, <2>5 DEF NothingLostBetween
<1>5. ASSUME NEW j \in Slots, files'[j] # <<>>, \A m \in Slots : m < j => files'[m] = <<>>
      PROVE  files'[j][Len(files'[j])] = written'
  <2>1. j # s
    BY <1>1, <1>5
  <2>2. ASSUME NEW m \in Slots, m < was(j) PROVE files[m] = <<>>
    <3>1. CASE m = s
      BY <1>1, <1>5, <2>1, <2>2, <3>1
    <3>2. CASE m = s + 1
      BY <3>2
    <3>3. CASE m # s /\ m # s + 1
      BY <1>1, <1>5, <2>1, <2>2, <3>3
    <3>. QED
      BY <3>1, <3>2, <3>3
  <2>. QED
    BY <1>1, <1>5, <2>1, <2>2 DEF NothingLostBetween
<1>. HIDE DEF was
<1>. QED
  BY <1>3, <1>4, <1>5 DEF NothingLostBetween

(* Removing the oldest file leaves the newer ones as they were. *)
LEMMA DropKeepsOrder ==
    ASSUME files \in [Slots -> Seq(Nat)], written' = written, NothingLostBetween,
           files[0] # <<>>, files' = [files EXCEPT ![MaxFiles] = <<>>]
    PROVE  NothingLostBetween'
<1>. USE DEF Slots
<1>1. /\ files'[MaxFiles] = <<>>
      /\ \A m \in Slots : m # MaxFiles => files'[m] = files[m]
  OBVIOUS
<1>2. \A m \in Slots : \A i \in 1..(Len(files'[m]) - 1) : files'[m][i + 1] = files'[m][i] + 1
  BY <1>1 DEF NothingLostBetween
<1>3. ASSUME NEW j \in Slots, NEW k \in Slots, Follows(j, k)'
      PROVE  Follows(j, k) /\ files'[j] = files[j] /\ files'[k] = files[k]
  <2>1. /\ j < k /\ files'[j] # <<>> /\ files'[k] # <<>>
        /\ \A m \in Slots : j < m /\ m < k => files'[m] = <<>>
    BY <1>3 DEF Follows
  <2>. QED
    BY <1>1, <2>1 DEF Follows
<1>4. ASSUME NEW j \in Slots, files'[j] # <<>>, \A m \in Slots : m < j => files'[m] = <<>>
      PROVE  files'[j][Len(files'[j])] = written'
  <2>1. j = 0 /\ files'[0] = files[0]
    BY <1>1, <1>4
  <2>. QED
    BY <1>4, <2>1 DEF NothingLostBetween
<1>. QED
  BY <1>2, <1>3, <1>4 DEF NothingLostBetween

(* A line more, and the rotation it may call for. *)
LEMMA AppendLineKeeps ==
    ASSUME LogInv, AppendLine, UNCHANGED crashes, ~open => pc = "down",
           pc = "down" \/ (pc = "up" /\ open)
    PROVE  LogInv'
<1>. USE DEF LogInv, RotationInv, GrowthInv, FilesBounded, Slots
<1>0. 0 \in Slots /\ MaxFiles \in Slots /\ 1 \in Slots
  OBVIOUS
<1>1. /\ written' = written + 1 /\ written' \in Nat
      /\ files' = [files EXCEPT ![0] = Append(@, written')]
  BY DEF AppendLine
<1>2. NothingLostBetween'
  BY <1>1, AppendKeepsOrder
<1>. DEFINE q == files[0]
<1>3. q \in Seq(Nat) /\ Len(q) \in Nat /\ Len(q) < FileLimit + crashes
  BY <1>0
<1>4. files'[0] = Append(q, written') /\ \A s \in Slots : s # 0 => files'[s] = files[s]
  BY <1>0, <1>1
<1>. HIDE DEF q
<1>5. Append(q, written') # <<>> /\ Len(Append(q, written')) = Len(q) + 1
      /\ Append(q, written') \in Seq(Nat)
  <2>1. Append(q, written') \in Seq(Nat)
    BY <1>1, <1>3
  <2>2. Append(q, written') # <<>> /\ Len(Append(q, written')) = Len(q) + 1
    BY <1>1, <1>3, AppendFacts, Zenon
  <2>. QED
    BY <2>1, <2>2
<1>6. files' \in [Slots -> Seq(Nat)]
  BY <1>1, <1>4, <1>5
<1>7. \A s \in Slots : Len(files'[s]) <= FileLimit + crashes
  <2>1. Len(files'[0]) <= FileLimit + crashes
    BY <1>3, <1>4, <1>5
  <2>2. \A s \in Slots : s # 0 => Len(files'[s]) <= FileLimit + crashes
    BY <1>4
  <2>. QED
    BY <2>1, <2>2
<1>8. CASE IsFull(files'[0])
  <2>1. pc' = "shift" /\ slot' = MaxFiles /\ open' = FALSE
    BY <1>8 DEF AppendLine
  <2>. QED
    BY <1>0, <1>1, <1>2, <1>4, <1>5, <1>6, <1>7, <2>1
<1>9. CASE ~IsFull(files'[0])
  <2>1. pc' = "up" /\ slot' = slot /\ open' = TRUE
    BY <1>9 DEF AppendLine
  <2>2. Len(files'[0]) < FileLimit
    BY <1>3, <1>4, <1>5, <1>9 DEF IsFull
  <2>. QED
    BY <1>0, <1>1, <1>2, <1>3, <1>4, <1>5, <1>6, <1>7, <2>1, <2>2
<1>. QED
  BY <1>8, <1>9

(* Every operation on the file system, and a crash between any two, keeps the
   invariant. *)
LEMMA LogStep == LogInv /\ [LogNext]_logVars => LogInv'
<1>. SUFFICES ASSUME LogInv, [LogNext]_logVars PROVE LogInv'
  OBVIOUS
<1>. USE DEF LogInv, RotationInv, GrowthInv, FilesBounded, Slots
<1>0. 0 \in Slots /\ MaxFiles \in Slots /\ 1 \in Slots /\ Len(<<>>) = 0
  OBVIOUS
<1>1. CASE Write
  BY <1>1, AppendLineKeeps DEF Write
<1>2. CASE Shift
  <2>1. /\ pc = "shift" /\ slot' = slot - 1 /\ UNCHANGED <<open, written, crashes>>
        /\ pc' = IF slot = 1 THEN "current" ELSE "shift"
        /\ slot >= 1 /\ slot \in Slots /\ ~open /\ files[0] # <<>>
        /\ slot < MaxFiles => files[slot + 1] = <<>>
    BY <1>2 DEF Shift
  <2>2. /\ files' \in [Slots -> Seq(Nat)] /\ files'[0] = files[0] /\ files'[slot] = <<>>
        /\ \A s \in Slots : Len(files'[s]) <= FileLimit + crashes
        /\ NothingLostBetween'
    <3>1. CASE slot = MaxFiles
      <4>1. files' = [files EXCEPT ![MaxFiles] = <<>>]
        BY <1>2, <3>1 DEF Shift
      <4>2. NothingLostBetween'
        BY <2>1, <4>1, DropKeepsOrder
      <4>3. files'[MaxFiles] = <<>> /\ \A s \in Slots : s # MaxFiles => files'[s] = files[s]
        BY <1>0, <4>1
      <4>4. files' \in [Slots -> Seq(Nat)]
        BY <1>0, <4>1
      <4>5. \A s \in Slots : s # MaxFiles => Len(files'[s]) <= FileLimit + crashes
        BY <4>3
      <4>6. Len(files'[MaxFiles]) <= FileLimit + crashes
        BY <1>0, <4>3
      <4>. QED
        BY <1>0, <3>1, <4>2, <4>3, <4>4, <4>5, <4>6
    <3>2. CASE slot # MaxFiles /\ files[slot] = <<>>
      <4>1. files' = files
        BY <1>2, <3>2 DEF Shift
      <4>2. NothingLostBetween'
        BY <2>1, <4>1 DEF NothingLostBetween, Follows
      <4>. QED
        BY <1>0, <3>2, <4>1, <4>2
    <3>3. CASE slot # MaxFiles /\ files[slot] # <<>>
      <4>1. files' = [files EXCEPT ![slot + 1] = files[slot], ![slot] = <<>>]
        BY <1>2, <3>3 DEF Shift
      <4>2. slot + 1 \in Slots /\ files[slot + 1] = <<>> /\ slot # 0 /\ slot + 1 # 0
        BY <2>1, <3>3
      <4>3. NothingLostBetween'
        BY <2>1, <4>1, <4>2, MoveKeepsOrder
      <4>4. /\ files'[slot] = <<>> /\ files'[slot + 1] = files[slot]
            /\ \A s \in Slots : s # slot /\ s # slot + 1 => files'[s] = files[s]
        BY <2>1, <4>1, <4>2
      <4>5. files' \in [Slots -> Seq(Nat)]
        BY <2>1, <4>1, <4>2
      <4>6. \A s \in Slots : Len(files'[s]) <= FileLimit + crashes
        BY <1>0, <2>1, <4>2, <4>4
      <4>. QED
        BY <1>0, <4>2, <4>3, <4>4, <4>5, <4>6
    <3>. QED
      BY <3>1, <3>2, <3>3
  <2>3. slot' \in Slots /\ slot' + 1 = slot
    BY <2>1
  <2>4. RotationInv'
    <3>1. CASE slot = 1
      <4>1. pc' = "current" /\ files'[1] = <<>>
        BY <2>1, <2>2, <3>1
      <4>. QED
        BY <2>1, <2>2, <2>3, <4>1
    <3>2. CASE slot # 1
      <4>1. pc' = "shift" /\ slot' >= 1 /\ files'[slot' + 1] = <<>>
        BY <2>1, <2>2, <2>3, <3>2
      <4>. QED
        BY <2>1, <2>2, <2>3, <4>1
    <3>. QED
      BY <3>1, <3>2
  <2>5. GrowthInv'
    BY <2>1, <2>2
  <2>. QED
    BY <2>2, <2>4, <2>5
<1>3. CASE RenameCurrent
  <2>1. /\ pc = "current" /\ pc' = "reopen" /\ UNCHANGED <<slot, open, written, crashes>>
        /\ files' = [files EXCEPT ![1] = files[0], ![0] = <<>>]
        /\ ~open /\ files[1] = <<>> /\ 1 = 0 + 1
    BY <1>3 DEF RenameCurrent
  <2>2. NothingLostBetween'
    BY <1>0, <2>1, MoveKeepsOrder
  <2>3. /\ files'[0] = <<>> /\ files'[1] = files[0]
        /\ \A s \in Slots : s # 0 /\ s # 1 => files'[s] = files[s]
    BY <1>0, <2>1
  <2>4. files' \in [Slots -> Seq(Nat)]
    BY <1>0, <2>1
  <2>5. ASSUME NEW s \in Slots PROVE Len(files'[s]) <= FileLimit + crashes
    <3>1. Len(files[s]) <= FileLimit + crashes /\ Len(files[0]) <= FileLimit + crashes
      BY <1>0
    <3>2. CASE s = 0
      <4>1. Len(files'[s]) = 0 /\ FileLimit \in Nat /\ crashes \in Nat
        BY <1>0, <2>3, <3>2
      <4>. QED
        BY <4>1
    <3>3. CASE s = 1
      BY <2>3, <3>1, <3>3
    <3>4. CASE s # 0 /\ s # 1
      BY <2>3, <3>1, <3>4
    <3>. QED
      BY <3>2, <3>3, <3>4
  <2>. QED
    BY <1>0, <2>1, <2>2, <2>3, <2>4, <2>5
<1>4. CASE Reopen
  <2>1. pc = "reopen" /\ pc' = "up" /\ UNCHANGED <<slot, written, crashes>> /\ files[0] = <<>>
    BY <1>4 DEF Reopen
  <2>2. CASE open' = TRUE /\ files' = [files EXCEPT ![0] = Append(@, written)]
    <3>1. NothingLostBetween'
      BY <2>1, <2>2, AppendKeepsOrder
    <3>2. files'[0] = Append(<<>>, written) /\ \A s \in Slots : s # 0 => files'[s] = files[s]
      BY <1>0, <2>1, <2>2
    <3>3. Len(files'[0]) = 1 /\ files'[0] \in Seq(Nat)
      <4>1. <<>> \in Seq(Nat)
        OBVIOUS
      <4>. QED
        BY <1>0, <3>2, <4>1, AppendProperties
    <3>4. files' \in [Slots -> Seq(Nat)]
      BY <2>2, <3>2, <3>3
    <3>. QED
      BY <1>0, <2>1, <2>2, <3>1, <3>2, <3>3, <3>4
  <2>3. CASE UNCHANGED <<open, files>>
    <3>1. NothingLostBetween'
      BY <2>1, <2>3 DEF NothingLostBetween, Follows
    <3>. QED
      BY <1>0, <2>1, <2>3, <3>1
  <2>. QED
    BY <1>4, <2>2, <2>3 DEF Reopen
<1>5. CASE Start
  <2>1. CASE AppendLine
    BY <1>5, <2>1, AppendLineKeeps DEF Start
  <2>2. CASE pc' = "up" /\ UNCHANGED <<files, slot, open, written>>
    <3>1. NothingLostBetween'
      BY <2>2 DEF NothingLostBetween, Follows
    <3>. QED
      BY <1>5, <2>2, <3>1 DEF Start
  <2>. QED
    BY <1>5, <2>1, <2>2 DEF Start
<1>6. CASE Crash
  <2>1. NothingLostBetween'
    BY <1>6 DEF Crash, NothingLostBetween, Follows
  <2>2. \A s \in Slots : Len(files[s]) \in Nat
    OBVIOUS
  <2>3. pc' = "down" /\ ~open' /\ crashes' = crashes + 1 /\ UNCHANGED <<files, slot, written>>
    BY <1>6 DEF Crash
  <2>4. RotationInv'
    BY <2>3
  <2>5. \A s \in Slots : Len(files[s]) < FileLimit + crashes'
    BY <2>2, <2>3
  <2>6. GrowthInv'
    BY <1>0, <2>2, <2>3, <2>5
  <2>. QED
    BY <2>1, <2>4, <2>6
<1>7. CASE UNCHANGED logVars
  <2>1. NothingLostBetween'
    BY <1>7 DEF logVars, NothingLostBetween, Follows
  <2>. QED
    BY <1>7, <2>1 DEF logVars
<1>. QED
  BY <1>1, <1>2, <1>3, <1>4, <1>5, <1>6, <1>7 DEF LogNext

(* No logged line is lost between the oldest one kept and the last one written,
   and no file outgrows its limit by more than a line for each crash, for every
   size and number of files (LogManager::write, rotate, init). *)
THEOREM LogsKept == MiddlewareSpec => [](NothingLostBetween /\ FilesBounded)
<1>1. MiddlewareInit => LogInv
  <2>. SUFFICES ASSUME MiddlewareInit PROVE LogInv
    OBVIOUS
  <2>1. /\ files = [s \in Slots |-> <<>>] /\ pc = "down" /\ slot = 0 /\ open = FALSE
        /\ written = 0 /\ crashes = 0
    BY DEF MiddlewareInit, LogInit
  <2>2. \A s \in Slots : files[s] = <<>> /\ Len(files[s]) = 0
    BY <2>1
  <2>3. 0 \in Slots /\ files \in [Slots -> Seq(Nat)]
    BY <2>1 DEF Slots
  <2>4. NothingLostBetween
    BY <2>2 DEF NothingLostBetween, Follows
  <2>. QED
    BY <2>1, <2>2, <2>3, <2>4 DEF LogInv, RotationInv, GrowthInv, FilesBounded
<1>2. LogInv /\ [MiddlewareNext]_middlewareVars => LogInv'
  <2>1. [MiddlewareNext]_middlewareVars => [LogNext]_logVars
    BY DEF MiddlewareNext, ClientPart, middlewareVars
  <2>. QED
    BY <2>1, LogStep
<1>3. LogInv => NothingLostBetween /\ FilesBounded
  BY DEF LogInv, GrowthInv
<1>. QED
  BY <1>1, <1>2, <1>3, PTL DEF MiddlewareSpec

(* What LogManager::rotate may cost on the disk, however often the process dies
   in the middle of it. *)
THEOREM LogSizeBounded == MiddlewareSpec => []FilesBounded
  BY LogsKept, PTL

=============================================================================
