----------------------------- MODULE DeviceTypes -----------------------------
(***************************************************************************)
(* The catalogue of device types and models: DeviceTypeManager             *)
(* (src/app/device/device_type_manager.cpp), its routes in src/main.cpp    *)
(* and its two tables.                                                     *)
(*                                                                         *)
(* The manager keeps nothing and locks nothing: a request is a SELECT or   *)
(* two followed by one write, and any number of requests interleave        *)
(* between these statements.  Deleting only clears is_active, so what an   *)
(* earlier SELECT found is still there; the repeated checks of route and   *)
(* manager are therefore one step.  A SELECT that fails finds nothing; a   *)
(* write that fails is answered with an error, also when the connection    *)
(* broke after the server had carried it out.                              *)
(*                                                                         *)
(* A row keeps is_active and a model its type; names, descriptions, keys   *)
(* and orders of display decide nothing.                                   *)
(***************************************************************************)
EXTENDS Naturals

CONSTANTS
    TypeCodes, ModelCodes,  \* codes that clients send
    Other,                  \* the type code "other"
    Seeds,                  \* the types that create_device_types_table inserts
    Clients,                \* requests under way at the same time (bound)
    MayFail,                \* statements may fail
    MaxCreated,             \* successful creations of a code that are counted (bound)
    None

TypeRows == [active : BOOLEAN]
ModelRows == [type : TypeCodes, active : BOOLEAN]

(* A request past its checks: the write to come, with what it writes. *)
TypeCalls ==
    [write : {"insert_device_type", "update_device_type", "delete_device_type"},
     code : TypeCodes, type : {None}, active : BOOLEAN]
ModelCalls ==
    [write : {"insert_device_model", "update_device_model"},
     code : ModelCodes, type : TypeCodes, active : BOOLEAN]
Calls == TypeCalls \cup ModelCalls

ASSUME CatalogueAssumption ==
    /\ Other \in Seeds
    /\ Seeds \subseteq TypeCodes
    /\ TypeCodes \cap ModelCodes = {}
    /\ MayFail \in BOOLEAN
    /\ MaxCreated \in Nat \ {0}
    /\ None \notin TypeCodes \cup TypeRows \cup ModelRows \cup Calls

VARIABLES
    typeRow,    \* device_types: type code -> row, None where there is none
    modelRow,   \* device_models
    call,       \* per client: the request under way, None between two
    created     \* history: per code, the creations answered with success

catalogueVars == <<typeRow, modelRow, call, created>>

-----------------------------------------------------------------------------
(* SELECTs: a failing one answers as if there were nothing. *)

Finds(there) == IF MayFail THEN {there, FALSE} ELSE {there}
TypeExists(c) == Finds(typeRow[c] # None)
ModelExists(m) == Finds(modelRow[m] # None)

(* list_device_models(type_code, true) *)
ActiveModels(c) == {m \in ModelCodes : modelRow[m] # None
                                       /\ modelRow[m].type = c /\ modelRow[m].active}

-----------------------------------------------------------------------------
(* The requests up to their write.  A request that a check turns down changes
   nothing. *)

Proceed(h, write, code, type, on) ==
    /\ call[h] = None
    /\ call' = [call EXCEPT ![h] =
                   [write |-> write, code |-> code, type |-> type, active |-> on]]
    /\ UNCHANGED <<typeRow, modelRow, created>>

CreateType(h, c) ==
    /\ FALSE \in TypeExists(c)
    /\ Proceed(h, "insert_device_type", c, None, TRUE)

UpdateType(h, c, on) ==
    /\ TRUE \in TypeExists(c)
    /\ Proceed(h, "update_device_type", c, None, on)

(* Models are looked at, whether the type exists is not. *)
DeleteType(h, c) ==
    /\ c # Other
    /\ FALSE \in Finds(ActiveModels(c) # {})
    /\ Proceed(h, "delete_device_type", c, None, FALSE)

CreateModel(h, m, c) ==
    /\ TRUE \in TypeExists(c)
    /\ FALSE \in ModelExists(m)
    /\ Proceed(h, "insert_device_model", m, c, TRUE)

UpdateModel(h, m, c, on) ==
    /\ TRUE \in ModelExists(m)
    /\ TRUE \in TypeExists(c)
    /\ Proceed(h, "update_device_model", m, c, on)

-----------------------------------------------------------------------------
(* The writes: an UPDATE without a row to change succeeds. *)

(* Mutant: INSERT ... ON CONFLICT DO UPDATE. *)
MutInsertDeviceType(q) ==
    /\ typeRow' = [typeRow EXCEPT ![q.code] = [active |-> TRUE]]
    /\ UNCHANGED modelRow

(* type_code is UNIQUE. *)
InsertDeviceType(q) ==
    /\ typeRow[q.code] = None
    /\ typeRow' = [typeRow EXCEPT ![q.code] = [active |-> TRUE]]
    /\ UNCHANGED modelRow

UpdateDeviceType(q) ==
    /\ typeRow' = IF typeRow[q.code] = None THEN typeRow
                  ELSE [typeRow EXCEPT ![q.code] = [active |-> q.active]]
    /\ UNCHANGED modelRow

(* Mutant: DELETE in place of UPDATE ... is_active=FALSE. *)
MutDeleteDeviceType(q) ==
    /\ \A m \in ModelCodes : modelRow[m] # None => modelRow[m].type # q.code
    /\ typeRow' = [typeRow EXCEPT ![q.code] = None]
    /\ UNCHANGED modelRow

DeleteDeviceType(q) ==
    /\ typeRow' = IF typeRow[q.code] = None THEN typeRow
                  ELSE [typeRow EXCEPT ![q.code] = [active |-> FALSE]]
    /\ UNCHANGED modelRow

(* model_code is UNIQUE, type_code references device_types. *)
InsertDeviceModel(q) ==
    /\ modelRow[q.code] = None
    /\ typeRow[q.type] # None
    /\ modelRow' = [modelRow EXCEPT ![q.code] = [type |-> q.type, active |-> TRUE]]
    /\ UNCHANGED typeRow

UpdateDeviceModel(q) ==
    /\ typeRow[q.type] # None
    /\ modelRow' = IF modelRow[q.code] = None THEN modelRow
                   ELSE [modelRow EXCEPT ![q.code] = [type |-> q.type, active |-> q.active]]
    /\ UNCHANGED typeRow

Execute(q) ==
    \/ q.write = "insert_device_type" /\ InsertDeviceType(q)
    \/ q.write = "update_device_type" /\ UpdateDeviceType(q)
    \/ q.write = "delete_device_type" /\ DeleteDeviceType(q)
    \/ q.write = "insert_device_model" /\ InsertDeviceModel(q)
    \/ q.write = "update_device_model" /\ UpdateDeviceModel(q)

Count(n) == IF n < MaxCreated THEN n + 1 ELSE n
Inserts == {"insert_device_type", "insert_device_model"}

(* The write succeeds and is answered with success. *)
Succeed(h) ==
    /\ call[h] # None
    /\ Execute(call[h])
    /\ created' = IF call[h].write \in Inserts
                  THEN [created EXCEPT ![call[h].code] = Count(@)] ELSE created
    /\ call' = [call EXCEPT ![h] = None]

(* The constraints *)
Refused(q) ==
    CASE q.write = "insert_device_type" -> typeRow[q.code] # None
      [] q.write = "insert_device_model" -> modelRow[q.code] # None \/ typeRow[q.type] = None
      [] q.write = "update_device_model" -> typeRow[q.type] = None
      [] OTHER -> FALSE

(* The write is answered with an error: a constraint refuses it, or it fails, or
   its success does not reach the process; or the process dies. *)
Fail(h) ==
    /\ call[h] # None
    /\ \/ (MayFail \/ Refused(call[h])) /\ UNCHANGED <<typeRow, modelRow>>
       \/ MayFail /\ Execute(call[h])
    /\ call' = [call EXCEPT ![h] = None]
    /\ UNCHANGED created

(* delete_model is one statement. *)
DeleteModel(m) ==
    /\ modelRow' = IF modelRow[m] = None THEN modelRow
                   ELSE [modelRow EXCEPT ![m].active = FALSE]
    /\ UNCHANGED <<typeRow, call, created>>

-----------------------------------------------------------------------------
(* create_tables seeds the types; a later start finds them in place. *)
CatalogueInit ==
    /\ typeRow = [c \in TypeCodes |-> IF c \in Seeds THEN [active |-> TRUE] ELSE None]
    /\ modelRow = [m \in ModelCodes |-> None]
    /\ call = [h \in Clients |-> None]
    /\ created = [c \in TypeCodes \cup ModelCodes |-> 0]

(* The routes below /api/v1/device-types and /api/v1/device-models *)
TypeRequest(h, c) ==
    \/ CreateType(h, c)
    \/ \E on \in BOOLEAN : UpdateType(h, c, on)
    \/ DeleteType(h, c)

ModelRequest(h, m) ==
    \E c \in TypeCodes :
        \/ CreateModel(h, m, c)
        \/ \E on \in BOOLEAN : UpdateModel(h, m, c, on)

CatalogueNext ==
    \/ \E h \in Clients :
          \/ \E c \in TypeCodes : TypeRequest(h, c)
          \/ \E m \in ModelCodes : ModelRequest(h, m)
          \/ Succeed(h)
          \/ Fail(h)
    \/ \E m \in ModelCodes : DeleteModel(m)

CatalogueSpec == CatalogueInit /\ [][CatalogueNext]_catalogueVars

-----------------------------------------------------------------------------
(* Properties *)

(* Type invariant. *)
CatalogueTypeOK ==
    /\ typeRow \in [TypeCodes -> TypeRows \cup {None}]
    /\ modelRow \in [ModelCodes -> ModelRows \cup {None}]
    /\ call \in [Clients -> Calls \cup {None}]
    /\ created \in [TypeCodes \cup ModelCodes -> 0..MaxCreated]

(* However requests race, statements fail and answers get lost, at most one client
   is told that it created a code, none for a seeded type, and what a client was
   told it created stays, as do the seeded types (create_type, create_model). *)
CreatedOnce ==
    /\ \A c \in TypeCodes : /\ created[c] <= IF c \in Seeds THEN 0 ELSE 1
                            /\ created[c] = 1 \/ c \in Seeds => typeRow[c] # None
    /\ \A m \in ModelCodes : /\ created[m] <= 1
                             /\ created[m] = 1 => modelRow[m] # None

(* What a request found by its checks is still there when its write runs, however
   many other requests come in between: an update answered with success, which
   reports no missing row, was applied, and the foreign key refuses no model
   (update_type, update_model, create_model). *)
ChecksStayTrue ==
    /\ \A h \in Clients : call[h] # None =>
          /\ call[h].write = "update_device_type" => typeRow[call[h].code] # None
          /\ call[h].write = "update_device_model" => modelRow[call[h].code] # None
          /\ call[h].type # None => typeRow[call[h].type] # None
    /\ \A m \in ModelCodes : modelRow[m] # None => typeRow[modelRow[m].type] # None

CatalogueInv == CatalogueTypeOK /\ CreatedOnce /\ ChecksStayTrue
=============================================================================
