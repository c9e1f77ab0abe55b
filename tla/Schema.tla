-------------------------------- MODULE Schema --------------------------------
(***************************************************************************)
(* How a process brings the database up: Database::open with init_schema   *)
(* and migrate_if_needed (src/middleware/storage/database.cpp).            *)
(*                                                                         *)
(* A statement handed to execute is one transaction.  It may be refused    *)
(* (a lock or statement timeout, a deadlock), or the connection may break, *)
(* before or after the server has carried the statement out; a connection  *)
(* that broke is not restored within the process, and from then on every   *)
(* statement fails.  The process may crash between any two statements and  *)
(* start again.                                                            *)
(***************************************************************************)
EXTENDS Naturals, Sequences

CONSTANTS
    MaxStarts       \* processes per behaviour (bound)

VARIABLES
    tables,     \* the tables that exist
    keyed,      \* device_models has the column model_key
    version,    \* the highest row of schema_version, 0 if there is none
    step,       \* where the process is: at a table to create, in the migration,
                \* "running" or "down"
    seen,       \* current_version in migrate_if_needed
    linked,     \* the connection works
    refused,    \* history: a statement of this start has failed
    gap,        \* history: an ALTER TABLE was refused without breaking the
                \* connection
    starts      \* processes so far

schemaVars == <<tables, keyed, version, step, seen, linked, refused, gap, starts>>

(* init_schema *)
CreateOrder ==
    <<"tenants", "device_types", "device_models", "devices", "activation_tokens",
      "audit_log", "orders", "recipes", "faults", "firmwares", "organizations",
      "accounts", "mqtt_tenant_config">>

AllTables == {CreateOrder[i] : i \in DOMAIN CreateOrder}

(* The foreign keys. *)
References(t) ==
    CASE t \in {"devices", "orders"} -> {"tenants"}
      [] t = "device_models" -> {"device_types"}
      [] t = "activation_tokens" -> {"devices"}
      [] OTHER -> {}

-----------------------------------------------------------------------------
(* execute: an effect on the server, and whether the caller is told so. *)

Succeeds(effect) == linked /\ effect /\ UNCHANGED <<linked, refused>>

Fails(effect, nothing) ==
    /\ refused' = TRUE
    /\ \/ nothing /\ UNCHANGED linked
       \/ (nothing \/ (linked /\ effect)) /\ linked' = FALSE

Goto(next) == step' = next /\ UNCHANGED starts

(* A database of an older release has its tables without model_key. *)
SchemaInit ==
    /\ \/ tables = {} /\ version = 0
       \/ tables = AllTables /\ version \in {0, 1}
    /\ keyed = FALSE
    /\ step = "down"
    /\ seen = 0
    /\ linked = FALSE
    /\ refused = FALSE /\ gap = FALSE
    /\ starts = 0

(* open: PQconnectdb; main ends if it fails. *)
Open ==
    /\ step = "down"
    /\ starts < MaxStarts
    /\ starts' = starts + 1
    /\ \/ linked' = TRUE /\ step' = CreateOrder[1]
       \/ UNCHANGED <<linked, step>>
    /\ refused' = FALSE
    /\ UNCHANGED <<tables, keyed, version, seen, gap>>

(* CREATE TABLE IF NOT EXISTS: refused if a table it refers to is missing;
   device_models is created with its model_key. *)
AddTable(t) ==
    /\ References(t) \subseteq tables
    /\ tables' = tables \cup {t}
    /\ keyed' = (keyed \/ (t = "device_models" /\ t \notin tables))

(* One of the create functions; an error closes the database and ends main. *)
CreateTable(i) ==
    /\ step = CreateOrder[i]
    /\ \/ /\ Succeeds(AddTable(step))
          /\ Goto(IF i = Len(CreateOrder) THEN "version" ELSE CreateOrder[i + 1])
       \/ /\ Fails(AddTable(step), UNCHANGED <<tables, keyed>>)
          /\ Goto("down")
    /\ UNCHANGED <<version, seen, gap>>

-----------------------------------------------------------------------------
(* migrate_if_needed: no statement's result is looked at, that of creating
   schema_version included. *)

(* SELECT MAX(version); 0 if it fails. *)
ReadVersion ==
    /\ step = "version"
    /\ \/ Succeeds(seen' = version)
       \/ Fails(seen' = 0, seen' = 0)
    /\ Goto(IF seen' < 1 THEN "v1" ELSE IF seen' < 2 THEN "alter" ELSE "running")
    /\ UNCHANGED <<tables, keyed, version, gap>>

Record(v) == version' = IF v > version THEN v ELSE version

(* Mutant: the initial schema taken to be that of version 2. *)
MutRecordV1 ==
    /\ step = "v1"
    /\ Succeeds(Record(2)) \/ Fails(Record(2), UNCHANGED version)
    /\ Goto("running")
    /\ UNCHANGED <<tables, keyed, seen, gap>>

RecordV1 ==
    /\ step = "v1"
    /\ Succeeds(Record(1)) \/ Fails(Record(1), UNCHANGED version)
    /\ Goto("alter")
    /\ UNCHANGED <<tables, keyed, seen, gap>>

(* ALTER TABLE ... ADD COLUMN IF NOT EXISTS, and its index. *)
AddModelKey ==
    /\ step = "alter"
    /\ Succeeds(keyed' = TRUE) \/ Fails(keyed' = TRUE, UNCHANGED keyed)
    /\ gap' = (gap \/ (linked' /\ ~keyed'))
    /\ Goto("v2")
    /\ UNCHANGED <<tables, version, seen>>

RecordV2 ==
    /\ step = "v2"
    /\ Succeeds(Record(2)) \/ Fails(Record(2), UNCHANGED version)
    /\ Goto("running")
    /\ UNCHANGED <<tables, keyed, seen, gap>>

-----------------------------------------------------------------------------
(* The process runs, on a connection that may break. *)
LoseLink ==
    /\ step = "running" /\ linked
    /\ linked' = FALSE
    /\ UNCHANGED <<tables, keyed, version, step, seen, refused, gap, starts>>

CrashAnywhere ==
    /\ step # "down"
    /\ step' = "down"
    /\ linked' = FALSE
    /\ UNCHANGED <<tables, keyed, version, seen, refused, gap, starts>>

SchemaNext ==
    \/ Open
    \/ \E i \in DOMAIN CreateOrder : CreateTable(i)
    \/ ReadVersion
    \/ RecordV1
    \/ AddModelKey
    \/ RecordV2
    \/ LoseLink
    \/ CrashAnywhere

SchemaSpec == SchemaInit /\ [][SchemaNext]_schemaVars

-----------------------------------------------------------------------------
(* Properties *)

(* Wherever earlier starts broke off, on a new database or an old one: a service
   that runs has every table (init_schema); if no statement of its own start was
   refused it has version 2 on record; and a recorded version 2 means that the
   column is there, unless the server once refused the ALTER TABLE and kept the
   connection - the one failure that a migration without checks goes on from to
   record the version (migrate_if_needed). *)
SchemaAsRecorded ==
    /\ step = "running" => AllTables \subseteq tables
    /\ step = "running" /\ ~refused => version = 2
    /\ version = 2 /\ ~keyed => gap

=============================================================================
