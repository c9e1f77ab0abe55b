------------------------------ MODULE TenantKey ------------------------------
(***************************************************************************)
(* The tenant key of the platform: the routes below                        *)
(* /api/v1/mqtt-tenant-key (src/main.cpp) and the one row of               *)
(* mqtt_tenant_config, with the tables that vouch for a key.               *)
(*                                                                         *)
(* PUT verifies a key and saves it and its name; DELETE saves empty ones.  *)
(* Each save loads the other column and writes both back, so a request is  *)
(* four statements that others may come between, after the verification.   *)
(* A load that fails reads an empty string, and the result of a save is    *)
(* ignored.  The SELECTs of the verification are one step: what could      *)
(* happen between them is what they find when some of them fail.           *)
(*                                                                         *)
(* A name stands for the key it was found for; None is the empty string.   *)
(***************************************************************************)
EXTENDS Naturals

CONSTANTS
    Clients,        \* requests under way at the same time (bound)
    Tenants,        \* tenant ids of organisations
    BrokerKeys,     \* keys that the broker's API knows
    Default,        \* the tenant 'default', created with its table
    MayFail,        \* statements may fail
    None

Keys == Tenants \cup BrokerKeys \cup {Default}

VARIABLES
    owners,     \* keys with an active row in organizations
    tenants,    \* the tenants table, whose rows stay active
    keyRow,     \* mqtt_tenant_config, row 1
    saving,     \* per client: the request past its verification, None between
    vouched     \* history: keys that an organisation, a tenant or the broker
                \* has vouched for

keyVars == <<owners, tenants, keyRow, saving, vouched>>

KeyOutcomes == IF MayFail THEN BOOLEAN ELSE {TRUE}

-----------------------------------------------------------------------------
(* verify_tenant_via_broker *)

(* The broker may be out of reach, a SELECT may fail. *)
ByBroker(k) == {reached /\ k \in BrokerKeys : reached \in BOOLEAN}
ByOrganisation(k) == {ok /\ k \in owners : ok \in KeyOutcomes}
ByTenant(k) == {ok /\ k \in tenants : ok \in KeyOutcomes}

(* Mutant: WHERE id=1 alone. *)
MutByConfig(k) == {ok /\ keyRow.key # None : ok \in KeyOutcomes}

ByConfig(k) == {ok /\ keyRow.key = k : ok \in KeyOutcomes}

Begin(h, k, n) ==
    /\ saving[h] = None
    /\ saving' = [saving EXCEPT ![h] =
                     [pc |-> "load_name", key |-> k, name |-> n, loaded |-> None]]
    /\ UNCHANGED <<owners, tenants, keyRow>>

(* The key is known, and so is its name. *)
VerifyKnown(h, k) ==
    /\ TRUE \in ByBroker(k) \cup ByOrganisation(k) \cup ByTenant(k)
    /\ Begin(h, k, k)
    /\ vouched' = vouched \cup {k}

(* Nobody else knows it, but it is the key that is saved, under the name that is
   saved. *)
VerifySaved(h, k) ==
    /\ FALSE \in ByOrganisation(k)
    /\ FALSE \in ByTenant(k)
    /\ TRUE \in ByConfig(k)
    /\ Begin(h, k, keyRow.name)
    /\ UNCHANGED vouched

(* PUT; a key that is not verified changes nothing. *)
PutKey(h, k) == VerifyKnown(h, k) \/ VerifySaved(h, k)

(* DELETE saves an empty key and an empty name. *)
DeleteKey(h) == Begin(h, None, None) /\ UNCHANGED vouched

-----------------------------------------------------------------------------
(* save_tenant_key, then save_tenant_name *)

At(h, pc) == saving[h] # None /\ saving[h].pc = pc

(* load_tenant_config *)
LoadTenantConfig(h, value, next) ==
    /\ \E ok \in KeyOutcomes :
          saving' = [saving EXCEPT ![h].loaded = IF ok THEN value ELSE None, ![h].pc = next]
    /\ UNCHANGED <<owners, tenants, keyRow, vouched>>

(* save_tenant_config *)
SaveTenantConfig(k, n) ==
    /\ \E ok \in KeyOutcomes : keyRow' = IF ok THEN [key |-> k, name |-> n] ELSE keyRow
    /\ UNCHANGED <<owners, tenants, vouched>>

LoadName(h) == At(h, "load_name") /\ LoadTenantConfig(h, keyRow.name, "save_key")

SaveKey(h) ==
    /\ At(h, "save_key")
    /\ SaveTenantConfig(saving[h].key, saving[h].loaded)
    /\ saving' = [saving EXCEPT ![h].pc = "load_key"]

LoadKey(h) == At(h, "load_key") /\ LoadTenantConfig(h, keyRow.key, "save_name")

SaveName(h) ==
    /\ At(h, "save_name")
    /\ SaveTenantConfig(saving[h].loaded, saving[h].name)
    /\ saving' = [saving EXCEPT ![h] = None]

KeyRequest(h) ==
    \/ \E k \in Keys : PutKey(h, k)
    \/ DeleteKey(h)
    \/ LoadName(h) \/ SaveKey(h) \/ LoadKey(h) \/ SaveName(h)

-----------------------------------------------------------------------------
(* The tables that vouch *)

(* insert_org: the tenant first, then the organisation; two statements. *)
InsertOrg(k) ==
    /\ \E ok1, ok2 \in KeyOutcomes :
          /\ tenants' = IF ok1 THEN tenants \cup {k} ELSE tenants
          /\ owners' = IF ok2 THEN owners \cup {k} ELSE owners
    /\ UNCHANGED <<keyRow, saving, vouched>>

(* An organisation is made inactive or deleted; its tenant stays. *)
RetireOrg(k) ==
    /\ owners' = owners \ {k}
    /\ UNCHANGED <<tenants, keyRow, saving, vouched>>

(* A crash ends the requests; the tables stay. *)
KeyCrash ==
    /\ saving' = [h \in Clients |-> None]
    /\ UNCHANGED <<owners, tenants, keyRow, vouched>>

KeyInit ==
    /\ owners = {}
    /\ tenants = {Default}
    /\ keyRow = [key |-> None, name |-> None]
    /\ saving = [h \in Clients |-> None]
    /\ vouched = {}

KeyNext ==
    \/ \E h \in Clients : KeyRequest(h)
    \/ \E k \in Tenants : InsertOrg(k) \/ RetireOrg(k)
    \/ KeyCrash

KeySpec == KeyInit /\ [][KeyNext]_keyVars

-----------------------------------------------------------------------------
(* Whatever requests overlap, fail half-way or are cut off by a crash, the key
   and the name in the row are ones that an organisation, a tenant or the broker
   has vouched for, or empty: the row itself, which the verification asks last,
   lets no other key in (verify_tenant_via_broker, save_tenant_config). *)
KeyVouchedFor == {keyRow.key, keyRow.name} \subseteq vouched \cup {None}
=============================================================================
