---------------------------- MODULE Organisations ----------------------------
(***************************************************************************)
(* The tree of organisations (src/app/organization/org_manager.cpp), its   *)
(* routes, its table and restarts.                                         *)
(*                                                                         *)
(* Every method holds OrgManager::mutex_ throughout, statements included,  *)
(* so a method is one action.  The results of the statements are ignored:  *)
(* where MayFail is TRUE a write may be lost while the caller is told it   *)
(* succeeded, and memory and table part.                                   *)
(*                                                                         *)
(* An organisation is what decisions depend on: its parent, its tenant,    *)
(* its type, whether it is active, and its path - the ids from the root    *)
(* down to itself, which the code writes as "/1/2/3".  Names, contacts,    *)
(* the level (the length of the path) and children_count (shown, never     *)
(* read) are left out, as is the copy of the tenant id that is sent to the *)
(* broker.                                                                 *)
(***************************************************************************)
EXTENDS Integers, Sequences, SequencesExt

CONSTANTS
    TenantIds,      \* tenant ids requests may carry
    SeedOrgs,       \* what seed_mock_data creates (scaled down)
    MaxOrgId,       \* ids the manager may hand out (bound)
    MaxRestarts,    \* crashes per behaviour (bound)
    MayFail         \* whether writes to the table may fail

OrgTypes == {"company", "department"}

ASSUME OrgAssumption ==
    /\ MaxOrgId \in Nat
    /\ MaxRestarts \in Nat
    /\ MayFail \in BOOLEAN
    /\ SeedOrgs \in Seq([parent : Nat, tenant : TenantIds, type : OrgTypes])

VARIABLES
    orgs,       \* OrgManager::orgs_, by id
    nextOrg,    \* OrgManager::next_id_
    orgRow,     \* the organizations table, by org_id
    seeding,    \* organisations that start-up still has to seed
    restarts    \* crashes so far

orgVars == <<orgs, nextOrg, orgRow, seeding, restarts>>

Org == [parent : Nat, tenant : TenantIds, type : OrgTypes,
        active : BOOLEAN, path : Seq(Nat)]

(* f with k mapped to v, and without k. *)
Put(f, k, v) == [x \in DOMAIN f \cup {k} |-> IF x = k THEN v ELSE f[x]]
Drop(f, k) == [x \in DOMAIN f \ {k} |-> f[x]]

(* Whether a statement takes effect. *)
Outcomes == IF MayFail THEN BOOLEAN ELSE {TRUE}

-----------------------------------------------------------------------------
(* Queries *)

(* org_exists *)
OrgExists(o) == o \in DOMAIN orgs

(* tenant_exists *)
TenantExists(t) == \E o \in DOMAIN orgs : orgs[o].tenant = t

(* has_children: active ones only. *)
HasChildren(o) == \E c \in DOMAIN orgs : orgs[c].parent = o /\ orgs[c].active

(* get_descendants: the organisations whose path starts with this one's and
   goes on; none if there is no such organisation. *)
GetDescendants(o) ==
    {d \in DOMAIN orgs : OrgExists(o) /\ IsStrictPrefix(orgs[o].path, orgs[d].path)}

(* get_org_scope *)
GetOrgScope(o) == {o} \cup GetDescendants(o)

-----------------------------------------------------------------------------
(* Methods *)

(* insert_org: org_id and tenant_id are UNIQUE. *)
InsertOrg(o, rec, ok) ==
    orgRow' = IF /\ ok
                 /\ o \notin DOMAIN orgRow
                 /\ \A r \in DOMAIN orgRow : orgRow[r].tenant # rec.tenant
              THEN Put(orgRow, o, rec)
              ELSE orgRow

(* update_org_db and delete_org_db; a row that is not there is no error. *)
UpdateOrgDb(o, rec, ok) ==
    orgRow' = IF ok /\ o \in DOMAIN orgRow
              THEN [orgRow EXCEPT ![o] = rec]
              ELSE orgRow

DeleteOrgDb(o, ok) == orgRow' = IF ok THEN Drop(orgRow, o) ELSE orgRow

(* Parent checks of create_org: it exists, is active, and a company takes
   departments only.  0 stands for no parent. *)
ParentAccepts(parent, type) ==
    parent # 0 => /\ OrgExists(parent)
                  /\ orgs[parent].active
                  /\ orgs[parent].type = "company" => type = "department"

(* Mutant: the path of a deeper organisation hung below its parent's id only. *)
MutPathBelow(parent, o) == IF parent = 0 THEN <<o>> ELSE <<parent, o>>

(* The path create_org computes. *)
PathBelow(parent, o) ==
    IF parent = 0 THEN <<o>> ELSE Append(orgs[parent].path, o)

(* Mutant: the uniqueness of the tenant left to the table. *)
MutCreateSameTenant(parent, tenant, type, ok) ==
    LET rec == [parent |-> parent, tenant |-> tenant, type |-> type,
                active |-> TRUE, path |-> PathBelow(parent, nextOrg)] IN
    /\ nextOrg <= MaxOrgId
    /\ ParentAccepts(parent, type)
    /\ orgs' = Put(orgs, nextOrg, rec)
    /\ nextOrg' = nextOrg + 1
    /\ InsertOrg(nextOrg, rec, ok)

(* create_org, from a request or from seed_mock_data. *)
CreateOrg(parent, tenant, type, ok) ==
    LET rec == [parent |-> parent, tenant |-> tenant, type |-> type,
                active |-> TRUE, path |-> PathBelow(parent, nextOrg)] IN
    /\ nextOrg <= MaxOrgId
    /\ ParentAccepts(parent, type)
    /\ ~TenantExists(tenant)
    /\ orgs' = Put(orgs, nextOrg, rec)
    /\ nextOrg' = nextOrg + 1
    /\ InsertOrg(nextOrg, rec, ok)

(* Mutant: the parent taken from the request as well, which leaves it 0. *)
MutUpdateMoves(o, active, ok) ==
    /\ OrgExists(o)
    /\ orgs' = [orgs EXCEPT ![o].active = active, ![o].parent = 0]
    /\ UpdateOrgDb(o, orgs'[o], ok)
    /\ UNCHANGED nextOrg

(* update_org: of the fields modelled only is_active can change. *)
UpdateOrg(o, active, ok) ==
    /\ OrgExists(o)
    /\ orgs' = [orgs EXCEPT ![o].active = active]
    /\ UpdateOrgDb(o, orgs'[o], ok)
    /\ UNCHANGED nextOrg

(* delete_org: refused while there are active children. *)
DeleteOrg(o, ok) ==
    /\ OrgExists(o)
    /\ ~HasChildren(o)
    /\ orgs' = Drop(orgs, o)
    /\ DeleteOrgDb(o, ok)
    /\ UNCHANGED nextOrg

(* Mutant: the next id counted from the rows that are left. *)
MutNextIdOf(rows) == Cardinality(DOMAIN rows) + 1

(* The id after the highest one loaded; a fresh manager starts at 1. *)
NextIdOf(rows) == IF DOMAIN rows = {} THEN 1 ELSE Max(DOMAIN rows) + 1

(* A crash, and load_from_database in the new process.  Without any row the
   mock data is seeded. *)
Reload ==
    /\ orgs' = orgRow
    /\ nextOrg' = NextIdOf(orgRow)
    /\ seeding' = IF DOMAIN orgRow = {} THEN SeedOrgs ELSE <<>>
    /\ UNCHANGED orgRow

-----------------------------------------------------------------------------
(* The system *)

NoOrgs == [o \in {} |-> 0]

OrgInit ==
    /\ orgs = NoOrgs
    /\ nextOrg = 1
    /\ orgRow = NoOrgs
    /\ seeding = SeedOrgs
    /\ restarts = 0

(* One create_org of seed_mock_data, before the server takes requests; what it
   returns is ignored. *)
Seed ==
    /\ seeding # <<>>
    /\ seeding' = Tail(seeding)
    /\ LET s == Head(seeding) IN
       \/ \E ok \in Outcomes : CreateOrg(s.parent, s.tenant, s.type, ok)
       \/ /\ ~(ParentAccepts(s.parent, s.type) /\ ~TenantExists(s.tenant))
          /\ UNCHANGED <<orgs, nextOrg, orgRow>>
    /\ UNCHANGED restarts

(* POST, PUT and DELETE under /api/v1/orgs; refused requests change nothing. *)
Request ==
    /\ seeding = <<>>
    /\ \E ok \in Outcomes :
       \/ \E parent \in DOMAIN orgs \cup {0}, t \in TenantIds, type \in OrgTypes :
             CreateOrg(parent, t, type, ok)
       \/ \E o \in DOMAIN orgs, active \in BOOLEAN : UpdateOrg(o, active, ok)
       \/ \E o \in DOMAIN orgs : DeleteOrg(o, ok)
    /\ UNCHANGED <<seeding, restarts>>

Restart ==
    /\ restarts < MaxRestarts
    /\ restarts' = restarts + 1
    /\ Reload

OrgNext == Seed \/ Request \/ Restart

OrgSpec == OrgInit /\ [][OrgNext]_orgVars

-----------------------------------------------------------------------------
(* Properties *)

(* Type invariant: ids are handed out below next_id_, in memory and in the
   table. *)
OrgTypeOK ==
    /\ nextOrg \in Nat \ {0}
    /\ restarts \in 0..MaxRestarts
    /\ seeding \in Seq([parent : Nat, tenant : TenantIds, type : OrgTypes])
    /\ \A f \in {orgs, orgRow} :
          /\ DOMAIN f \subseteq 1..(nextOrg - 1)
          /\ f \in [DOMAIN f -> Org]

(* No two organisations have the same tenant id (create_org's check and the
   UNIQUE column), whatever was deleted, lost or reloaded before. *)
TenantsUnique ==
    \A o, p \in DOMAIN orgs : orgs[o].tenant = orgs[p].tenant => o = p

(* The organisations from which parent links lead up to o: those whose every
   set that is closed under "parent of" contains o. *)
Below(o) ==
    {d \in DOMAIN orgs :
        \A S \in SUBSET DOMAIN orgs :
            (/\ d \in S
             /\ \A x \in S : OrgExists(orgs[x].parent) => orgs[x].parent \in S)
            => o \in S}

(* get_org_scope finds the organisations by their paths; the paths are written
   once and ids start again below deleted ones after a restart.  Still the
   scope of an organisation has everything that parent links put below it. *)
ScopeCoversTree == \A o \in DOMAIN orgs : Below(o) \subseteq GetOrgScope(o)

(* And it has nothing else, except below an organisation that is gone: an
   organisation in the scope, with all the ids of its path present, is below. *)
ScopeWithinTree ==
    \A o \in DOMAIN orgs : \A d \in GetOrgScope(o) :
        ToSet(orgs[d].path) \subseteq DOMAIN orgs => d \in Below(o)

=============================================================================
