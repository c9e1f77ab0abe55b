--------------------------- MODULE AccountsProofs ---------------------------
(***************************************************************************)
(* Organisations and accounts.  For every bound, seed and set of tenants,  *)
(* with writes that may fail: the scope an organisation has by its path is *)
(* its subtree by parent links.  Neither half is inductive: what keeps the *)
(* paths right across a restart is that memory and table describe the same *)
(* tree, a row that outlived its organisation included (Linked, for all    *)
(* four pairs), and that a path has no id at or above next_id_             *)
(* (WellFormed), so that an id handed out again is in no path that is      *)
(* left.                                                                   *)
(*                                                                         *)
(* For every number of handlers, users, organisations and restarts: the    *)
(* accounts keep their types, drive the organisations through their own    *)
(* operations, a token is accepted for another user only if its account    *)
(* was never stored and is gone, and never for a disabled account.         *)
(*                                                                         *)
(* The last two are not inductive: a restart replaces memory by the table, *)
(* so both must say the same of every account but for the writes that      *)
(* failed (Mirrored), and what a token names must stay, in the table if it *)
(* was stored and in memory while the process lasts (Held).                *)
(***************************************************************************)
EXTENDS Accounts, WellFoundedInduction, SequenceTheorems, TLAPS

-----------------------------------------------------------------------------
(* Organisations *)

(* Paths below n: they end with their own id, after the parent's. *)
WellFormed(f, n) ==
    /\ DOMAIN f \subseteq 1..(n - 1)
    /\ f \in [DOMAIN f -> Org]
    /\ \A o \in DOMAIN f :
          /\ Len(f[o].path) >= 1
          /\ f[o].path[Len(f[o].path)] = o
          /\ \A i \in 1..Len(f[o].path) : f[o].path[i] \in 1..o
          /\ f[o].parent # 0 => /\ Len(f[o].path) > 1
                                /\ f[o].path[Len(f[o].path) - 1] = f[o].parent
          /\ f[o].parent = 0 => Len(f[o].path) = 1

(* p is the first k ids of q. *)
FirstIds(p, q, k) == Len(p) = k /\ \A j \in 1..k : p[j] = q[j]

(* Where a path of f has an id of g, g has the beginning of that path. *)
Linked(f, g) ==
    \A o \in DOMAIN f : \A i \in 1..Len(f[o].path) :
        f[o].path[i] \in DOMAIN g => FirstIds(g[f[o].path[i]].path, f[o].path, i)

Distinct(f) == \A o, p \in DOMAIN f : f[o].tenant = f[p].tenant => o = p

Agree(f, g) ==
    \A o \in DOMAIN f \cap DOMAIN g :
        f[o].parent = g[o].parent /\ f[o].tenant = g[o].tenant

TreeInv(f, g, n) ==
    /\ WellFormed(f, n) /\ WellFormed(g, n)
    /\ Linked(f, f) /\ Linked(f, g) /\ Linked(g, f) /\ Linked(g, g)
    /\ Distinct(f) /\ Distinct(g) /\ Agree(f, g)

OrgInv ==
    /\ nextOrg \in Nat \ {0}
    /\ restarts \in 0..MaxRestarts
    /\ seeding \in Seq([parent : Nat, tenant : TenantIds, type : OrgTypes])
    /\ TreeInv(orgs, orgRow, nextOrg)

-----------------------------------------------------------------------------
(* Numbers *)

(* A non-empty set of naturals has a smallest element. *)
LEMMA SmallestOf ==
    ASSUME NEW T \in SUBSET Nat, T # {}
    PROVE  \E x \in T : \A y \in T : x <= y
<1>1. PICK x \in T : \A y \in T : ~(<<y, x>> \in OpToRel(<, Nat))
  BY NatLessThanWellFounded, WFMin, Zenon
<1>2. \A y \in T : ~(y < x)
  BY <1>1 DEF OpToRel
<1> QED
  BY <1>2

(* A non-empty set of ids below n has a largest one. *)
LEMMA LargestOf ==
    ASSUME NEW n \in Nat, NEW T \in SUBSET (1..n), T # {}
    PROVE  Max(T) \in T /\ \A y \in T : y <= Max(T)
<1> DEFINE U == {u \in Nat : \E x \in T : u = n - x}
<1>1. U \in SUBSET Nat /\ U # {}
  <2>1. PICK x \in T : TRUE
    OBVIOUS
  <2>2. n - x \in Nat
    OBVIOUS
  <2> QED
    BY <2>2
<1>2. PICK u \in U : \A v \in U : u <= v
  BY <1>1, SmallestOf
<1>3. PICK x \in T : u = n - x
  BY <1>2
<1>4. ASSUME NEW y \in T PROVE y <= x
  <2>1. n - y \in U /\ x \in 1..n /\ y \in 1..n
    OBVIOUS
  <2>2. n - x <= n - y
    BY <1>2, <1>3, <2>1
  <2> QED
    BY <2>1, <2>2
<1>5. \E z \in T : \A y \in T : z >= y
  BY <1>3, <1>4
<1> QED
  BY <1>5 DEF Max

(* load_from_database: every id loaded is below the new next_id_. *)
LEMMA NextIdAbove ==
    ASSUME NEW n \in Nat \ {0}, NEW f, DOMAIN f \subseteq 1..(n - 1)
    PROVE  NextIdOf(f) \in Nat \ {0} /\ DOMAIN f \subseteq 1..(NextIdOf(f) - 1)
<1>1. CASE DOMAIN f = {}
  BY <1>1 DEF NextIdOf
<1>2. CASE DOMAIN f # {}
  <2>1. n - 1 \in Nat
    OBVIOUS
  <2>2. Max(DOMAIN f) \in DOMAIN f /\ \A y \in DOMAIN f : y <= Max(DOMAIN f)
    BY <1>2, <2>1, LargestOf
  <2> QED
    BY <1>2, <2>2 DEF NextIdOf
<1> QED
  BY <1>1, <1>2

-----------------------------------------------------------------------------
(* Sequences *)

(* A path is a prefix of another if it agrees with it as far as it goes. *)
LEMMA PrefixPointwise ==
    ASSUME NEW s \in Seq(Nat), NEW t \in Seq(Nat)
    PROVE  IsPrefix(s, t) <=> /\ Len(s) <= Len(t)
                              /\ \A j \in 1..Len(s) : s[j] = t[j]
<1>1. CASE Len(s) <= Len(t)
  <2> DEFINE a == SubSeq(s, 1, Len(s))
             b == SubSeq(t, 1, Len(s))
  <2>1. /\ a \in Seq(Nat) /\ b \in Seq(Nat)
        /\ Len(a) = Len(s) /\ Len(b) = Len(s)
        /\ \A j \in 1..Len(s) : a[j] = s[j] /\ b[j] = t[j]
    BY <1>1
  <2>2. IsPrefix(s, t) <=> a = b
    BY <1>1 DEF IsPrefix
  <2> HIDE DEF a, b
  <2>3. a = b => \A j \in 1..Len(s) : s[j] = t[j]
    BY <2>1
  <2>4. ASSUME \A j \in 1..Len(s) : s[j] = t[j] PROVE a = b
    <3>1. Len(a) = Len(b) /\ \A j \in 1..Len(a) : a[j] = b[j]
      BY <2>1, <2>4
    <3> QED
      BY <2>1, <3>1, SeqEqual, Zenon
  <2> QED
    BY <1>1, <2>2, <2>3, <2>4
<1>2. CASE ~(Len(s) <= Len(t))
  BY <1>2 DEF IsPrefix
<1> QED
  BY <1>1, <1>2

-----------------------------------------------------------------------------
(* What the invariant says of scopes *)

(* The parent of an organisation, if present, has its path without the end. *)
LEMMA ParentPath ==
    ASSUME NEW f, NEW n, WellFormed(f, n), Linked(f, f),
           NEW x \in DOMAIN f, f[x].parent \in DOMAIN f
    PROVE  FirstIds(f[f[x].parent].path, f[x].path, Len(f[x].path) - 1)
<1>1. f[x].path \in Seq(Nat) /\ f[x].parent # 0
  BY DEF WellFormed, Org
<1>2. Len(f[x].path) > 1 /\ f[x].path[Len(f[x].path) - 1] = f[x].parent
  BY <1>1 DEF WellFormed
<1>3. Len(f[x].path) - 1 \in 1..Len(f[x].path)
  BY <1>1, <1>2
<1> QED
  BY <1>2, <1>3 DEF Linked

(* The scope by paths reaches all of the subtree. *)
LEMMA InvCovers == OrgInv => ScopeCoversTree
<1> SUFFICES ASSUME OrgInv, NEW o \in DOMAIN orgs, NEW d \in Below(o)
             PROVE  d \in GetOrgScope(o)
  BY DEF ScopeCoversTree
<1> DEFINE Q == orgs[d].path
           S == {x \in DOMAIN orgs : IsPrefix(orgs[x].path, Q)}
<1>1. WellFormed(orgs, nextOrg) /\ Linked(orgs, orgs)
  BY DEF OrgInv, TreeInv
<1>2. \A x \in DOMAIN orgs : orgs[x].path \in Seq(Nat)
  BY <1>1 DEF WellFormed, Org
<1>3. d \in DOMAIN orgs
  BY DEF Below
<1>4. d \in S
  BY <1>2, <1>3 DEF IsPrefix
<1>5. ASSUME NEW x \in S, OrgExists(orgs[x].parent)
      PROVE  orgs[x].parent \in S
  <2> DEFINE p == orgs[x].parent
  <2>1. FirstIds(orgs[p].path, orgs[x].path, Len(orgs[x].path) - 1)
    BY <1>1, <1>5, ParentPath DEF OrgExists
  <2>2. p \in DOMAIN orgs
    BY <1>5 DEF OrgExists
  <2>3. /\ Len(orgs[x].path) <= Len(Q)
        /\ \A j \in 1..Len(orgs[x].path) : orgs[x].path[j] = Q[j]
    BY <1>2, <1>3, PrefixPointwise
  <2>4. /\ Len(orgs[p].path) <= Len(Q)
        /\ \A j \in 1..Len(orgs[p].path) : orgs[p].path[j] = Q[j]
    BY <1>2, <1>3, <2>1, <2>2, <2>3 DEF FirstIds
  <2> QED
    BY <1>2, <1>3, <2>2, <2>4, PrefixPointwise
<1>6. S \in SUBSET DOMAIN orgs
  OBVIOUS
<1>7. o \in S
  BY <1>4, <1>5, <1>6 DEF Below
<1>8. o # d => orgs[o].path # Q
  BY <1>1, <1>3 DEF WellFormed
<1> QED
  BY <1>3, <1>7, <1>8 DEF GetOrgScope, GetDescendants, OrgExists, IsStrictPrefix

(* And nothing else. *)
LEMMA InvWithin == OrgInv => ScopeWithinTree
<1> SUFFICES ASSUME OrgInv, NEW o \in DOMAIN orgs, NEW d \in GetOrgScope(o),
                    ToSet(orgs[d].path) \subseteq DOMAIN orgs
             PROVE  d \in Below(o)
  BY DEF ScopeWithinTree
<1> DEFINE Q == orgs[d].path
           L == Len(orgs[o].path)
<1>1. WellFormed(orgs, nextOrg) /\ Linked(orgs, orgs)
  BY DEF OrgInv, TreeInv
<1>2. \A x \in DOMAIN orgs : orgs[x].path \in Seq(Nat)
  BY <1>1 DEF WellFormed, Org
<1>3. d \in DOMAIN orgs
  BY DEF GetOrgScope, GetDescendants
<1>4. Len(Q) \in Nat \ {0} /\ L \in Nat \ {0}
  BY <1>1, <1>2, <1>3 DEF WellFormed
<1>5. L <= Len(Q) /\ Q[L] = o
  <2>1. CASE d = o
    BY <1>1, <1>2, <2>1 DEF WellFormed
  <2>2. CASE d # o
    <3>1. IsPrefix(orgs[o].path, Q)
      BY <2>2 DEF GetOrgScope, GetDescendants, IsStrictPrefix
    <3>2. L <= Len(Q) /\ \A j \in 1..L : orgs[o].path[j] = Q[j]
      BY <1>2, <1>3, <3>1, PrefixPointwise
    <3>3. orgs[o].path[L] = o
      BY <1>1 DEF WellFormed
    <3> QED
      BY <1>4, <3>2, <3>3
  <2> QED
    BY <2>1, <2>2
<1>6. ASSUME NEW S \in SUBSET DOMAIN orgs, d \in S,
             \A x \in S : OrgExists(orgs[x].parent) => orgs[x].parent \in S
      PROVE  o \in S
  <2> DEFINE K == {k \in L..Len(Q) : Q[k] \in S}
  <2>1. Q[Len(Q)] = d
    BY <1>1, <1>3 DEF WellFormed
  <2>2. Len(Q) \in K
    BY <1>4, <1>5, <1>6, <2>1
  <2>3. K \in SUBSET Nat /\ K # {}
    BY <1>4, <2>2
  <2>4. PICK m \in K : \A k \in K : m <= k
    BY <2>3, SmallestOf
  <2>5. m \in 1..Len(Q) /\ m \in L..Len(Q) /\ Q[m] \in S
    BY <1>4, <2>4
  <2>6. CASE m = L
    BY <1>5, <2>5, <2>6
  <2>7. CASE m # L
    <3> DEFINE x == Q[m]
    <3>1. x \in S /\ x \in DOMAIN orgs
      BY <2>5
    <3>2. FirstIds(orgs[x].path, Q, m)
      BY <1>1, <1>3, <2>5, <3>1 DEF Linked
    <3>3. m > 1 /\ m - 1 \in L..Len(Q) /\ m - 1 \in 1..Len(Q)
      BY <1>4, <2>5, <2>7
    <3>4. Len(orgs[x].path) = m /\ orgs[x].path[m - 1] = Q[m - 1]
      BY <3>2, <3>3, <1>4 DEF FirstIds
    <3>5. orgs[x].parent = Q[m - 1]
      <4>1. /\ orgs[x].parent = 0 => Len(orgs[x].path) = 1
            /\ orgs[x].parent # 0 =>
                  orgs[x].path[Len(orgs[x].path) - 1] = orgs[x].parent
        BY <1>1, <3>1 DEF WellFormed
      <4>2. Len(orgs[x].path) # 1
        BY <3>3, <3>4, <2>5
      <4> QED
        BY <3>4, <4>1, <4>2
    <3>6. Q[m - 1] \in DOMAIN orgs
      BY <1>2, <1>3, <3>3 DEF ToSet
    <3>7. Q[m - 1] \in S
      BY <1>6, <3>1, <3>5, <3>6 DEF OrgExists
    <3>8. m - 1 \in K
      BY <3>3, <3>7
    <3>9. m <= m - 1
      BY <2>4, <3>8
    <3> QED
      BY <2>5, <3>9
  <2> QED
    BY <2>6, <2>7
<1> QED
  BY <1>3, <1>6 DEF Below

-----------------------------------------------------------------------------
(* Steps *)

(* The record create_org builds. *)
OrgRecord(f, n, parent, tenant, type) ==
    [parent |-> parent, tenant |-> tenant, type |-> type, active |-> TRUE,
     path |-> IF parent = 0 THEN <<n>> ELSE Append(f[parent].path, n)]

(* What WellFormed asks of the record of n. *)
NewRecord(rec, n) ==
    /\ rec \in Org
    /\ Len(rec.path) >= 1
    /\ rec.path[Len(rec.path)] = n
    /\ \A i \in 1..Len(rec.path) : rec.path[i] \in 1..n
    /\ \A i \in 1..(Len(rec.path) - 1) : rec.path[i] # n
    /\ rec.parent # 0 => Len(rec.path) > 1 /\ rec.path[Len(rec.path) - 1] = rec.parent
    /\ rec.parent = 0 => Len(rec.path) = 1

(* What Linked asks of it. *)
LinkedRecord(rec, g) ==
    \A i \in 1..(Len(rec.path) - 1) :
        rec.path[i] \in DOMAIN g => FirstIds(g[rec.path[i]].path, rec.path, i)

(* A new organisation's record fits behind every path there is. *)
LEMMA RecordFits ==
    ASSUME NEW n \in Nat \ {0}, NEW f, WellFormed(f, n),
           NEW parent \in DOMAIN f \cup {0}, NEW tenant \in TenantIds,
           NEW type \in OrgTypes
    PROVE  /\ NewRecord(OrgRecord(f, n, parent, tenant, type), n)
           /\ \A g : Linked(f, g) =>
                 LinkedRecord(OrgRecord(f, n, parent, tenant, type), g)
<1> DEFINE rec == OrgRecord(f, n, parent, tenant, type)
<1>1. CASE parent = 0
  BY <1>1 DEF Org, OrgRecord, NewRecord, LinkedRecord
<1>2. CASE parent # 0
  <2> DEFINE p == f[parent].path
  <2>1. parent \in DOMAIN f /\ parent \in 1..(n - 1) /\ p \in Seq(Nat)
    BY <1>2 DEF WellFormed, Org
  <2>2. Len(p) >= 1 /\ p[Len(p)] = parent /\ \A i \in 1..Len(p) : p[i] \in 1..parent
    BY <2>1 DEF WellFormed
  <2>3. /\ rec.path = Append(p, n) /\ rec.path \in Seq(Nat)
        /\ Len(rec.path) = Len(p) + 1
        /\ rec.path[Len(p) + 1] = n
        /\ \A i \in 1..Len(p) : rec.path[i] = p[i]
    BY <1>2, <2>1 DEF OrgRecord
  <2>4. \A i \in 1..Len(p) : rec.path[i] \in 1..n /\ rec.path[i] # n
    BY <2>1, <2>2, <2>3
  <2>5. rec \in Org /\ rec.parent = parent
    BY <2>1, <2>3 DEF Org, OrgRecord
  <2> HIDE DEF rec
  <2>6. NewRecord(rec, n)
    BY <1>2, <2>1, <2>2, <2>3, <2>4, <2>5 DEF NewRecord
  <2>7. ASSUME NEW g, Linked(f, g), NEW i \in 1..(Len(rec.path) - 1),
               rec.path[i] \in DOMAIN g
        PROVE  FirstIds(g[rec.path[i]].path, rec.path, i)
    <3>1. i \in 1..Len(p) /\ rec.path[i] = p[i]
      BY <2>1, <2>3
    <3>2. FirstIds(g[rec.path[i]].path, p, i)
      BY <2>1, <2>7, <3>1 DEF Linked
    <3>3. \A j \in 1..i : rec.path[j] = p[j]
      BY <2>1, <2>3, <3>1
    <3> QED
      BY <3>2, <3>3 DEF FirstIds
  <2> QED
    BY <2>6, <2>7 DEF LinkedRecord, rec
<1> QED
  BY <1>1, <1>2

(* create_org adds the record to memory, and to the table or not. *)
LEMMA PutWellFormed ==
    ASSUME NEW n \in Nat \ {0}, NEW f, NEW rec, WellFormed(f, n), NewRecord(rec, n)
    PROVE  WellFormed(Put(f, n, rec), n + 1) /\ WellFormed(f, n + 1)
<1> USE DEF NewRecord
<1> DEFINE g == Put(f, n, rec)
<1>1. DOMAIN g = DOMAIN f \cup {n} /\ g[n] = rec
  BY DEF Put
<1>2. \A o \in DOMAIN f : o # n /\ g[o] = f[o]
  BY DEF Put, WellFormed
<1>3. DOMAIN f \subseteq 1..n /\ DOMAIN g \subseteq 1..n /\ (n + 1) - 1 = n
  BY <1>1 DEF WellFormed
<1>4. g \in [DOMAIN g -> Org]
  BY <1>1, <1>2 DEF Put, WellFormed
<1>5. WellFormed(f, n + 1)
  BY <1>3 DEF WellFormed
<1>6. \A o \in DOMAIN g :
          /\ Len(g[o].path) >= 1
          /\ g[o].path[Len(g[o].path)] = o
          /\ \A i \in 1..Len(g[o].path) : g[o].path[i] \in 1..o
          /\ g[o].parent # 0 => /\ Len(g[o].path) > 1
                                /\ g[o].path[Len(g[o].path) - 1] = g[o].parent
          /\ g[o].parent = 0 => Len(g[o].path) = 1
  <2> SUFFICES ASSUME NEW o \in DOMAIN g
               PROVE  /\ Len(g[o].path) >= 1
                      /\ g[o].path[Len(g[o].path)] = o
                      /\ \A i \in 1..Len(g[o].path) : g[o].path[i] \in 1..o
                      /\ g[o].parent # 0 =>
                            /\ Len(g[o].path) > 1
                            /\ g[o].path[Len(g[o].path) - 1] = g[o].parent
                      /\ g[o].parent = 0 => Len(g[o].path) = 1
    OBVIOUS
  <2>1. CASE o = n
    BY <1>1, <2>1
  <2>2. CASE o # n
    <3>1. o \in DOMAIN f /\ g[o] = f[o]
      BY <1>1, <1>2, <2>2
    <3> HIDE DEF g
    <3> QED
      BY <3>1 DEF WellFormed
  <2> QED
    BY <2>1, <2>2
<1> QED
  BY <1>3, <1>4, <1>5, <1>6 DEF WellFormed

(* One more record keeps the paths of memory and table in agreement. *)
LEMMA PutLinked ==
    ASSUME NEW n \in Nat \ {0}, NEW f, NEW g, NEW rec,
           WellFormed(f, n), WellFormed(g, n), Linked(f, g),
           NewRecord(rec, n), LinkedRecord(rec, g)
    PROVE  \A f1 \in {f, Put(f, n, rec)}, g1 \in {g, Put(g, n, rec)} : Linked(f1, g1)
<1> SUFFICES ASSUME NEW f1 \in {f, Put(f, n, rec)}, NEW g1 \in {g, Put(g, n, rec)},
                    NEW o \in DOMAIN f1, NEW i \in 1..Len(f1[o].path),
                    f1[o].path[i] \in DOMAIN g1
             PROVE  FirstIds(g1[f1[o].path[i]].path, f1[o].path, i)
  BY DEF Linked
<1> USE DEF NewRecord, LinkedRecord
<1> DEFINE a == f1[o].path[i]
<1>1. n \notin DOMAIN f /\ n \notin DOMAIN g
  BY DEF WellFormed
<1>2. o = n => f1[o] = rec
  BY <1>1 DEF Put
<1>3. o # n => o \in DOMAIN f /\ f1[o] = f[o]
  BY DEF Put
<1>4. a = n => g1[a] = rec
  BY <1>1 DEF Put
<1>5. a # n => a \in DOMAIN g /\ g1[a] = g[a]
  BY DEF Put
<1>6. CASE o # n
  <2>1. a \in 1..o /\ o \in 1..(n - 1)
    BY <1>3, <1>6 DEF WellFormed
  <2>2. a # n
    BY <2>1
  <2> QED
    BY <1>3, <1>5, <1>6, <2>2 DEF Linked
<1>7. CASE o = n /\ i # Len(rec.path)
  <2>1. i \in 1..(Len(rec.path) - 1) /\ a = rec.path[i]
    BY <1>2, <1>7 DEF Org
  <2>2. a # n
    BY <2>1
  <2> QED
    BY <1>2, <1>5, <1>7, <2>1, <2>2
<1>8. CASE o = n /\ i = Len(rec.path)
  <2>1. a = n /\ g1[a] = rec
    BY <1>2, <1>4, <1>8
  <2> QED
    BY <1>2, <1>8, <2>1 DEF FirstIds
<1> QED
  BY <1>6, <1>7, <1>8

(* create_org *)
LEMMA CreateKeepsTree ==
    ASSUME NEW n \in Nat \ {0}, NEW f, NEW g, NEW rec, TreeInv(f, g, n),
           NewRecord(rec, n), LinkedRecord(rec, f), LinkedRecord(rec, g),
           \A o \in DOMAIN f : f[o].tenant # rec.tenant,
           NEW g1,
           \/ g1 = g
           \/ g1 = Put(g, n, rec) /\ \A r \in DOMAIN g : g[r].tenant # rec.tenant
    PROVE  TreeInv(Put(f, n, rec), g1, n + 1)
<1> DEFINE f1 == Put(f, n, rec)
<1>1. WellFormed(f, n) /\ WellFormed(g, n)
  BY DEF TreeInv
<1>2. /\ WellFormed(f1, n + 1) /\ WellFormed(Put(g, n, rec), n + 1)
      /\ WellFormed(g, n + 1)
  BY <1>1, PutWellFormed
<1>3. Linked(f, f) /\ Linked(f, g) /\ Linked(g, f) /\ Linked(g, g)
  BY DEF TreeInv
<1>4. Linked(f1, f1)
  BY <1>1, <1>3, PutLinked
<1>5. Linked(f1, g1)
  BY <1>1, <1>3, PutLinked
<1>6. Linked(g1, f1)
  BY <1>1, <1>3, PutLinked
<1>7. Linked(g1, g1)
  BY <1>1, <1>3, PutLinked
<1>8. n \notin DOMAIN f /\ n \notin DOMAIN g
  BY <1>1 DEF WellFormed
<1>9. Distinct(f1) /\ Distinct(g1) /\ Agree(f1, g1)
  BY <1>8 DEF TreeInv, Distinct, Agree, Put
<1> QED
  BY <1>2, <1>4, <1>5, <1>6, <1>7, <1>9 DEF TreeInv

(* create_org keeps the tree. *)
LEMMA CreateStep ==
    ASSUME OrgInv, NEW parent \in Nat, NEW tenant \in TenantIds, NEW type \in OrgTypes,
           NEW ok \in BOOLEAN, CreateOrg(parent, tenant, type, ok)
    PROVE  nextOrg' \in Nat \ {0} /\ TreeInv(orgs, orgRow, nextOrg)'
<1> DEFINE rec == OrgRecord(orgs, nextOrg, parent, tenant, type)
<1>1. /\ orgs' = Put(orgs, nextOrg, rec)
      /\ nextOrg' = nextOrg + 1
      /\ InsertOrg(nextOrg, rec, ok)
      /\ parent \in DOMAIN orgs \cup {0}
      /\ \A o \in DOMAIN orgs : orgs[o].tenant # tenant
  BY DEF CreateOrg, PathBelow, OrgRecord, ParentAccepts, OrgExists, TenantExists
<1>2. nextOrg \in Nat \ {0} /\ TreeInv(orgs, orgRow, nextOrg)
  BY DEF OrgInv
<1>3. WellFormed(orgs, nextOrg) /\ Linked(orgs, orgs) /\ Linked(orgs, orgRow)
  BY <1>2 DEF TreeInv
<1>4. NewRecord(rec, nextOrg) /\ LinkedRecord(rec, orgs) /\ LinkedRecord(rec, orgRow)
  BY <1>1, <1>2, <1>3, RecordFits
<1>5. rec.tenant = tenant
  BY DEF OrgRecord
<1> HIDE DEF rec
<1>6. \/ orgRow' = orgRow
      \/ /\ orgRow' = Put(orgRow, nextOrg, rec)
         /\ \A r \in DOMAIN orgRow : orgRow[r].tenant # rec.tenant
  BY <1>1 DEF InsertOrg
<1>7. TreeInv(Put(orgs, nextOrg, rec), orgRow', nextOrg + 1)
  BY <1>1, <1>2, <1>4, <1>5, <1>6, CreateKeepsTree
<1> QED
  BY <1>1, <1>2, <1>7

(* update_org changes no path, no parent and no tenant. *)
LEMMA UpdateKeepsTree ==
    ASSUME NEW n, NEW f, NEW g, TreeInv(f, g, n), NEW f1, NEW g1,
           DOMAIN f1 = DOMAIN f, DOMAIN g1 = DOMAIN g,
           f1 \in [DOMAIN f -> Org], g1 \in [DOMAIN g -> Org],
           \A o \in DOMAIN f : /\ f1[o].path = f[o].path /\ f1[o].parent = f[o].parent
                               /\ f1[o].tenant = f[o].tenant,
           \A o \in DOMAIN g : /\ g1[o].path = g[o].path /\ g1[o].parent = g[o].parent
                               /\ g1[o].tenant = g[o].tenant
    PROVE  TreeInv(f1, g1, n)
<1>1. WellFormed(f1, n) /\ WellFormed(g1, n)
  <2>1. ASSUME NEW h, NEW h1, WellFormed(h, n), DOMAIN h1 = DOMAIN h,
               h1 \in [DOMAIN h -> Org],
               \A o \in DOMAIN h : h1[o].path = h[o].path /\ h1[o].parent = h[o].parent
        PROVE  WellFormed(h1, n)
    BY <2>1 DEF WellFormed
  <2> QED
    BY <2>1 DEF TreeInv
<1>2. Linked(f1, f1) /\ Linked(f1, g1) /\ Linked(g1, f1) /\ Linked(g1, g1)
  BY DEF TreeInv, Linked
<1>3. Distinct(f1) /\ Distinct(g1) /\ Agree(f1, g1)
  BY DEF TreeInv, Distinct, Agree
<1> QED
  BY <1>1, <1>2, <1>3 DEF TreeInv

(* update_org keeps the tree. *)
LEMMA UpdateStep ==
    ASSUME OrgInv, NEW o \in DOMAIN orgs, NEW active \in BOOLEAN, NEW ok \in BOOLEAN,
           UpdateOrg(o, active, ok)
    PROVE  nextOrg' \in Nat \ {0} /\ TreeInv(orgs, orgRow, nextOrg)'
<1>1. TreeInv(orgs, orgRow, nextOrg) /\ nextOrg' = nextOrg /\ nextOrg \in Nat \ {0}
  BY DEF OrgInv, UpdateOrg, UpdateOrgDb
<1>2. orgs \in [DOMAIN orgs -> Org] /\ orgRow \in [DOMAIN orgRow -> Org]
  BY <1>1 DEF TreeInv, WellFormed
<1>3. orgs' = [orgs EXCEPT ![o].active = active]
  BY DEF UpdateOrg, UpdateOrgDb
<1>4. /\ DOMAIN orgs' = DOMAIN orgs
      /\ orgs' \in [DOMAIN orgs -> Org]
      /\ \A x \in DOMAIN orgs : /\ orgs'[x].path = orgs[x].path
                                /\ orgs'[x].parent = orgs[x].parent
                                /\ orgs'[x].tenant = orgs[x].tenant
  BY <1>2, <1>3 DEF Org
<1>5. o \in DOMAIN orgRow => /\ orgs[o].path = orgRow[o].path
                             /\ orgs[o].parent = orgRow[o].parent
                             /\ orgs[o].tenant = orgRow[o].tenant
  <2> SUFFICES ASSUME o \in DOMAIN orgRow
               PROVE  orgs[o].path = orgRow[o].path
    BY <1>1 DEF TreeInv, Agree
  <2>1. orgs[o].path \in Seq(Nat) /\ orgRow[o].path \in Seq(Nat)
    BY <1>2 DEF Org
  <2>2. Len(orgs[o].path) >= 1 /\ orgs[o].path[Len(orgs[o].path)] = o
    BY <1>1 DEF TreeInv, WellFormed
  <2>3. Len(orgs[o].path) \in 1..Len(orgs[o].path)
    BY <2>1, <2>2
  <2>4. FirstIds(orgRow[o].path, orgs[o].path, Len(orgs[o].path))
    BY <1>1, <2>2, <2>3 DEF TreeInv, Linked
  <2> DEFINE s == orgs[o].path
             t == orgRow[o].path
  <2>5. s \in Seq(Nat) /\ t \in Seq(Nat) /\ Len(t) = Len(s)
        /\ \A j \in 1..Len(s) : t[j] = s[j]
    BY <2>1, <2>4 DEF FirstIds
  <2> HIDE DEF s, t
  <2>6. s = t
    BY <2>5
  <2> QED
    BY <2>6 DEF s, t
<1>6. /\ DOMAIN orgRow' = DOMAIN orgRow
      /\ orgRow' \in [DOMAIN orgRow -> Org]
      /\ \A x \in DOMAIN orgRow : /\ orgRow'[x].path = orgRow[x].path
                                  /\ orgRow'[x].parent = orgRow[x].parent
                                  /\ orgRow'[x].tenant = orgRow[x].tenant
  <2>1. CASE orgRow' = orgRow
    BY <1>2, <2>1
  <2>2. CASE o \in DOMAIN orgRow /\ orgRow' = [orgRow EXCEPT ![o] = orgs'[o]]
    BY <1>2, <1>4, <1>5, <2>2
  <2> QED
    BY <2>1, <2>2 DEF UpdateOrg, UpdateOrgDb
<1> QED
  BY <1>1, <1>4, <1>6, UpdateKeepsTree

(* delete_org *)
LEMMA DropKeepsTree ==
    ASSUME NEW n, NEW f, NEW g, NEW o, TreeInv(f, g, n), NEW g1,
           g1 = g \/ g1 = Drop(g, o)
    PROVE  TreeInv(Drop(f, o), g1, n)
<1> DEFINE f1 == Drop(f, o)
<1>1. DOMAIN f1 \subseteq DOMAIN f /\ \A x \in DOMAIN f1 : f1[x] = f[x]
  BY DEF Drop
<1>2. DOMAIN g1 \subseteq DOMAIN g /\ \A x \in DOMAIN g1 : g1[x] = g[x]
  BY DEF Drop
<1>3. f1 = [x \in DOMAIN f1 |-> f1[x]] /\ g1 = [x \in DOMAIN g1 |-> g1[x]]
  BY DEF Drop, TreeInv, WellFormed
<1> HIDE DEF f1
<1>4. f1 \in [DOMAIN f1 -> Org] /\ g1 \in [DOMAIN g1 -> Org]
  BY <1>1, <1>2, <1>3 DEF TreeInv, WellFormed
<1>5. WellFormed(f1, n) /\ WellFormed(g1, n)
  BY <1>1, <1>2, <1>4 DEF TreeInv, WellFormed
<1>6. Linked(f1, f1) /\ Linked(f1, g1) /\ Linked(g1, f1) /\ Linked(g1, g1)
  BY <1>1, <1>2 DEF TreeInv, Linked
<1>7. Distinct(f1) /\ Distinct(g1) /\ Agree(f1, g1)
  BY <1>1, <1>2 DEF TreeInv, Distinct, Agree
<1> QED
  BY <1>5, <1>6, <1>7 DEF TreeInv, f1

(* delete_org keeps the tree. *)
LEMMA DeleteStep ==
    ASSUME OrgInv, NEW o \in DOMAIN orgs, NEW ok \in BOOLEAN, DeleteOrg(o, ok)
    PROVE  nextOrg' \in Nat \ {0} /\ TreeInv(orgs, orgRow, nextOrg)'
<1>1. /\ TreeInv(orgs, orgRow, nextOrg) /\ nextOrg \in Nat \ {0}
      /\ nextOrg' = nextOrg /\ orgs' = Drop(orgs, o)
      /\ orgRow' = orgRow \/ orgRow' = Drop(orgRow, o)
  BY DEF OrgInv, DeleteOrg, DeleteOrgDb
<1> QED
  BY <1>1, DropKeepsTree

(* load_from_database *)
LEMMA ReloadStep ==
    ASSUME OrgInv, Reload
    PROVE  nextOrg' \in Nat \ {0} /\ TreeInv(orgs, orgRow, nextOrg)'
<1>1. /\ TreeInv(orgs, orgRow, nextOrg) /\ nextOrg \in Nat \ {0}
      /\ orgs' = orgRow /\ orgRow' = orgRow /\ nextOrg' = NextIdOf(orgRow)
  BY DEF OrgInv, Reload
<1>2. WellFormed(orgRow, nextOrg) /\ Linked(orgRow, orgRow) /\ Distinct(orgRow)
  BY <1>1 DEF TreeInv
<1>3. nextOrg' \in Nat \ {0} /\ DOMAIN orgRow \subseteq 1..(nextOrg' - 1)
  BY <1>1, <1>2, NextIdAbove DEF WellFormed
<1>4. WellFormed(orgRow, nextOrg')
  BY <1>2, <1>3 DEF WellFormed
<1> QED
  BY <1>1, <1>2, <1>3, <1>4 DEF TreeInv, Agree

(* The invariant is inductive. *)
LEMMA OrgInductive == OrgInv /\ [OrgNext]_orgVars => OrgInv'
<1> SUFFICES ASSUME OrgInv, [OrgNext]_orgVars PROVE OrgInv'
  OBVIOUS
<1> USE OrgAssumption
<1>1. Outcomes \subseteq BOOLEAN
  BY DEF Outcomes
<1>2. CASE Seed
  <2> DEFINE R == [parent : Nat, tenant : TenantIds, type : OrgTypes]
  <2>3. seeding \in Seq(R) /\ seeding # <<>> /\ seeding' = Tail(seeding)
    BY <1>2 DEF Seed, OrgInv
  <2> HIDE DEF R
  <2>4. Head(seeding) \in R /\ seeding' \in Seq(R)
    BY <2>3
  <2>1. Head(seeding) \in [parent : Nat, tenant : TenantIds, type : OrgTypes]
    BY <2>4 DEF R
  <2>2. seeding' \in Seq([parent : Nat, tenant : TenantIds, type : OrgTypes])
    BY <2>4 DEF R
  <2>5. nextOrg' \in Nat \ {0} /\ TreeInv(orgs, orgRow, nextOrg)'
    <3>1. CASE UNCHANGED <<orgs, nextOrg, orgRow>>
      BY <3>1 DEF OrgInv
    <3>2. CASE \E ok \in Outcomes : CreateOrg(Head(seeding).parent,
                 Head(seeding).tenant, Head(seeding).type, ok)
      BY <1>1, <2>1, <3>2, CreateStep
    <3> QED
      BY <1>2, <3>1, <3>2 DEF Seed
  <2> QED
    BY <1>2, <2>2, <2>5 DEF Seed, OrgInv
<1>3. CASE Request
  <2>1. nextOrg' \in Nat \ {0} /\ TreeInv(orgs, orgRow, nextOrg)'
    <3>0. DOMAIN orgs \subseteq Nat
      BY DEF OrgInv, TreeInv, WellFormed
    <3>1. PICK ok \in Outcomes :
            \/ \E parent \in DOMAIN orgs \cup {0}, t \in TenantIds, type \in OrgTypes :
                  CreateOrg(parent, t, type, ok)
            \/ \E o \in DOMAIN orgs, active \in BOOLEAN : UpdateOrg(o, active, ok)
            \/ \E o \in DOMAIN orgs : DeleteOrg(o, ok)
      BY <1>3 DEF Request
    <3>2. ok \in BOOLEAN
      BY <1>1
    <3>3. CASE \E parent \in DOMAIN orgs \cup {0}, t \in TenantIds, type \in OrgTypes :
                  CreateOrg(parent, t, type, ok)
      BY <3>0, <3>2, <3>3, CreateStep
    <3>4. CASE \E o \in DOMAIN orgs, active \in BOOLEAN : UpdateOrg(o, active, ok)
      BY <3>2, <3>4, UpdateStep
    <3>5. CASE \E o \in DOMAIN orgs : DeleteOrg(o, ok)
      BY <3>2, <3>5, DeleteStep
    <3> QED
      BY <3>1, <3>3, <3>4, <3>5
  <2> QED
    BY <1>3, <2>1 DEF Request, OrgInv
<1>4. CASE Restart
  <2>1. nextOrg' \in Nat \ {0} /\ TreeInv(orgs, orgRow, nextOrg)'
    BY <1>4, ReloadStep DEF Restart
  <2>2. seeding' \in Seq([parent : Nat, tenant : TenantIds, type : OrgTypes])
    BY <1>4 DEF Restart, Reload
  <2>3. restarts' \in 0..MaxRestarts
    BY <1>4 DEF Restart, OrgInv
  <2> QED
    BY <2>1, <2>2, <2>3 DEF OrgInv
<1>5. CASE UNCHANGED orgVars
  BY <1>5 DEF orgVars, OrgInv
<1> QED
  BY <1>2, <1>3, <1>4, <1>5 DEF OrgNext

(* OrgManager, for every seed, set of tenants and bound, with writes that fail
   and restarts at any point: types, unique tenants, and scopes that are the
   subtrees. *)
THEOREM OrgSafe ==
    OrgSpec => [](OrgTypeOK /\ TenantsUnique /\ ScopeCoversTree /\ ScopeWithinTree)
<1>1. OrgInit => OrgInv
  BY OrgAssumption DEF OrgInit, NoOrgs, OrgInv, TreeInv, WellFormed, Linked, Distinct, Agree
<1>2. OrgInv => OrgTypeOK /\ TenantsUnique
  BY DEF OrgInv, TreeInv, WellFormed, Distinct, OrgTypeOK, TenantsUnique
<1> QED
  BY <1>1, <1>2, InvCovers, InvWithin, OrgInductive, PTL DEF OrgSpec

(* Ids, paths and rows of OrgManager stay well typed through failed writes and
   reloads; in particular every id is below the next one to be handed out. *)
THEOREM OrganisationsTyped == OrgSpec => []OrgTypeOK
  BY OrgSafe, PTL

(* The second half of what a scope is: get_accessible_orgs shows nobody an
   organisation outside the subtree, whatever was deleted above it before. *)
THEOREM ScopesContained == OrgSpec => [](TenantsUnique /\ ScopeWithinTree)
  BY OrgSafe, PTL

-----------------------------------------------------------------------------
(* Accounts *)

(* The table has no account that memory does not have; passwords may differ,
   and is_active after a write that failed. *)
Mirrored ==
    /\ DOMAIN accountRow \subseteq DOMAIN accounts
    /\ DOMAIN accounts \ DOMAIN accountRow \subseteq unsaved
    /\ \A a \in DOMAIN accountRow :
          /\ accounts[a].user = accountRow[a].user
          /\ accounts[a].org = accountRow[a].org
          /\ a \notin unsaved => accounts[a].active = accountRow[a].active

(* What tokens and answered requests refer to is there and unchanged. *)
Held ==
    /\ \A s \in sessions :
          /\ s.stored => /\ s.token.id \in DOMAIN accountRow
                         /\ accountRow[s.token.id].user = s.user
          /\ s.run = restarts => /\ s.token.id \in DOMAIN accounts
                                 /\ accounts[s.token.id].user = s.user
    /\ \A a \in disabled : a \in DOMAIN accounts /\ ~accounts[a].active

AccountTypes == OrgInv /\ AccountTypeOK

SessionInv == AccountTypes /\ Mirrored /\ Held

(* Ids in memory and in the table are numbers below next_id_. *)
IdsBelow(f, n) == DOMAIN f \subseteq 1..(n - 1) /\ f \in [DOMAIN f -> Account]

-----------------------------------------------------------------------------
(* Types *)

(* The next account id after a load is above all that are left. *)
LEMMA NextAccountAbove ==
    ASSUME NEW n \in Nat \ {0}, NEW f, DOMAIN f \subseteq 1..(n - 1)
    PROVE  NextAccountOf(f) \in Nat \ {0} /\ DOMAIN f \subseteq 1..(NextAccountOf(f) - 1)
BY NextIdAbove DEF NextIdOf, NextAccountOf

(* A new account takes the next id. *)
LEMMA PutKeepsIds ==
    ASSUME NEW n \in Nat \ {0}, NEW f, IdsBelow(f, n), NEW rec \in Account
    PROVE  IdsBelow(Put(f, n, rec), n + 1) /\ IdsBelow(f, n + 1)
<1> DEFINE g == Put(f, n, rec)
<1>1. DOMAIN g = DOMAIN f \cup {n} /\ (n + 1) - 1 = n
  BY DEF Put
<1>2. g \in [DOMAIN g -> Account]
  BY <1>1 DEF Put, IdsBelow
<1> QED
  BY <1>1, <1>2 DEF IdsBelow

(* The part of the types that account methods can disturb. *)
AccountMaps ==
    /\ nextAccount \in Nat \ {0}
    /\ IdsBelow(accounts, nextAccount)
    /\ IdsBelow(accountRow, nextAccount)

(* create_account keeps the maps well typed and loses no account. *)
LEMMA CreateAccountTypes ==
    ASSUME AccountMaps, NEW u \in Usernames, NEW org \in Nat, NEW pwd \in Passwords,
           NEW ok \in BOOLEAN, CreateAccount(u, org, pwd, ok), unsaved \subseteq Nat
    PROVE  /\ AccountMaps' /\ DOMAIN accounts \subseteq DOMAIN accounts'
           /\ unsaved' \subseteq Nat
<1> DEFINE rec == [user |-> u, org |-> org, pwd |-> pwd, active |-> TRUE]
<1>1. rec \in Account
  BY DEF Account
<1>2. /\ nextAccount' = nextAccount + 1
      /\ accounts' = Put(accounts, nextAccount, rec)
      /\ accountRow' \in {accountRow, Put(accountRow, nextAccount, rec)}
  BY DEF CreateAccount, InsertAccount
<1> HIDE DEF rec
<1>3. IdsBelow(accounts', nextAccount')
  BY <1>1, <1>2, PutKeepsIds DEF AccountMaps
<1>4. IdsBelow(accountRow', nextAccount')
  BY <1>1, <1>2, PutKeepsIds DEF AccountMaps
<1>5. DOMAIN accounts \subseteq DOMAIN accounts'
  BY <1>2 DEF Put
<1>6. unsaved' \subseteq Nat
  BY DEF CreateAccount, AccountMaps
<1> QED
  BY <1>2, <1>3, <1>4, <1>5, <1>6 DEF AccountMaps

(* So does enabling or disabling an account. *)
LEMMA ActiveTypes ==
    ASSUME AccountMaps, NEW a \in DOMAIN accounts, NEW active \in BOOLEAN,
           NEW ok \in BOOLEAN, WriteActive(a, active, ok),
           accounts' = [accounts EXCEPT ![a].active = active],
           nextAccount' = nextAccount
    PROVE  AccountMaps' /\ DOMAIN accounts' = DOMAIN accounts
<1>1. accounts' \in [DOMAIN accounts -> Account] /\ DOMAIN accounts' = DOMAIN accounts
  BY DEF AccountMaps, IdsBelow, Account
<1>2. accountRow' \in [DOMAIN accountRow -> Account] /\ DOMAIN accountRow' = DOMAIN accountRow
  BY DEF AccountMaps, IdsBelow, Account, WriteActive
<1> QED
  BY <1>1, <1>2 DEF AccountMaps, IdsBelow

(* The history keeps to the ids. *)
LEMMA SetActiveTypes ==
    ASSUME NEW a \in Nat, NEW active, NEW ok, SetActive(a, active, ok),
           disabled \subseteq Nat, unsaved \subseteq Nat
    PROVE  disabled' \subseteq Nat /\ unsaved' \subseteq Nat
BY DEF SetActive

(* So does changing a password. *)
LEMMA PasswordTypes ==
    ASSUME AccountMaps, NEW a \in DOMAIN accounts, NEW old \in Passwords,
           NEW new \in Passwords, ChangePassword(a, old, new)
    PROVE  AccountMaps' /\ DOMAIN accounts' = DOMAIN accounts
<1>1. accounts' \in [DOMAIN accounts -> Account] /\ DOMAIN accounts' = DOMAIN accounts
  BY DEF AccountMaps, IdsBelow, Account, ChangePassword
<1> QED
  BY <1>1 DEF AccountMaps, IdsBelow, ChangePassword

(* AccountTypeOK in the parts that a step of each kind touches. *)
SessionTypes ==
    /\ login \in [Handlers -> DOMAIN accounts \cup {None}]
    /\ sessions \subseteq [token : Token, user : Usernames, run : 0..restarts,
                           stored : BOOLEAN]
    /\ blacklist \subseteq {s.token : s \in sessions}

SeedTypes == seedingAcc \in Seq([user : Usernames, org : Nat, pwd : Passwords])

(* The type invariant, part by part. *)
LEMMA TypesParts ==
    AccountTypes <=> /\ OrgInv /\ AccountMaps /\ SessionTypes /\ SeedTypes
                     /\ now \in 0..MaxTime /\ disabled \subseteq Nat /\ unsaved \subseteq Nat
<1>1. OrgInv => OrgTypeOK
  BY DEF OrgInv, TreeInv, WellFormed, OrgTypeOK
<1> QED
  BY <1>1 DEF AccountTypes, AccountTypeOK, AccountMaps, IdsBelow, SessionTypes, SeedTypes

(* Every step of the composition is a step of the organisations, or none. *)
LEMMA OrgStep == [AccountNext]_allVars => [OrgNext]_orgVars
BY DEF AccountNext, SeedOrg, SeedAccount, OrgRequest, AccountRequest, AuthRequest,
       Tick, RestartAll, OrgNext, allVars, orgVars

(* Only a restart begins a new process. *)
LEMMA SameProcess ==
    ASSUME SeedOrg \/ SeedAccount \/ OrgRequest \/ AccountRequest \/ AuthRequest \/ Tick
    PROVE  restarts' = restarts
  BY DEF SeedOrg, SeedAccount, OrgRequest, AccountRequest, AuthRequest, Tick, Seed, Request,
         orgVars

(* Every request, seed, tick and restart keeps the types. *)
LEMMA TypesInductive == AccountTypes /\ [AccountNext]_allVars => AccountTypes'
<1> SUFFICES ASSUME AccountTypes, [AccountNext]_allVars PROVE AccountTypes'
  OBVIOUS
<1> USE OrgAssumption, AccountAssumption
<1>1. /\ OrgInv /\ AccountMaps /\ SessionTypes /\ SeedTypes
      /\ now \in 0..MaxTime /\ disabled \subseteq Nat /\ unsaved \subseteq Nat
  BY TypesParts
<1>2. OrgInv'
  BY <1>1, OrgStep, OrgInductive
<1>3. Outcomes \subseteq BOOLEAN /\ DOMAIN accounts \subseteq Nat /\ DOMAIN orgs \subseteq Nat
  <2>1. Outcomes \subseteq BOOLEAN
    BY DEF Outcomes
  <2>2. DOMAIN accounts \subseteq Nat
    BY <1>1 DEF AccountMaps, IdsBelow
  <2>3. DOMAIN orgs \subseteq Nat
    BY <1>1 DEF OrgInv, TreeInv, WellFormed
  <2> QED
    BY <2>1, <2>2, <2>3
<1>4. SUFFICES /\ AccountMaps' /\ SessionTypes' /\ SeedTypes'
               /\ now' \in 0..MaxTime /\ disabled' \subseteq Nat /\ unsaved' \subseteq Nat
  <2>1. OrgInv' => OrgTypeOK'
    BY DEF OrgInv, TreeInv, WellFormed, OrgTypeOK
  <2> QED
    BY <1>2, <2>1 DEF AccountTypes, AccountTypeOK, AccountMaps, IdsBelow, SessionTypes, SeedTypes
<1>5. CASE SeedOrg \/ OrgRequest
  BY <1>1, <1>5, SameProcess DEF SeedOrg, OrgRequest, accountVars, historyVars,
     AccountMaps, SessionTypes, SeedTypes
<1>6. CASE SeedAccount
  <2> DEFINE R == [user : Usernames, org : Nat, pwd : Passwords]
  <2>1. seedingAcc \in Seq(R) /\ seedingAcc # <<>> /\ seedingAcc' = Tail(seedingAcc)
    BY <1>1, <1>6 DEF SeedAccount, SeedTypes
  <2> HIDE DEF R
  <2>2. Head(seedingAcc) \in R /\ seedingAcc' \in Seq(R)
    BY <2>1
  <2>3. Head(seedingAcc) \in [user : Usernames, org : Nat, pwd : Passwords] /\ SeedTypes'
    BY <2>2 DEF R, SeedTypes
  <2>4. /\ AccountMaps' /\ DOMAIN accounts \subseteq DOMAIN accounts'
        /\ unsaved' \subseteq Nat
    <3>1. CASE UNCHANGED <<accounts, nextAccount, accountRow, unsaved>>
      BY <1>1, <3>1 DEF AccountMaps
    <3>2. CASE \E ok \in Outcomes : CreateAccount(Head(seedingAcc).user,
                 Head(seedingAcc).org, Head(seedingAcc).pwd, ok)
      BY <1>1, <1>3, <2>3, <3>2, CreateAccountTypes
    <3> QED
      BY <1>6, <3>1, <3>2 DEF SeedAccount
  <2> QED
    BY <1>1, <1>6, <2>3, <2>4, SameProcess DEF SeedAccount, SessionTypes
<1>7. CASE AccountRequest
  <2>1. /\ AccountMaps' /\ DOMAIN accounts \subseteq DOMAIN accounts'
        /\ disabled' \subseteq Nat /\ unsaved' \subseteq Nat
    <3>1. CASE \E u \in Usernames, org \in DOMAIN orgs, pwd \in Passwords, ok \in Outcomes :
                  CreateAccount(u, org, pwd, ok) /\ UNCHANGED disabled
      BY <1>1, <1>3, <3>1, CreateAccountTypes
    <3>2. CASE \E a \in DOMAIN accounts, active \in BOOLEAN, ok \in Outcomes :
                  UpdateAccount(a, active, ok)
      BY <1>1, <1>3, <3>2, ActiveTypes, SetActiveTypes DEF UpdateAccount
    <3>3. CASE \E a \in DOMAIN accounts, ok \in Outcomes : DeleteAccount(a, ok)
      BY <1>1, <1>3, <3>3, ActiveTypes, SetActiveTypes DEF DeleteAccount
    <3>4. CASE \E a \in DOMAIN accounts, old, new \in Passwords :
                  ChangePassword(a, old, new) /\ UNCHANGED <<disabled, unsaved>>
      BY <1>1, <3>4, PasswordTypes
    <3> QED
      BY <1>7, <3>1, <3>2, <3>3, <3>4 DEF AccountRequest
  <2> QED
    BY <1>1, <1>7, <2>1, SameProcess DEF AccountRequest, SessionTypes, SeedTypes
<1>8. CASE AuthRequest
  <2>1. SessionTypes'
    <3>1. CASE \E h \in Handlers, u \in Usernames, pwd \in Passwords : LoginCheck(h, u, pwd)
      BY <1>1, <1>8, <3>1, SameProcess DEF AuthRequest, LoginCheck, SessionTypes
    <3>2. CASE \E h \in Handlers : LoginIssue(h)
      <4>1. PICK h \in Handlers : LoginIssue(h)
        BY <3>2
      <4>2. login[h] \in DOMAIN accounts
        BY <1>1, <4>1 DEF LoginIssue, SessionTypes
      <4>3. accounts[login[h]].user \in Usernames
        BY <1>1, <4>2 DEF AccountMaps, IdsBelow, Account
      <4>5. restarts \in 0..restarts
        BY <1>1 DEF OrgInv
      <4>4. [id |-> login[h], exp |-> now + TokenLife] \in Token
        BY <1>1, <1>3, <4>2 DEF Token
      <4> DEFINE st == login[h] \in DOMAIN accountRow
                 new == [token |-> [id |-> login[h], exp |-> now + TokenLife],
                         user |-> accounts[login[h]].user, run |-> restarts, stored |-> st]
      <4>6. sessions' = sessions \cup {new} /\ login' = [login EXCEPT ![h] = None]
        BY <4>1 DEF LoginIssue
      <4>7. st \in BOOLEAN
        OBVIOUS
      <4> HIDE DEF st
      <4>8. new \in [token : Token, user : Usernames, run : 0..restarts, stored : BOOLEAN]
        BY <4>3, <4>4, <4>5, <4>7
      <4>9. blacklist' = blacklist /\ accounts' = accounts /\ restarts' = restarts
        BY <1>8, <4>1, SameProcess DEF AuthRequest, LoginIssue
      <4> HIDE DEF new
      <4> QED
        BY <1>1, <4>6, <4>8, <4>9 DEF SessionTypes
    <3>3. CASE \E s \in sessions : Logout(s.token)
      BY <1>1, <1>8, <3>3, SameProcess DEF AuthRequest, Logout, SessionTypes
    <3> QED
      BY <1>8, <3>1, <3>2, <3>3 DEF AuthRequest
  <2> QED
    BY <1>1, <1>8, <2>1 DEF AuthRequest, AccountMaps, SeedTypes
<1>9. CASE Tick
  BY <1>1, <1>9, SameProcess DEF Tick, accountVars, historyVars, AccountMaps, SessionTypes, SeedTypes
<1>10. CASE RestartAll
  <2>1. AccountMaps'
    BY <1>1, <1>10, NextAccountAbove DEF RestartAll, AccountMaps, IdsBelow
  <2>2. SessionTypes' /\ SeedTypes'
    <3>1. restarts \in Nat /\ restarts' = restarts + 1
      BY <1>1, <1>10 DEF OrgInv, RestartAll, Restart
    <3>2. 0..restarts \subseteq 0..restarts'
      BY <3>1
    <3> QED
      BY <1>1, <1>10, <3>2 DEF RestartAll, SessionTypes, SeedTypes
  <2> QED
    BY <1>1, <1>10, <2>1, <2>2 DEF RestartAll
<1>11. CASE UNCHANGED allVars
  BY <1>1, <1>11 DEF allVars, orgVars, accountVars, historyVars, AccountMaps, SessionTypes, SeedTypes
<1> QED
  BY <1>5, <1>6, <1>7, <1>8, <1>9, <1>10, <1>11 DEF AccountNext

(* The types hold at the start. *)
LEMMA TypesInit == AccountInit => AccountTypes
<1> SUFFICES ASSUME AccountInit PROVE AccountTypes
  OBVIOUS
<1>1. OrgInv
  BY OrgAssumption DEF AccountInit, OrgInit, NoOrgs, OrgInv, TreeInv, WellFormed,
     Linked, Distinct, Agree
<1>2. /\ AccountMaps /\ SessionTypes /\ SeedTypes
      /\ now \in 0..MaxTime /\ disabled \subseteq Nat /\ unsaved \subseteq Nat
  BY AccountAssumption DEF AccountInit, AccountMaps, IdsBelow, SessionTypes, SeedTypes
<1> QED
  BY <1>1, <1>2, TypesParts

(* AccountManager next to OrgManager, with failing writes and restarts: types,
   a login under way included, which always holds an account that exists. *)
THEOREM AccountTypesKept == AccountSpec => []AccountTypeOK
<1>1. AccountTypes => AccountTypeOK
  BY DEF AccountTypes
<1> QED
  BY <1>1, TypesInit, TypesInductive, PTL DEF AccountSpec

(* The routes of accounts and sessions use the organisations through OrgManager
   only: whatever OrgSafe says of the tree holds next to them. *)
THEOREM AccountsUseOrganisations == AccountSpec => OrgSpec
<1>1. AccountInit => OrgInit
  BY DEF AccountInit
<1> QED
  BY <1>1, OrgStep, PTL DEF AccountSpec, OrgSpec

-----------------------------------------------------------------------------
(* Sessions *)

(* create_account: a new account in memory, and in the table or not. *)
LEMMA CreateAccountHeld ==
    ASSUME AccountMaps, Mirrored, Held, UNCHANGED <<sessions, disabled, restarts>>,
           NEW u, NEW org, NEW pwd, NEW ok \in BOOLEAN, CreateAccount(u, org, pwd, ok)
    PROVE  Mirrored' /\ Held'
<1> DEFINE rec == [user |-> u, org |-> org, pwd |-> pwd, active |-> TRUE]
<1>1. nextAccount \notin DOMAIN accounts
  BY DEF AccountMaps, IdsBelow
<1>2. accounts' = Put(accounts, nextAccount, rec)
  BY DEF CreateAccount, InsertAccount
<1>3. /\ nextAccount \notin DOMAIN accountRow
      /\ \A r \in DOMAIN accountRow : accountRow[r].user # u
  BY <1>1 DEF Mirrored, CreateAccount, UserExists
<1> HIDE DEF rec
<1>4. /\ DOMAIN accounts' = DOMAIN accounts \cup {nextAccount}
      /\ accounts'[nextAccount] = rec
      /\ \A a \in DOMAIN accounts : accounts'[a] = accounts[a]
  BY <1>1, <1>2 DEF Put
<1>5. CASE ok
  <2>1. accountRow' = Put(accountRow, nextAccount, rec) /\ unsaved' = unsaved
    BY <1>3, <1>5 DEF CreateAccount, InsertAccount, rec
  <2>2. /\ DOMAIN accountRow' = DOMAIN accountRow \cup {nextAccount}
        /\ accountRow'[nextAccount] = rec
        /\ \A a \in DOMAIN accountRow : accountRow'[a] = accountRow[a]
    BY <1>3, <2>1 DEF Put
  <2> QED
    BY <1>1, <1>3, <1>4, <2>1, <2>2 DEF Mirrored, Held
<1>6. CASE ~ok
  <2>1. accountRow' = accountRow /\ unsaved' = unsaved \cup {nextAccount}
    BY <1>6 DEF CreateAccount, InsertAccount
  <2> QED
    BY <1>1, <1>3, <1>4, <2>1 DEF Mirrored, Held
<1> QED
  BY <1>5, <1>6

(* update_account and delete_account, stored or not. *)
LEMMA ActiveHeld ==
    ASSUME AccountMaps, Mirrored, Held, NEW a \in DOMAIN accounts,
           NEW active \in BOOLEAN, NEW ok \in BOOLEAN, WriteActive(a, active, ok),
           accounts' = [accounts EXCEPT ![a].active = active],
           SetActive(a, active, ok), UNCHANGED <<sessions, restarts>>
    PROVE  Mirrored' /\ Held'
<1>1. /\ DOMAIN accounts' = DOMAIN accounts
      /\ accounts'[a].active = active
      /\ \A b \in DOMAIN accounts : /\ accounts'[b].user = accounts[b].user
                                    /\ accounts'[b].org = accounts[b].org
                                    /\ b # a => accounts'[b].active = accounts[b].active
  BY DEF AccountMaps, IdsBelow, Account
<1>2. /\ DOMAIN accountRow' = DOMAIN accountRow
      /\ \A b \in DOMAIN accountRow : /\ accountRow'[b].user = accountRow[b].user
                                      /\ accountRow'[b].org = accountRow[b].org
                                      /\ b # a => accountRow'[b].active = accountRow[b].active
  BY DEF AccountMaps, IdsBelow, Account, WriteActive
<1>3. Mirrored'
  <2>1. CASE ok /\ a \in DOMAIN accountRow
    <3>1. accountRow'[a].active = active
      BY <2>1 DEF AccountMaps, IdsBelow, Account, WriteActive
    <3>2. unsaved' = unsaved \ {a}
      BY <2>1 DEF SetActive
    <3> QED
      BY <1>1, <1>2, <2>1, <3>1, <3>2 DEF Mirrored
  <2>2. CASE ~(ok /\ a \in DOMAIN accountRow)
    <3>1. unsaved' = unsaved \cup {a}
      BY <2>2 DEF SetActive
    <3> QED
      BY <1>1, <1>2, <3>1 DEF Mirrored
  <2> QED
    BY <2>1, <2>2
<1>4. \A b \in disabled' : b \in DOMAIN accounts' /\ ~accounts'[b].active
  <2>1. CASE active
    <3>1. disabled' = disabled \ {a}
      BY <2>1 DEF SetActive
    <3> QED
      BY <1>1, <3>1, Zenon DEF Held
  <2>2. CASE ~active
    <3>1. disabled' = disabled \cup {a}
      BY <2>2 DEF SetActive
    <3> QED
      BY <1>1, <2>2, <3>1, Zenon DEF Held
  <2> QED
    BY <2>1, <2>2
<1> QED
  BY <1>1, <1>2, <1>3, <1>4 DEF Held, Mirrored

(* A changed password touches neither tokens nor who is disabled. *)
LEMMA PasswordHeld ==
    ASSUME AccountMaps, Mirrored, Held, UNCHANGED <<sessions, disabled, unsaved, restarts>>,
           NEW a, NEW old, NEW new, ChangePassword(a, old, new)
    PROVE  Mirrored' /\ Held'
<1>1. /\ DOMAIN accounts' = DOMAIN accounts
      /\ \A b \in DOMAIN accounts : /\ accounts'[b].user = accounts[b].user
                                    /\ accounts'[b].org = accounts[b].org
                                    /\ accounts'[b].active = accounts[b].active
  BY DEF AccountMaps, IdsBelow, Account, ChangePassword
<1>2. accountRow' = accountRow
  BY DEF ChangePassword
<1> QED
  BY <1>1, <1>2 DEF Mirrored, Held

(* A token is of this process or an earlier one. *)
LEMMA RunsBelow ==
    ASSUME AccountTypes, SessionTypes, NEW s \in sessions
    PROVE  restarts \in Nat /\ s.run \in Nat /\ s.run <= restarts
<1>1. s.run \in 0..restarts
  BY DEF SessionTypes
<1>2. restarts \in Nat
  BY OrgAssumption DEF AccountTypes, OrgInv
<1> QED
  BY <1>1, <1>2

(* Every step keeps tokens, accounts and table in agreement. *)
LEMMA SessionInductive == SessionInv /\ [AccountNext]_allVars => SessionInv'
<1> SUFFICES ASSUME SessionInv, [AccountNext]_allVars PROVE SessionInv'
  OBVIOUS
<1>1. AccountTypes /\ Mirrored /\ Held /\ AccountMaps /\ SessionTypes
  BY TypesParts DEF SessionInv
<1>2. AccountTypes'
  BY <1>1, TypesInductive
<1>3. Outcomes \subseteq BOOLEAN
  BY DEF Outcomes
<1>4. SUFFICES Mirrored' /\ Held'
  BY <1>2 DEF SessionInv
<1>5. CASE SeedOrg \/ OrgRequest \/ Tick
  BY <1>1, <1>5, SameProcess DEF SeedOrg, OrgRequest, Tick, accountVars, historyVars,
     Mirrored, Held
<1>6. CASE SeedAccount
  <2>0. UNCHANGED <<sessions, disabled, restarts>>
    BY <1>6, SameProcess DEF SeedAccount
  <2>1. CASE UNCHANGED <<accounts, nextAccount, accountRow, unsaved>>
    BY <1>1, <2>0, <2>1 DEF Mirrored, Held
  <2>2. CASE \E ok \in Outcomes : CreateAccount(Head(seedingAcc).user,
               Head(seedingAcc).org, Head(seedingAcc).pwd, ok)
    BY <1>1, <1>3, <2>0, <2>2, CreateAccountHeld
  <2> QED
    BY <1>6, <2>1, <2>2 DEF SeedAccount
<1>7. CASE AccountRequest
  <2>0. UNCHANGED <<sessions, restarts>>
    BY <1>7, SameProcess DEF AccountRequest
  <2>1. CASE \E u \in Usernames, org \in DOMAIN orgs, pwd \in Passwords, ok \in Outcomes :
                CreateAccount(u, org, pwd, ok) /\ UNCHANGED disabled
    BY <1>1, <1>3, <2>0, <2>1, CreateAccountHeld
  <2>2. CASE \E a \in DOMAIN accounts, active \in BOOLEAN, ok \in Outcomes :
                UpdateAccount(a, active, ok)
    BY <1>1, <1>3, <2>0, <2>2, ActiveHeld DEF UpdateAccount
  <2>3. CASE \E a \in DOMAIN accounts, ok \in Outcomes : DeleteAccount(a, ok)
    BY <1>1, <1>3, <2>0, <2>3, ActiveHeld DEF DeleteAccount
  <2>4. CASE \E a \in DOMAIN accounts, old, new \in Passwords :
                ChangePassword(a, old, new) /\ UNCHANGED <<disabled, unsaved>>
    BY <1>1, <2>0, <2>4, PasswordHeld
  <2> QED
    BY <1>7, <2>1, <2>2, <2>3, <2>4 DEF AccountRequest
<1>8. CASE AuthRequest
  <2>1. Mirrored'
    BY <1>1, <1>8, SameProcess DEF AuthRequest, Mirrored
  <2>2. CASE UNCHANGED sessions
    BY <1>1, <1>8, <2>1, <2>2, SameProcess DEF AuthRequest, Held
  <2>3. CASE \E h \in Handlers : LoginIssue(h)
    <3>1. PICK h \in Handlers : LoginIssue(h)
      BY <2>3
    <3>2. login[h] \in DOMAIN accounts
      BY <1>1, <3>1 DEF LoginIssue, SessionTypes
    <3> DEFINE st == login[h] \in DOMAIN accountRow
               new == [token |-> [id |-> login[h], exp |-> now + TokenLife],
                       user |-> accounts[login[h]].user, run |-> restarts, stored |-> st]
    <3>3. sessions' = sessions \cup {new}
      BY <3>1 DEF LoginIssue
    <3>4. UNCHANGED <<accounts, accountRow, disabled, restarts>>
      BY <1>8, SameProcess DEF AuthRequest
    <3>5. /\ st => /\ login[h] \in DOMAIN accountRow
                   /\ accountRow[login[h]].user = accounts[login[h]].user
          /\ new.stored = st /\ new.run = restarts
          /\ new.token.id = login[h] /\ new.user = accounts[login[h]].user
      BY <1>1 DEF Mirrored
    <3> HIDE DEF new, st
    <3> QED
      BY <1>1, <2>1, <3>2, <3>3, <3>4, <3>5 DEF Held
  <2> QED
    BY <1>8, <2>2, <2>3 DEF AuthRequest, LoginCheck, Logout
<1>9. CASE RestartAll
  <2>1. /\ accounts' = accountRow /\ accountRow' = accountRow /\ sessions' = sessions
        /\ disabled' = disabled \ unsaved /\ unsaved' = {} /\ restarts' = restarts + 1
    BY <1>9 DEF RestartAll, Restart
  <2>2. Mirrored'
    BY <2>1 DEF Mirrored
  <2>3. ASSUME NEW s \in sessions PROVE s.run # restarts'
    BY <1>1, <2>1, <2>3, RunsBelow
  <2>4. ASSUME NEW a \in disabled' PROVE a \in DOMAIN accounts' /\ ~accounts'[a].active
    <3>1. a \in disabled /\ a \notin unsaved
      BY <2>1, <2>4
    <3>2. a \in DOMAIN accounts /\ ~accounts[a].active
      BY <1>1, <3>1 DEF Held
    <3>3. a \in DOMAIN accountRow /\ accounts[a].active = accountRow[a].active
      BY <1>1, <3>1, <3>2 DEF Mirrored
    <3> QED
      BY <2>1, <3>2, <3>3
  <2> QED
    BY <1>1, <2>1, <2>2, <2>3, <2>4 DEF Held
<1>10. CASE UNCHANGED allVars
  BY <1>1, <1>10 DEF allVars, orgVars, accountVars, historyVars, Mirrored, Held
<1> QED
  BY <1>5, <1>6, <1>7, <1>8, <1>9, <1>10 DEF AccountNext

(* verify_token, for any number of logins, disablings, logouts and restarts and
   whatever statements fail: it takes a token for another user only if the
   account was never stored and the process is another one, and never one of a
   disabled account. *)
THEOREM SessionsSafe == AccountSpec => [](TokenKeepsUser /\ DisabledStaysOut)
<1>1. AccountInit => SessionInv
  BY TypesInit DEF AccountInit, SessionInv, Mirrored, Held
<1>2. SessionInv => TokenKeepsUser
  <2> SUFFICES ASSUME SessionInv, NEW s \in sessions, VerifyToken(s.token),
                      accounts[s.token.id].user # s.user
               PROVE  ~s.stored /\ s.run < restarts
    BY DEF TokenKeepsUser
  <2>1. SessionTypes /\ AccountTypes /\ Held /\ Mirrored
    BY TypesParts DEF SessionInv
  <2>2. restarts \in Nat /\ s.run \in Nat /\ s.run <= restarts
    BY <2>1, RunsBelow
  <2>3. s.run # restarts
    BY <2>1 DEF Held
  <2>4. ~s.stored
    BY <2>1 DEF Held, Mirrored
  <2> QED
    BY <2>2, <2>3, <2>4
<1>3. SessionInv => DisabledStaysOut
  BY DEF SessionInv, Held, DisabledStaysOut, VerifyToken
<1> QED
  BY <1>1, <1>2, <1>3, SessionInductive, PTL DEF AccountSpec

(* load_from_database of AccountManager: a restart keeps every account whose
   last change was stored, its organisation and whether it is active. *)
THEOREM RestartsKeepAccounts == AccountSpec => RestartKeepsAccounts
<1> DEFINE Kept == restarts' # restarts =>
              \A a \in DOMAIN accounts \ unsaved :
                 /\ a \in DOMAIN accounts'
                 /\ accounts'[a].user = accounts[a].user
                 /\ accounts'[a].org = accounts[a].org
                 /\ accounts'[a].active = accounts[a].active
<1>1. AccountInit => SessionInv
  BY TypesInit DEF AccountInit, SessionInv, Mirrored, Held
<1>2. SessionInv /\ [AccountNext]_allVars => [Kept]_allVars
  <2> SUFFICES ASSUME SessionInv, AccountNext, restarts' # restarts,
                      NEW a \in DOMAIN accounts \ unsaved
               PROVE  /\ a \in DOMAIN accounts'
                      /\ accounts'[a].user = accounts[a].user
                      /\ accounts'[a].org = accounts[a].org
                      /\ accounts'[a].active = accounts[a].active
    OBVIOUS
  <2>1. RestartAll
    BY SameProcess DEF AccountNext
  <2>2. a \in DOMAIN accountRow
    BY DEF SessionInv, Mirrored
  <2> QED
    BY <2>1, <2>2 DEF RestartAll, SessionInv, Mirrored
<1> QED
  BY <1>1, <1>2, SessionInductive, PTL DEF AccountSpec, RestartKeepsAccounts

(* The second half by itself: disabling an account shuts out every token it had,
   a login under way at that moment included, and a restart lets none in if the
   change was stored. *)
THEOREM DisabledShutOut == AccountSpec => []DisabledStaysOut
  BY SessionsSafe, PTL

(* The tree the accounts refer to keeps its guarantees next to them. *)
THEOREM OrganisationsNextToAccounts ==
    AccountSpec => [](OrgTypeOK /\ TenantsUnique /\ ScopeCoversTree /\ ScopeWithinTree)
  BY AccountsUseOrganisations, OrgSafe, PTL

=============================================================================
