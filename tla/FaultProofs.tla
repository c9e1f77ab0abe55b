----------------------------- MODULE FaultProofs -----------------------------
(***************************************************************************)
(* The active faults next to the device registry, for any tenants, devices *)
(* and codes and any number of reports, failed inserts, migrations,        *)
(* deletions and restarts.                                                 *)
(*                                                                         *)
(* StoredFaultsListed needs only types to be inductive, but those of the   *)
(* registry too: the tenant a fault is booked with is read from a record   *)
(* of it, so ManagerInv is part of FaultInv.                               *)
(***************************************************************************)
EXTENDS FaultManager, DeviceManagerProofs, FiniteSetTheorems, SequenceTheorems,
        NaturalsInduction, WellFoundedInduction

USE DeviceAssumption, FaultAssumption

-----------------------------------------------------------------------------
(* Counting the faults with a code *)

(* Where a list has a code. *)
Places(s, c) == {i \in 1..Len(s) : s[i].code = c}

(* The number of them is a number. *)
LEMMA CountPlaces ==
    ASSUME NEW s \in Seq(Faults), NEW c
    PROVE  /\ IsFiniteSet(Places(s, c))
           /\ CountOf(s, c) = Cardinality(Places(s, c))
           /\ CountOf(s, c) \in Nat
<1>1. Len(s) \in Nat /\ DOMAIN s = 1..Len(s)
  OBVIOUS
<1>2. IsFiniteSet(1..Len(s))
  BY <1>1, FS_Interval
<1>3. IsFiniteSet(Places(s, c))
  <2>1. Places(s, c) \subseteq 1..Len(s)
    BY DEF Places
  <2>. QED
    BY <1>2, <2>1, FS_Subset
<1>4. CountOf(s, c) = Cardinality(Places(s, c))
  BY <1>1 DEF CountOf, Places
<1>. QED
  BY <1>3, <1>4, FS_CardinalityType

(* One fault more at the end. *)
LEMMA CountAppend ==
    ASSUME NEW s \in Seq(Faults), NEW f \in Faults, NEW c
    PROVE  /\ Append(s, f) \in Seq(Faults)
           /\ CountOf(Append(s, f), c) = CountOf(s, c) + (IF f.code = c THEN 1 ELSE 0)
<1>. DEFINE u == Append(s, f)
            n == Len(s)
<1>1. n \in Nat /\ u \in Seq(Faults) /\ Len(u) = n + 1
  OBVIOUS
<1>2. u[n + 1] = f /\ \A i \in 1..n : u[i] = s[i]
  OBVIOUS
<1>. HIDE DEF u
<1>3. n + 1 \notin Places(s, c)
  BY <1>1 DEF Places
<1>4. /\ f.code = c => Places(u, c) = Places(s, c) \cup {n + 1}
      /\ f.code # c => Places(u, c) = Places(s, c)
  BY <1>1, <1>2 DEF Places
<1>5. /\ CountOf(u, c) = Cardinality(Places(u, c)) /\ CountOf(s, c) = Cardinality(Places(s, c))
      /\ IsFiniteSet(Places(s, c)) /\ CountOf(s, c) \in Nat
  BY <1>1, CountPlaces
<1>6. Cardinality(Places(s, c) \cup {n + 1}) = Cardinality(Places(s, c)) + 1
  BY <1>3, <1>5, FS_AddElement
<1>7. CountOf(u, c) = CountOf(s, c) + (IF f.code = c THEN 1 ELSE 0)
  <2>1. CASE f.code = c
    BY <1>4, <1>5, <1>6, <2>1
  <2>2. CASE f.code # c
    BY <1>4, <1>5, <2>2
  <2>. QED
    BY <2>1, <2>2
<1>. QED
  BY <1>1, <1>7 DEF u

(* A list without one of its faults, position by position. *)
LEMMA WithoutOne ==
    ASSUME NEW s \in Seq(Faults), NEW i \in 1..Len(s)
    PROVE  /\ RemoveAt(s, i) \in Seq(Faults) /\ Len(RemoveAt(s, i)) = Len(s) - 1
           /\ \A k \in 1..(Len(s) - 1) :
                 RemoveAt(s, i)[k] = IF k < i THEN s[k] ELSE s[k + 1]
<1>. DEFINE a == SubSeq(s, 1, i - 1)
            b == SubSeq(s, i + 1, Len(s))
            r == a \o b
<1>1. /\ a \in Seq(Faults) /\ Len(a) = i - 1
      /\ \A k \in 1..(i - 1) : a[k] = s[k]
  OBVIOUS
<1>2. /\ b \in Seq(Faults) /\ Len(b) = Len(s) - i
      /\ \A k \in 1..(Len(s) - i) : b[k] = s[i + k]
  OBVIOUS
<1>3. RemoveAt(s, i) = r
  BY DEF RemoveAt
<1>. HIDE DEF a, b
<1>4. /\ r \in Seq(Faults) /\ Len(r) = Len(a) + Len(b)
      /\ \A k \in 1..(Len(a) + Len(b)) : r[k] = IF k <= Len(a) THEN a[k] ELSE b[k - Len(a)]
  BY <1>1, <1>2, ConcatProperties, Zenon
<1>. HIDE DEF r
<1>5. Len(s) \in Nat /\ Len(r) = Len(s) - 1
  BY <1>1, <1>2, <1>4
<1>6. ASSUME NEW k \in 1..(Len(s) - 1)
      PROVE  r[k] = IF k < i THEN s[k] ELSE s[k + 1]
  <2>1. k \in 1..(Len(a) + Len(b))
    BY <1>1, <1>2, <1>5
  <2>2. CASE k < i
    <3>1. k <= Len(a) /\ k \in 1..(i - 1)
      BY <1>1, <2>2
    <3>. QED
      BY <1>1, <1>4, <2>1, <2>2, <3>1
  <2>3. CASE ~(k < i)
    <3>1. ~(k <= Len(a)) /\ k - Len(a) \in 1..(Len(s) - i) /\ i + (k - Len(a)) = k + 1
      BY <1>1, <1>5, <2>3
    <3>2. r[k] = b[k - Len(a)]
      BY <1>4, <2>1, <3>1
    <3>. QED
      BY <1>2, <2>3, <3>1, <3>2
  <2>. QED
    BY <2>2, <2>3
<1>. QED
  BY <1>3, <1>4, <1>5, <1>6

(* One fault taken out. *)
LEMMA CountRemoveAt ==
    ASSUME NEW s \in Seq(Faults), NEW i \in 1..Len(s), NEW c
    PROVE  CountOf(s, c) = CountOf(RemoveAt(s, i), c) + (IF s[i].code = c THEN 1 ELSE 0)
<1>. DEFINE r == RemoveAt(s, i)
            n == Len(s)
            P == Places(s, c)
            R == Places(r, c)
            f == [k \in R |-> IF k < i THEN k ELSE k + 1]
<1>1. /\ r \in Seq(Faults) /\ Len(r) = n - 1 /\ n \in Nat
      /\ \A k \in 1..(n - 1) : r[k] = IF k < i THEN s[k] ELSE s[k + 1]
  <2>1. n \in Nat
    OBVIOUS
  <2>2. /\ r \in Seq(Faults) /\ Len(r) = n - 1
        /\ \A k \in 1..(n - 1) : r[k] = IF k < i THEN s[k] ELSE s[k + 1]
    BY WithoutOne, Zenon
  <2>. QED
    BY <2>1, <2>2
<1>. HIDE DEF r
<1>2. R = {k \in 1..(n - 1) : r[k].code = c} /\ P = {k \in 1..n : s[k].code = c}
  BY <1>1 DEF Places
<1>. HIDE DEF R, P
<1>3. ExistsBijection(R, P \ {i})
  <2>1. f \in [R -> P \ {i}]
    <3>. SUFFICES ASSUME NEW k \in R PROVE (IF k < i THEN k ELSE k + 1) \in P \ {i}
      OBVIOUS
    <3>1. CASE k < i
      BY <1>1, <1>2, <3>1
    <3>2. CASE ~(k < i)
      BY <1>1, <1>2, <3>2
    <3>. QED
      BY <3>1, <3>2
  <2>2. \A k, l \in R : f[k] = f[l] => k = l
    BY <1>1, <1>2
  <2>3. ASSUME NEW k \in P \ {i} PROVE \E l \in R : f[l] = k
    <3>1. CASE k < i
      <4>1. k \in R
        BY <1>1, <1>2, <3>1
      <4>. QED
        BY <3>1, <4>1
    <3>2. CASE k > i
      <4>1. k - 1 \in 1..(n - 1) /\ ~(k - 1 < i) /\ (k - 1) + 1 = k
        BY <1>1, <1>2, <3>2
      <4>2. k - 1 \in R
        BY <1>1, <1>2, <4>1
      <4>. QED
        BY <4>1, <4>2
    <3>3. k \in 1..n /\ k # i /\ i \in 1..n
      BY <1>2, <2>3
    <3>4. k < i \/ k > i
      BY <1>1, <3>3
    <3>. QED
      BY <3>1, <3>2, <3>4
  <2>. QED
    BY <2>1, <2>2, <2>3 DEF ExistsBijection, Bijection, Injection, Surjection, IsInjective
<1>4. /\ IsFiniteSet(P) /\ IsFiniteSet(R) /\ CountOf(s, c) = Cardinality(P)
      /\ CountOf(r, c) = Cardinality(R) /\ Cardinality(P) \in Nat
  BY <1>1, CountPlaces DEF P, R
<1>5. Cardinality(P \ {i}) = Cardinality(R)
  BY <1>3, <1>4, FS_Bijection
<1>6. Cardinality(P \ {i}) = IF i \in P THEN Cardinality(P) - 1 ELSE Cardinality(P)
  BY <1>4, FS_RemoveElement
<1>7. i \in P <=> s[i].code = c
  BY <1>2
<1>. QED
  BY <1>4, <1>5, <1>6, <1>7 DEF r

(* The table read the other way round. *)
LEMMA CountReverse ==
    ASSUME NEW s \in Seq(Faults), NEW c
    PROVE  /\ Reverse(s) \in Seq(Faults) /\ Len(Reverse(s)) = Len(s)
           /\ CountOf(Reverse(s), c) = CountOf(s, c)
<1>. DEFINE r == Reverse(s)
            n == Len(s)
            P == Places(s, c)
            R == Places(r, c)
            f == [k \in P |-> (n - k) + 1]
<1>1. n \in Nat /\ r = [k \in 1..n |-> s[(n - k) + 1]]
  BY DEF Reverse
<1>2. \A k \in 1..n : (n - k) + 1 \in 1..n /\ (n - ((n - k) + 1)) + 1 = k
  BY <1>1
<1>3. \A k \in 1..n : s[(n - k) + 1] \in Faults
  BY <1>2
<1>. HIDE DEF r, n
<1>4. r \in Seq(Faults) /\ Len(r) = n /\ n = Len(s)
  BY <1>1, <1>3 DEF n
<1>5. P = {k \in 1..n : s[k].code = c} /\ R = {k \in 1..n : s[(n - k) + 1].code = c}
  BY <1>1, <1>4 DEF Places
<1>. HIDE DEF P, R
<1>6. ExistsBijection(P, R)
  <2>1. f \in [P -> R]
    BY <1>2, <1>5
  <2>2. \A k, l \in P : f[k] = f[l] => k = l
    BY <1>1, <1>5
  <2>3. ASSUME NEW k \in R PROVE \E l \in P : f[l] = k
    <3>1. (n - k) + 1 \in P /\ (n - ((n - k) + 1)) + 1 = k
      BY <1>2, <1>5
    <3>. QED
      BY <3>1
  <2>. QED
    BY <2>1, <2>2, <2>3 DEF ExistsBijection, Bijection, Injection, Surjection, IsInjective
<1>7. IsFiniteSet(P) /\ CountOf(s, c) = Cardinality(P) /\ CountOf(r, c) = Cardinality(R)
  BY <1>4, CountPlaces DEF P, R
<1>8. Cardinality(R) = Cardinality(P)
  BY <1>6, <1>7, FS_Bijection
<1>. QED
  BY <1>4, <1>7, <1>8 DEF r

(* Faults shown under another device. *)
LEMMA CountReassigned ==
    ASSUME NEW s \in Seq(Faults), NEW valid, NEW target \in Devices, NEW c
    PROVE  /\ ReassignUnknown(s, valid, target) \in Seq(Faults)
           /\ Len(ReassignUnknown(s, valid, target)) = Len(s)
           /\ \A i \in 1..Len(s) :
                 ReassignUnknown(s, valid, target)[i].dev
                    = IF s[i].dev \in valid THEN s[i].dev ELSE target
           /\ CountOf(ReassignUnknown(s, valid, target), c) = CountOf(s, c)
<1>. DEFINE u == ReassignUnknown(s, valid, target)
            E(i) == IF s[i].dev \in valid THEN s[i] ELSE [s[i] EXCEPT !.dev = target]
            n == Len(s)
<1>1. n \in Nat /\ u = [i \in 1..n |-> E(i)]
  BY DEF ReassignUnknown
<1>2. ASSUME NEW i \in 1..n
      PROVE  /\ E(i) \in Faults /\ E(i).code = s[i].code
             /\ E(i).dev = IF s[i].dev \in valid THEN s[i].dev ELSE target
  <2>1. s[i] \in [tenant : Tenants, dev : Devices, code : Codes]
    <3>1. s[i] \in Faults
      BY <1>1
    <3>. QED
      BY <3>1 DEF Faults
  <2>2. /\ [s[i] EXCEPT !.dev = target] \in [tenant : Tenants, dev : Devices, code : Codes]
        /\ [s[i] EXCEPT !.dev = target].code = s[i].code
        /\ [s[i] EXCEPT !.dev = target].dev = target
    BY <2>1
  <2>. QED
    BY <2>1, <2>2 DEF Faults
<1>. HIDE DEF u, E
<1>3. u \in Seq(Faults) /\ Len(u) = n /\ \A i \in 1..n : u[i] = E(i)
  BY <1>1, <1>2
<1>4. Places(u, c) = Places(s, c)
  BY <1>2, <1>3 DEF Places
<1>5. CountOf(u, c) = CountOf(s, c)
  BY <1>3, <1>4, CountPlaces
<1>. QED
  BY <1>2, <1>3, <1>5 DEF u

-----------------------------------------------------------------------------
(* The manager *)

Events == [kind : {"alert", "resolved"}, fault : Faults]

FaultTypes ==
    /\ active \in Seq(Faults) /\ faultRow \in Seq(Faults)
    /\ event \in Events \cup {None}
    /\ resolved \in [Codes -> Nat]

FaultInv == ManagerInv /\ FaultTypes /\ StoredFaultsListed

(* A non-empty set of naturals has a smallest element. *)
LEMMA SmallestPlace ==
    ASSUME NEW T \in SUBSET Nat, T # {}
    PROVE  Min(T) \in T
<1>1. PICK x \in T : \A y \in T : ~(<<y, x>> \in OpToRel(<, Nat))
  BY NatLessThanWellFounded, WFMin, Zenon
<1>2. \A y \in T : ~(y < x)
  BY <1>1 DEF OpToRel
<1>3. \A y \in T : x <= y
  BY <1>2
<1>. QED
  BY <1>3 DEF Min

(* The tenant a fault is booked with is one. *)
LEMMA BookedTenant ==
    ASSUME ManagerInv, NEW d \in Devices
    PROVE  TenantsFor(d) \subseteq Tenants
<1>1. \A t \in Holders(d) : tenants[t][d] \in DeviceRecords
  BY DEF ManagerInv, ManagerTypeOK, Holders
<1>2. \A t \in Holders(d) : tenants[t][d].tenant \in Tenants
  BY <1>1 DEF DeviceRecords
<1>. QED
  BY <1>2 DEF TenantsFor

(* resolve_fault takes at most one fault with the code out, and counts it. *)
LEMMA ResolveStep ==
    ASSUME FaultTypes, StoredFaultsListed, NEW t, NEW d, NEW k \in Codes,
           ResolveFault(t, d, k), UNCHANGED faultRow
    PROVE  /\ active' \in Seq(Faults) /\ resolved' \in [Codes -> Nat]
           /\ StoredFaultsListed'
<1>. DEFINE I == {j \in 1..Len(active) :
                    active[j].tenant = t /\ active[j].dev = d /\ active[j].code = k}
            i == IF I # {} THEN Min(I) ELSE 0
<1>0. active \in Seq(Faults) /\ resolved \in [Codes -> Nat] /\ faultRow \in Seq(Faults)
  BY DEF FaultTypes
<1>1. IF i = 0 THEN UNCHANGED <<active, resolved>>
      ELSE active' = RemoveAt(active, i) /\ resolved' = [resolved EXCEPT ![k] = @ + 1]
  BY DEF ResolveFault, SelectInSeq
<1>2. I \in SUBSET Nat
  BY <1>0
<1>3. i # 0 => i \in I
  BY <1>2, SmallestPlace
<1>4. i # 0 => i \in 1..Len(active) /\ active[i].code = k
  BY <1>3
<1>. HIDE DEF i
<1>5. CASE i = 0
  BY <1>0, <1>1, <1>5 DEF StoredFaultsListed
<1>6. CASE i # 0
  <2>1. /\ i \in 1..Len(active) /\ active[i].code = k /\ active' = RemoveAt(active, i)
        /\ resolved' = [resolved EXCEPT ![k] = @ + 1]
    BY <1>1, <1>4, <1>6
  <2>2. active' \in Seq(Faults)
    BY <1>0, <2>1, WithoutOne
  <2>3. /\ resolved' \in [Codes -> Nat]
        /\ \A c \in Codes : resolved'[c] = resolved[c] + (IF k = c THEN 1 ELSE 0)
    BY <1>0, <2>1
  <2>4. ASSUME NEW c \in Codes
        PROVE  CountOf(active', c) + resolved'[c] >= CountOf(faultRow', c)
    <3>1. CountOf(active, c) = CountOf(active', c) + (IF active[i].code = c THEN 1 ELSE 0)
      BY <1>0, <2>1, CountRemoveAt
    <3>2. CountOf(active', c) \in Nat /\ CountOf(faultRow, c) \in Nat /\ resolved[c] \in Nat
      BY <1>0, <2>2, CountPlaces
    <3>3. CountOf(active, c) + resolved[c] >= CountOf(faultRow, c) /\ faultRow' = faultRow
      BY DEF StoredFaultsListed
    <3>. QED
      BY <2>1, <2>3, <3>1, <3>2, <3>3
  <2>. QED
    BY <2>2, <2>3, <2>4 DEF StoredFaultsListed
<1>. QED
  BY <1>5, <1>6

(* add_fault lists what it stores. *)
LEMMA AddStep ==
    ASSUME FaultTypes, StoredFaultsListed, AddFault
    PROVE  FaultTypes' /\ StoredFaultsListed'
<1>0. active \in Seq(Faults) /\ resolved \in [Codes -> Nat] /\ faultRow \in Seq(Faults)
  BY DEF FaultTypes
<1>. DEFINE f == event.fault
<1>1. /\ f \in Faults /\ active' = Append(active, f) /\ event' = None /\ UNCHANGED resolved
      /\ faultRow' = faultRow \/ faultRow' = Append(faultRow, f)
  BY DEF FaultTypes, Events, AddFault, InsertFault
<1>. HIDE DEF f
<1>2. active' \in Seq(Faults) /\ faultRow' \in Seq(Faults)
  BY <1>0, <1>1, CountAppend
<1>3. FaultTypes'
  BY <1>0, <1>1, <1>2 DEF FaultTypes
<1>4. ASSUME NEW c \in Codes
      PROVE  CountOf(active', c) + resolved'[c] >= CountOf(faultRow', c)
  <2>. DEFINE one == IF f.code = c THEN 1 ELSE 0
  <2>1. CountOf(active', c) = CountOf(active, c) + one
    BY <1>0, <1>1, CountAppend
  <2>2. CountOf(faultRow', c) = CountOf(faultRow, c) \/ CountOf(faultRow', c) = CountOf(faultRow, c) + one
    <3>1. CASE faultRow' = faultRow
      BY <3>1
    <3>2. CASE faultRow' = Append(faultRow, f)
      BY <1>0, <1>1, <3>2, CountAppend
    <3>. QED
      BY <1>1, <3>1, <3>2
  <2>3. CountOf(active, c) \in Nat /\ CountOf(faultRow, c) \in Nat /\ resolved[c] \in Nat
        /\ one \in Nat
    BY <1>0, CountPlaces
  <2>4. CountOf(active, c) + resolved[c] >= CountOf(faultRow, c) /\ resolved' = resolved
    BY <1>1 DEF StoredFaultsListed
  <2>. HIDE DEF one
  <2>. QED
    BY <2>1, <2>2, <2>3, <2>4
<1>. QED
  BY <1>3, <1>4 DEF StoredFaultsListed

(* The start lists every row once. *)
LEMMA StartStep ==
    ASSUME FaultTypes, NEW rows, Start(rows)
    PROVE  FaultTypes' /\ StoredFaultsListed'
<1>0. faultRow \in Seq(Faults)
  BY DEF FaultTypes
<1>1. event' = None /\ UNCHANGED faultRow /\ resolved' = [c \in Codes |-> 0]
  BY DEF Start
<1>2. LoadedFaults \in Seq(Faults) /\ \A c : CountOf(LoadedFaults, c) = CountOf(faultRow, c)
  BY <1>0, CountReverse DEF LoadedFaults
<1>3. active' \in Seq(Faults) /\ \A c : CountOf(active', c) = CountOf(faultRow, c)
  <2>1. CASE active' = LoadedFaults
    BY <1>2, <2>1
  <2>2. ASSUME NEW valid, NEW target \in Devices,
               active' = ReassignUnknown(LoadedFaults, valid, target)
        PROVE  active' \in Seq(Faults) /\ \A c : CountOf(active', c) = CountOf(faultRow, c)
    BY <1>2, <2>2, CountReassigned
  <2>. QED
    BY <2>1, <2>2 DEF Start
<1>4. FaultTypes'
  BY <1>0, <1>1, <1>3 DEF FaultTypes
<1>5. \A c \in Codes : CountOf(faultRow, c) \in Nat
  BY <1>0, CountPlaces
<1>. QED
  BY <1>1, <1>3, <1>4, <1>5 DEF StoredFaultsListed

(* The registry changes by its own operations only. *)
LEMMA FaultStepIsManagerStep == [FaultNext]_allVars => [ManagerNext]_managerVars
<1>. SUFFICES ASSUME [FaultNext]_allVars PROVE [ManagerNext]_managerVars
  OBVIOUS
<1>1. CASE \E t \in Tenants, d \in Devices : Registry(t, d)
  BY <1>1 DEF Registry, ManagerNext
<1>2. CASE \E rows \in StoredDevices : Start(rows)
  <2>1. StoredDevices \subseteq [Devices -> DeviceRecords \cup {None}]
    BY DEF StoredDevices, DeviceRecords, NetworkStatus, Ages
  <2>. QED
    BY <1>2, <2>1 DEF Start, ManagerNext
<1>3. CASE UNCHANGED managerVars
  BY <1>3
<1>. QED
  BY <1>1, <1>2, <1>3 DEF FaultNext, ReceiveEvent, AddFault, HandleResolved, ResolveRoute, allVars

(* Every event, request and start keeps the invariant. *)
LEMMA FaultStep == FaultInv /\ [FaultNext]_allVars => FaultInv'
<1>. SUFFICES ASSUME FaultInv, [FaultNext]_allVars PROVE FaultInv'
  OBVIOUS
<1>0. ManagerInv /\ FaultTypes /\ StoredFaultsListed
  BY DEF FaultInv
<1>1. ManagerInv'
  BY <1>0, FaultStepIsManagerStep, ManagerStep
<1>. SUFFICES FaultTypes' /\ StoredFaultsListed'
  BY <1>1 DEF FaultInv
<1>2. ASSUME NEW kind \in {"alert", "resolved"}, NEW d \in Devices, NEW c \in Codes,
             ReceiveEvent(kind, d, c)
      PROVE  FaultTypes' /\ StoredFaultsListed'
  <2>1. PICK t \in TenantsFor(d) :
           event' = [kind |-> kind, fault |-> [tenant |-> t, dev |-> d, code |-> c]]
    BY <1>2 DEF ReceiveEvent
  <2>2. event' \in Events
    BY <1>0, <2>1, BookedTenant DEF Events, Faults
  <2>3. UNCHANGED <<active, faultRow, resolved>>
    BY <1>2 DEF ReceiveEvent
  <2>. QED
    BY <1>0, <2>2, <2>3 DEF FaultTypes, StoredFaultsListed
<1>3. CASE AddFault
  BY <1>0, <1>3, AddStep
<1>4. CASE HandleResolved
  <2>. DEFINE f == event.fault
  <2>1. f \in Faults
    BY <1>0, <1>4 DEF HandleResolved, FaultTypes, Events
  <2>2. f.code \in Codes
    BY <2>1 DEF Faults
  <2>3. ResolveFault(f.tenant, f.dev, f.code) /\ event' = None /\ UNCHANGED faultRow
    BY <1>4 DEF HandleResolved
  <2>. HIDE DEF f
  <2>. QED
    BY <1>0, <2>2, <2>3, ResolveStep DEF FaultTypes
<1>5. ASSUME NEW t \in Tenants, NEW d \in Devices, NEW c \in Codes, ResolveRoute(t, d, c)
      PROVE  FaultTypes' /\ StoredFaultsListed'
  <2>1. ResolveFault(t, d, c) /\ UNCHANGED <<faultRow, event>>
    BY <1>5 DEF ResolveRoute
  <2>. QED
    BY <1>0, <2>1, ResolveStep DEF FaultTypes
<1>6. ASSUME NEW rows \in StoredDevices, Start(rows) PROVE FaultTypes' /\ StoredFaultsListed'
  BY <1>0, <1>6, StartStep
<1>7. CASE UNCHANGED faultVars
  BY <1>0, <1>7 DEF faultVars, FaultTypes, StoredFaultsListed
<1>. QED
  BY <1>2, <1>3, <1>4, <1>5, <1>6, <1>7 DEF FaultNext, Registry, allVars

(* It holds of an empty registry without faults. *)
LEMMA FaultStart == FaultInit => FaultInv
<1>. SUFFICES ASSUME FaultInit PROVE FaultInv
  OBVIOUS
<1>1. ManagerInv
  BY ManagerStart DEF FaultInit
<1>2. FaultTypes
  BY DEF FaultInit, FaultTypes
<1>3. \A c \in Codes : CountOf(<<>>, c) \in Nat
  <2>1. <<>> \in Seq(Faults)
    OBVIOUS
  <2>. QED
    BY <2>1, CountPlaces
<1>4. StoredFaultsListed
  BY <1>3 DEF FaultInit, StoredFaultsListed
<1>. QED
  BY <1>1, <1>2, <1>4 DEF FaultInv

(* FaultManager: of every code at least as many faults are listed as have a row
   and were not resolved in this process, for any devices, tenants and codes, with failing inserts,
   repeated reports, migrations, deletions and any number of starts. *)
THEOREM FaultsKept == FaultSpec => []StoredFaultsListed
<1>1. FaultInv => StoredFaultsListed
  BY DEF FaultInv
<1>. QED
  BY <1>1, FaultStart, FaultStep, PTL DEF FaultSpec

(* The start of a process (main, reassign_unknown_devices) leaves no fault under
   a device that is gone, if there is any device, whatever the tables hold. *)
THEOREM FaultsAdopted == FaultSpec => StartAdoptsFaults
<1>1. FaultInv /\ [FaultNext]_allVars =>
         [restarts' # restarts /\ (\E d \in Devices : Present(d)') =>
             \A i \in DOMAIN active' :
                \E t \in Tenants : tenants'[t][active'[i].dev] # None]_allVars
  <2>. SUFFICES ASSUME FaultInv, FaultNext, restarts' # restarts,
                       \E d \in Devices : Present(d)',
                       NEW i \in DOMAIN active'
                PROVE  \E t \in Tenants : tenants'[t][active'[i].dev] # None
    BY DEF allVars, faultVars
  <2>. DEFINE valid == {d \in Devices : Present(d)'}
  <2>1. PICK rows \in StoredDevices : Start(rows)
    BY DEF FaultNext, ReceiveEvent, AddFault, HandleResolved, ResolveRoute, Registry, faultVars
  <2>2. PICK target \in valid : active' = ReassignUnknown(LoadedFaults, valid, target)
    BY <2>1 DEF Start
  <2>3. LoadedFaults \in Seq(Faults)
    BY CountReverse DEF LoadedFaults, FaultInv, FaultTypes
  <2>4. target \in Devices
    OBVIOUS
  <2>. HIDE DEF valid
  <2>5. /\ active' \in Seq(Faults) /\ Len(active') = Len(LoadedFaults)
        /\ \A j \in 1..Len(LoadedFaults) :
              active'[j].dev = IF LoadedFaults[j].dev \in valid THEN LoadedFaults[j].dev ELSE target
    BY <2>2, <2>3, <2>4, CountReassigned
  <2>6. active'[i].dev \in valid
    BY <2>2, <2>5
  <2>. QED
    BY <2>6 DEF valid, Present, Holders
<1>. QED
  BY <1>1, FaultStart, FaultStep, PTL DEF FaultSpec, StartAdoptsFaults

=============================================================================
