----------------------------- MODULE OrderProofs -----------------------------
(***************************************************************************)
(* The order queue with any number of callers, for any ids, seed, depth    *)
(* and number of restarts.                                                 *)
(*                                                                         *)
(* What makes the theorems inductive: for the depth, a thread past the     *)
(* test counts like an order in the queue (DepthKept); for the orders,     *)
(* every accepted one is in the queue, the slot, the history or among the  *)
(* replaced ones (Balanced), and what has a row was accepted.              *)
(***************************************************************************)
EXTENDS OrderManager, FiniteSetTheorems, SequenceTheorems, NaturalsInduction,
        WellFoundedInduction, TLAPS

-----------------------------------------------------------------------------
(* Counting the orders with an id *)

(* Where a list has an id. *)
Places(s, id) == {i \in 1..Len(s) : s[i].id = id}

(* The number of them is a number. *)
LEMMA CopiesCount ==
    ASSUME NEW S, NEW s \in Seq(S), NEW id
    PROVE  /\ IsFiniteSet(Places(s, id))
           /\ Copies(s, id) = Cardinality(Places(s, id))
           /\ Copies(s, id) \in Nat
<1>1. Len(s) \in Nat /\ DOMAIN s = 1..Len(s)
  OBVIOUS
<1>2. IsFiniteSet(1..Len(s))
  BY <1>1, FS_Interval
<1>3. IsFiniteSet(Places(s, id))
  <2>1. Places(s, id) \subseteq 1..Len(s)
    BY DEF Places
  <2>. QED
    BY <1>2, <2>1, FS_Subset
<1>4. Copies(s, id) = Cardinality(Places(s, id))
  BY <1>1 DEF Copies, Places
<1>. QED
  BY <1>3, <1>4, FS_CardinalityType

(* Two lists one after the other. *)
LEMMA CopiesConcat ==
    ASSUME NEW S, NEW s \in Seq(S), NEW t \in Seq(S), NEW id
    PROVE  Copies(s \o t, id) = Copies(s, id) + Copies(t, id)
<1>. DEFINE c == s \o t
            m == Len(s)
            n == Len(t)
            A == Places(s, id)
            B == Places(t, id)
            M == {i \in (m + 1)..(m + n) : c[i].id = id}
<1>1. m \in Nat /\ n \in Nat
  OBVIOUS
<1>2. /\ c \in Seq(S) /\ Len(c) = m + n
      /\ \A i \in 1..(m + n) : c[i] = IF i <= m THEN s[i] ELSE t[i - m]
  BY ConcatProperties, Zenon
<1>. HIDE DEF c, m, n
<1>3. A = {i \in 1..m : s[i].id = id} /\ B = {i \in 1..n : t[i].id = id}
  BY DEF Places, m, n
<1>4. Places(c, id) = A \cup M /\ A \cap M = {}
  BY <1>1, <1>2, <1>3 DEF Places
<1>5. ExistsBijection(B, M)
  <2>. DEFINE f == [i \in B |-> m + i]
  <2>1. f \in [B -> M]
    BY <1>1, <1>2, <1>3
  <2>2. \A i, j \in B : f[i] = f[j] => i = j
    BY <1>1, <1>3
  <2>3. \A k \in M : \E i \in B : f[i] = k
    <3>. SUFFICES ASSUME NEW k \in M PROVE \E i \in B : f[i] = k
      OBVIOUS
    <3>1. k - m \in 1..n /\ m + (k - m) = k /\ ~(k <= m) /\ k \in 1..(m + n)
      BY <1>1
    <3>2. c[k] = t[k - m]
      BY <1>2, <3>1
    <3>3. k - m \in B
      BY <1>3, <3>1, <3>2
    <3>. QED
      BY <3>1, <3>3
  <2>. QED
    BY <2>1, <2>2, <2>3 DEF ExistsBijection, Bijection, Injection, Surjection, IsInjective
<1>6. IsFiniteSet(A) /\ IsFiniteSet(B) /\ Copies(s, id) = Cardinality(A)
      /\ Copies(t, id) = Cardinality(B) /\ Copies(c, id) = Cardinality(Places(c, id))
  BY <1>2, CopiesCount
<1>. HIDE DEF A, B, M
<1>7. IsFiniteSet(M) /\ Cardinality(M) = Cardinality(B)
  BY <1>5, <1>6, FS_Bijection
<1>8. Cardinality(A \cup M) = Cardinality(A) + Cardinality(M) - Cardinality({})
  BY <1>4, <1>6, <1>7, FS_Union
<1>9. Cardinality({}) = 0 /\ Cardinality(A) \in Nat /\ Cardinality(M) \in Nat
  BY <1>6, <1>7, FS_EmptySet, FS_CardinalityType
<1>. QED
  BY <1>4, <1>6, <1>7, <1>8, <1>9 DEF c

(* One order and none. *)
LEMMA CopiesShort ==
    ASSUME NEW o, NEW id
    PROVE  /\ Copies(<<>>, id) = 0
           /\ Copies(<<o>>, id) = IF o.id = id THEN 1 ELSE 0
<1>1. Copies(<<>>, id) = 0
  <2>1. {i \in DOMAIN <<>> : <<>>[i].id = id} = {}
    OBVIOUS
  <2>. QED
    BY <2>1, FS_EmptySet DEF Copies
<1>2. DOMAIN <<o>> = {1} /\ <<o>>[1] = o
  OBVIOUS
<1>3. CASE o.id = id
  <2>1. {i \in DOMAIN <<o>> : <<o>>[i].id = id} = {1}
    BY <1>2, <1>3
  <2>. QED
    BY <1>1, <1>3, <2>1, FS_Singleton DEF Copies
<1>4. CASE o.id # id
  <2>1. {i \in DOMAIN <<o>> : <<o>>[i].id = id} = {}
    BY <1>2, <1>4
  <2>. QED
    BY <1>1, <1>4, <2>1, FS_EmptySet DEF Copies
<1>. QED
  BY <1>3, <1>4

(* One order more at the end. *)
LEMMA CopiesAppend ==
    ASSUME NEW S, NEW s \in Seq(S), NEW o \in S, NEW id
    PROVE  Copies(Append(s, o), id) = Copies(s, id) + (IF o.id = id THEN 1 ELSE 0)
<1>1. Append(s, o) = s \o <<o>> /\ <<o>> \in Seq(S)
  BY AppendIsConcat
<1>2. Copies(s \o <<o>>, id) = Copies(s, id) + Copies(<<o>>, id)
  BY <1>1, CopiesConcat, Zenon
<1>3. Copies(<<o>>, id) = IF o.id = id THEN 1 ELSE 0
  BY CopiesShort, Zenon
<1>. QED
  BY <1>1, <1>2, <1>3, Zenon

(* One order taken out. *)
LEMMA CopiesRemoveAt ==
    ASSUME NEW S, NEW s \in Seq(S), NEW i \in 1..Len(s), NEW id
    PROVE  /\ RemoveAt(s, i) \in Seq(S) /\ Len(RemoveAt(s, i)) = Len(s) - 1
           /\ Copies(s, id) = Copies(RemoveAt(s, i), id) + (IF s[i].id = id THEN 1 ELSE 0)
<1>. DEFINE a == SubSeq(s, 1, i - 1)
            b == SubSeq(s, i + 1, Len(s))
            e == <<s[i]>>
<1>1. /\ a \in Seq(S) /\ Len(a) = i - 1
      /\ \A k \in 1..(i - 1) : a[k] = s[k]
  OBVIOUS
<1>2. /\ b \in Seq(S) /\ Len(b) = Len(s) - i
      /\ \A k \in 1..(Len(s) - i) : b[k] = s[i + k]
  OBVIOUS
<1>3. RemoveAt(s, i) = a \o b
  BY DEF RemoveAt
<1>4. e \in Seq(S) /\ Len(e) = 1 /\ e[1] = s[i]
  OBVIOUS
<1>. HIDE DEF a, b, e
<1>5. a \o b \in Seq(S) /\ Len(a \o b) = Len(a) + Len(b)
  BY <1>1, <1>2, ConcatProperties, Zenon
<1>. DEFINE h == a \o e
            c == h \o b
<1>6. /\ h \in Seq(S) /\ Len(h) = Len(a) + Len(e)
      /\ \A k \in 1..(Len(a) + Len(e)) : h[k] = IF k <= Len(a) THEN a[k] ELSE e[k - Len(a)]
  BY <1>1, <1>4, ConcatProperties, Zenon
<1>. HIDE DEF h
<1>7. /\ c \in Seq(S) /\ Len(c) = Len(h) + Len(b)
      /\ \A k \in 1..(Len(h) + Len(b)) : c[k] = IF k <= Len(h) THEN h[k] ELSE b[k - Len(h)]
  <2>1. h \in Seq(S) /\ b \in Seq(S)
    BY <1>2, <1>6, Zenon
  <2>. QED
    BY <2>1, ConcatProperties, Zenon
<1>. HIDE DEF c
<1>8. Len(h) = i /\ \A k \in 1..i : h[k] = s[k]
  BY <1>1, <1>4, <1>6
<1>9. Len(c) = Len(s) /\ \A k \in 1..Len(s) : c[k] = s[k]
  <2>1. Len(c) = Len(s)
    BY <1>2, <1>7, <1>8
  <2>2. ASSUME NEW k \in 1..Len(s) PROVE c[k] = s[k]
    <3>1. CASE k <= i
      BY <1>2, <1>7, <1>8, <3>1
    <3>2. CASE k > i
      <4>1. c[k] = b[k - i] /\ k - i \in 1..(Len(s) - i) /\ i + (k - i) = k
        BY <1>2, <1>7, <1>8, <3>2
      <4>. QED
        BY <1>2, <4>1
    <3>. QED
      BY <3>1, <3>2
  <2>. QED
    BY <2>1, <2>2
<1>10. c = s
  BY <1>7, <1>9
<1>11. Copies(s, id) = Copies(h, id) + Copies(b, id)
  BY <1>2, <1>6, <1>10, CopiesConcat, Zenon DEF c
<1>12. Copies(h, id) = Copies(a, id) + Copies(e, id)
  BY <1>1, <1>4, CopiesConcat, Zenon DEF h
<1>13. Copies(a \o b, id) = Copies(a, id) + Copies(b, id)
  <2>1. a \in Seq(S) /\ b \in Seq(S)
    BY <1>1, <1>2, Zenon
  <2>. QED
    BY <2>1, CopiesConcat, Zenon
<1>14. Copies(e, id) = IF s[i].id = id THEN 1 ELSE 0
  BY CopiesShort DEF e
<1>15. Copies(a, id) \in Nat /\ Copies(b, id) \in Nat
  BY <1>1, <1>2, CopiesCount
<1>16. Copies(s, id) = Copies(a \o b, id) + (IF s[i].id = id THEN 1 ELSE 0)
  BY <1>11, <1>12, <1>13, <1>14, <1>15
<1>. QED
  BY <1>1, <1>2, <1>3, <1>5, <1>16

Statuses == {"PENDING", "PAID", "BREWING", "COMPLETED", "FAILED", "CANCELLED"}

(* An order with a new status is an order with the same id. *)
LEMMA Restatused ==
    ASSUME NEW o \in Orders, NEW st \in Statuses
    PROVE  [o EXCEPT !.status = st] \in Orders /\ [o EXCEPT !.status = st].id = o.id
<1>1. o \in [id : Ids, status : Statuses]
  BY DEF Orders, Statuses
<1>2. [o EXCEPT !.status = st] \in [id : Ids, status : Statuses]
  BY <1>1
<1>3. [o EXCEPT !.status = st].id = o.id
  BY <1>1
<1>. QED
  BY <1>2, <1>3 DEF Orders, Statuses

(* A new status leaves the ids where they are. *)
LEMMA CopiesRestatus ==
    ASSUME NEW s \in Seq(Orders), NEW i \in 1..Len(s), NEW id,
           NEW st \in Statuses
    PROVE  /\ [s EXCEPT ![i].status = st] \in Seq(Orders)
           /\ Len([s EXCEPT ![i].status = st]) = Len(s)
           /\ Copies([s EXCEPT ![i].status = st], id) = Copies(s, id)
<1>. DEFINE o == [s[i] EXCEPT !.status = st]
            u == [s EXCEPT ![i].status = st]
<1>1. o \in Orders /\ o.id = s[i].id
  BY Restatused
<1>2. u = [s EXCEPT ![i] = o]
  OBVIOUS
<1>. HIDE DEF o
<1>3. /\ u \in Seq(Orders) /\ Len(u) = Len(s)
      /\ \A k \in 1..Len(s) : u[k] = IF k = i THEN o ELSE s[k]
  BY <1>1, <1>2
<1>. HIDE DEF u
<1>4. Places(u, id) = Places(s, id)
  BY <1>1, <1>3 DEF Places
<1>. QED
  BY <1>3, <1>4, CopiesCount DEF u

(* A list that has an id has a copy of it. *)
LEMMA CopiesPositive ==
    ASSUME NEW S, NEW s \in Seq(S), NEW i \in 1..Len(s), NEW id, s[i].id = id
    PROVE  Copies(s, id) > 0
<1>1. IsFiniteSet(Places(s, id)) /\ Copies(s, id) = Cardinality(Places(s, id))
      /\ Copies(s, id) \in Nat
  BY CopiesCount
<1>2. Places(s, id) # {}
  BY DEF Places
<1>3. Copies(s, id) # 0
  BY <1>1, <1>2, FS_EmptySet
<1>. QED
  BY <1>1, <1>3

-----------------------------------------------------------------------------
(* The manager *)

(* Where a caller may be, and what for. *)
Calls ==
    [pc : {"idle"}, id : {None}, arg : {None}]
        \cup [pc : {"push"}, id : OrderIds, arg : Sources]
        \cup [pc : {"cancel", "start"}, id : Ids, arg : {None}]
        \cup [pc : {"end"}, id : Ids, arg : {"COMPLETED", "FAILED"}]

OrderTypes ==
    /\ queue \in Seq(Orders) /\ history \in Seq(Orders) /\ replaced \in Seq(Orders)
    /\ current \in Orders \cup {None}
    /\ table \in Seq(OrderIds)
    /\ thread \in [Actors -> Calls]
    /\ restarts \in Nat
    /\ accepted \in [Ids -> Nat]

(* The threads between the depth test and the push_back. *)
Pushers(th) == {a \in Actors : th[a].pc = "push"}

DepthKept ==
    Len(queue) + Cardinality(Pushers(thread)) <= MaxQueueDepth + Cardinality(Actors) - 1

InSlot(c, id) == IF c # None /\ c.id = id THEN 1 ELSE 0

(* Every accepted order is in one of the four places. *)
Balanced ==
    \A id \in Ids :
        Copies(queue, id) + Copies(history, id) + InSlot(current, id) + Copies(replaced, id)
            >= accepted[id]

RowsAccepted == \A i \in 1..Len(table) : accepted[table[i]] > 0

OrderInv == OrderTypes /\ DepthKept /\ Balanced /\ RowsAccepted

(* list_all_orders and the replaced orders show each of the four places once. *)
LEMMA ListedCount ==
    ASSUME OrderTypes, NEW id
    PROVE  Copies(ListAllOrders \o replaced, id)
              = Copies(queue, id) + Copies(history, id) + InSlot(current, id)
                    + Copies(replaced, id)
<1>. DEFINE c == IF current = None THEN <<>> ELSE <<current>>
<1>1. c \in Seq(Orders) /\ queue \in Seq(Orders) /\ history \in Seq(Orders)
      /\ replaced \in Seq(Orders)
  BY DEF OrderTypes
<1>2. Copies(c, id) = InSlot(current, id)
  <2>1. CASE current = None
    BY <2>1, CopiesShort, Zenon DEF InSlot
  <2>2. CASE current # None
    <3>1. Copies(<<current>>, id) = IF current.id = id THEN 1 ELSE 0
      BY CopiesShort, Zenon
    <3>. QED
      BY <2>2, <3>1, Zenon DEF InSlot
  <2>. QED
    BY <2>1, <2>2
<1>. HIDE DEF c
<1>3. c \o queue \in Seq(Orders)
  BY <1>1, ConcatProperties, Zenon
<1>4. (c \o queue) \o history \in Seq(Orders)
  BY <1>1, <1>3, ConcatProperties, Zenon
<1>5. Copies(((c \o queue) \o history) \o replaced, id)
         = Copies((c \o queue) \o history, id) + Copies(replaced, id)
  BY <1>1, <1>4, CopiesConcat, Zenon
<1>6. Copies((c \o queue) \o history, id) = Copies(c \o queue, id) + Copies(history, id)
  BY <1>1, <1>3, CopiesConcat, Zenon
<1>7. Copies(c \o queue, id) = Copies(c, id) + Copies(queue, id)
  BY <1>1, CopiesConcat, Zenon
<1>8. Copies(queue, id) \in Nat /\ Copies(history, id) \in Nat /\ InSlot(current, id) \in Nat
      /\ Copies(replaced, id) \in Nat
  BY <1>1, CopiesCount DEF InSlot
<1>9. ListAllOrders = (c \o queue) \o history
  BY DEF ListAllOrders, c
<1>. QED
  BY <1>2, <1>5, <1>6, <1>7, <1>8, <1>9

(* A non-empty set of naturals has a smallest element. *)
LEMMA SmallestPlace ==
    ASSUME NEW T \in SUBSET Nat, T # {}
    PROVE  Min(T) \in T
<1>1. PICK x \in T : \A y \in T : ~(<<y, x>> \in OpToRel(<, Nat))
  BY NatLessThanWellFounded, WFMin, Zenon
<1>2. \A y \in T : ~(y < x)
  BY <1>1 DEF OpToRel
<1>3. \A y \in T : x <= y
  BY <1>2
<1>. QED
  BY <1>3 DEF Min

(* What find_if finds in the queue has the id. *)
LEMMA OrderFound ==
    ASSUME OrderTypes, NEW id, FindOrder(id) # 0
    PROVE  FindOrder(id) \in 1..Len(queue) /\ queue[FindOrder(id)].id = id
<1>. DEFINE I == {i \in 1..Len(queue) : queue[i].id = id}
<1>1. FindOrder(id) = IF I # {} THEN Min(I) ELSE 0
  BY DEF FindOrder, SelectInSeq
<1>2. I \in SUBSET Nat
  BY DEF OrderTypes
<1>3. FindOrder(id) \in I
  BY <1>1, <1>2, SmallestPlace
<1>. QED
  BY <1>3

-----------------------------------------------------------------------------
(* The steps *)

(* What a caller inside a method holds. *)
LEMMA CallIds ==
    ASSUME NEW c \in Calls
    PROVE  /\ c.pc = "push" => c.id \in OrderIds /\ c.id \in Ids /\ c.arg \in Sources
           /\ c.pc = "end" => c.arg \in {"COMPLETED", "FAILED"}
BY DEF Calls, Ids

(* The threads about to push are counted. *)
LEMMA PushersCount ==
    ASSUME NEW th
    PROVE  /\ IsFiniteSet(Pushers(th)) /\ Cardinality(Pushers(th)) \in Nat
           /\ Cardinality(Actors) \in Nat /\ Cardinality(Actors) >= 1
<1>1. IsFiniteSet(Actors) /\ Actors # {}
  BY OrderAssumption
<1>2. Pushers(th) \subseteq Actors
  BY DEF Pushers
<1>3. IsFiniteSet(Pushers(th))
  BY <1>1, <1>2, FS_Subset
<1>4. Cardinality(Pushers(th)) \in Nat /\ Cardinality(Actors) \in Nat
  BY <1>1, <1>3, FS_CardinalityType
<1>5. Cardinality(Actors) # 0
  BY <1>1, FS_EmptySet
<1>. QED
  BY <1>3, <1>4, <1>5

(* A queue within the depth, and no thread about to push. *)
LEMMA DepthOfSome ==
    ASSUME NEW n \in Nat, n <= MaxQueueDepth
    PROVE  n + Cardinality({}) <= MaxQueueDepth + Cardinality(Actors) - 1
<1>1. Cardinality({}) = 0 /\ Cardinality(Actors) \in Nat /\ Cardinality(Actors) >= 1
  BY FS_EmptySet, PushersCount
<1>. QED
  BY <1>1, OrderAssumption

(* A thread that passes the depth test is one more of them; before, all were
   among the others. *)
LEMMA PusherEnters ==
    ASSUME NEW th \in [Actors -> Calls], NEW a \in Actors, NEW c \in Calls,
           th[a].pc # "push", c.pc = "push"
    PROVE  /\ Cardinality(Pushers([th EXCEPT ![a] = c])) = Cardinality(Pushers(th)) + 1
           /\ Cardinality(Pushers(th)) <= Cardinality(Actors) - 1
<1>1. Pushers([th EXCEPT ![a] = c]) = Pushers(th) \cup {a} /\ a \notin Pushers(th)
  BY DEF Pushers
<1>2. IsFiniteSet(Pushers(th)) /\ IsFiniteSet(Actors)
  BY PushersCount, OrderAssumption
<1>3. Cardinality(Pushers(th) \cup {a}) = Cardinality(Pushers(th)) + 1
  BY <1>1, <1>2, FS_AddElement
<1>4. Pushers(th) \subseteq Actors \ {a}
  BY <1>1 DEF Pushers
<1>5. IsFiniteSet(Actors \ {a}) /\ Cardinality(Actors \ {a}) = Cardinality(Actors) - 1
  BY <1>2, FS_RemoveElement
<1>6. Cardinality(Pushers(th)) <= Cardinality(Actors \ {a})
  BY <1>4, <1>5, FS_Subset
<1>. QED
  BY <1>1, <1>3, <1>5, <1>6

(* A thread that does anything else is not one of them afterwards. *)
LEMMA PusherLeaves ==
    ASSUME NEW th \in [Actors -> Calls], NEW a \in Actors, NEW c \in Calls, c.pc # "push"
    PROVE  /\ Cardinality(Pushers([th EXCEPT ![a] = c])) <= Cardinality(Pushers(th))
           /\ th[a].pc = "push" =>
                 Cardinality(Pushers([th EXCEPT ![a] = c])) = Cardinality(Pushers(th)) - 1
<1>1. Pushers([th EXCEPT ![a] = c]) = Pushers(th) \ {a}
  BY DEF Pushers
<1>2. IsFiniteSet(Pushers(th))
  BY PushersCount
<1>3. Cardinality(Pushers(th) \ {a}) <= Cardinality(Pushers(th))
  BY <1>2, FS_Subset
<1>4. ASSUME th[a].pc = "push"
      PROVE  Cardinality(Pushers(th) \ {a}) = Cardinality(Pushers(th)) - 1
  <2>1. a \in Pushers(th)
    BY <1>4 DEF Pushers
  <2>. QED
    BY <1>2, <2>1, FS_RemoveElement
<1>. QED
  BY <1>1, <1>3, <1>4

(* A thread that passed a test, whichever. *)
LEMMA EnterStep ==
    ASSUME OrderInv, NEW a \in Actors, NEW c \in Calls, Enter(a, c),
           c.pc = "push" => Len(queue) < MaxQueueDepth
    PROVE  OrderInv'
<1>0. OrderTypes /\ DepthKept /\ Balanced /\ RowsAccepted
  BY DEF OrderInv
<1>1. /\ UNCHANGED <<queue, current, history, table, restarts, accepted, replaced>>
      /\ thread' = [thread EXCEPT ![a] = c] /\ thread[a].pc = "idle"
  BY DEF Enter
<1>2. thread \in [Actors -> Calls] /\ queue \in Seq(Orders)
  BY <1>0 DEF OrderTypes
<1>3. OrderTypes'
  BY <1>0, <1>1 DEF OrderTypes
<1>. DEFINE p == Cardinality(Pushers(thread))
            q == Cardinality(Pushers(thread'))
            n == Cardinality(Actors)
            l == Len(queue)
<1>4. p \in Nat /\ q \in Nat /\ n \in Nat /\ l \in Nat /\ MaxQueueDepth \in Nat
  BY <1>2, PushersCount, OrderAssumption
<1>5. l + p <= MaxQueueDepth + n - 1
  BY <1>0 DEF DepthKept
<1>6. l + q <= MaxQueueDepth + n - 1
  <2>1. CASE c.pc = "push"
    <3>1. q = p + 1 /\ p <= n - 1
      BY <1>1, <1>2, <2>1, PusherEnters
    <3>2. l < MaxQueueDepth
      BY <2>1
    <3>. HIDE DEF p, q, n, l
    <3>. QED
      BY <1>4, <3>1, <3>2
  <2>2. CASE c.pc # "push"
    <3>1. q <= p
      BY <1>1, <1>2, <2>2, PusherLeaves
    <3>. HIDE DEF p, q, n, l
    <3>. QED
      BY <1>4, <1>5, <3>1
  <2>. QED
    BY <2>1, <2>2
<1>7. DepthKept'
  BY <1>1, <1>6 DEF DepthKept
<1>8. Balanced' /\ RowsAccepted'
  BY <1>0, <1>1 DEF Balanced, RowsAccepted
<1>. QED
  BY <1>3, <1>7, <1>8 DEF OrderInv

(* The tests of the methods. *)
LEMMA CheckStep ==
    ASSUME OrderInv, NEW a \in Actors,
           \/ \E id \in OrderIds, source \in Sources : CreateCheck(a, id, source)
           \/ \E id \in Ids : CancelCheck(a, id) \/ StartCheck(a, id)
           \/ \E id \in Ids, status \in {"COMPLETED", "FAILED"} : EndCheck(a, id, status)
    PROVE  OrderInv'
<1>1. ASSUME NEW id \in OrderIds, NEW source \in Sources, CreateCheck(a, id, source)
      PROVE  OrderInv'
  <2>1. Call("push", id, source) \in Calls
    BY DEF Calls, Call
  <2>. QED
    BY <1>1, <2>1, EnterStep DEF CreateCheck
<1>2. ASSUME NEW id \in Ids, CancelCheck(a, id) PROVE OrderInv'
  <2>1. Call("cancel", id, None) \in Calls /\ Call("cancel", id, None).pc # "push"
    BY DEF Calls, Call
  <2>. QED
    BY <1>2, <2>1, EnterStep DEF CancelCheck
<1>3. ASSUME NEW id \in Ids, StartCheck(a, id) PROVE OrderInv'
  <2>1. Call("start", id, None) \in Calls /\ Call("start", id, None).pc # "push"
    BY DEF Calls, Call
  <2>. QED
    BY <1>3, <2>1, EnterStep DEF StartCheck
<1>4. ASSUME NEW id \in Ids, NEW status \in {"COMPLETED", "FAILED"}, EndCheck(a, id, status)
      PROVE  OrderInv'
  <2>1. Call("end", id, status) \in Calls /\ Call("end", id, status).pc # "push"
    BY DEF Calls, Call
  <2>. QED
    BY <1>4, <2>1, EnterStep DEF EndCheck
<1>. QED
  BY <1>1, <1>2, <1>3, <1>4

(* A thread that comes back from a method, which pushed an order only if it was
   the push it had passed the test for. *)
LEMMA LeaveStep ==
    ASSUME OrderTypes, DepthKept, NEW a \in Actors, Leave(a),
           NEW n \in Nat,
           n <= Len(queue) \/ (thread[a].pc = "push" /\ n <= Len(queue) + 1)
    PROVE  /\ thread' \in [Actors -> Calls]
           /\ n + Cardinality(Pushers(thread')) <= MaxQueueDepth + Cardinality(Actors) - 1
<1>1. thread \in [Actors -> Calls] /\ queue \in Seq(Orders)
  BY DEF OrderTypes
<1>2. Resting \in Calls /\ Resting.pc # "push" /\ thread' = [thread EXCEPT ![a] = Resting]
  BY DEF Calls, Call, Resting, Leave
<1>. DEFINE p == Cardinality(Pushers(thread))
            q == Cardinality(Pushers(thread'))
            m == Cardinality(Actors)
            l == Len(queue)
<1>3. p \in Nat /\ q \in Nat /\ m \in Nat /\ l \in Nat /\ MaxQueueDepth \in Nat
  BY <1>1, PushersCount, OrderAssumption
<1>4. q <= p /\ (thread[a].pc = "push" => q = p - 1)
  BY <1>1, <1>2, PusherLeaves
<1>5. l + p <= MaxQueueDepth + m - 1
  BY DEF DepthKept
<1>6. n <= l \/ (thread[a].pc = "push" /\ n <= l + 1)
  OBVIOUS
<1>7. thread' \in [Actors -> Calls]
  BY <1>1, <1>2
<1>. HIDE DEF p, q, m, l
<1>8. n + q <= MaxQueueDepth + m - 1
  BY <1>3, <1>4, <1>5, <1>6
<1>. QED
  BY <1>7, <1>8 DEF q, m

(* create_order after its test. *)
LEMMA PushStep ==
    ASSUME OrderInv, NEW a \in Actors, CreatePush(a)
    PROVE  OrderInv'
<1>0. OrderTypes /\ DepthKept /\ Balanced /\ RowsAccepted
  BY DEF OrderInv
<1>. DEFINE k == thread[a].id
            source == thread[a].arg
            o == NewOrder(k, source)
<1>1. thread[a] \in Calls /\ thread[a].pc = "push"
  BY <1>0 DEF OrderTypes, CreatePush
<1>2. k \in OrderIds /\ k \in Ids /\ source \in Sources
  BY <1>1, CallIds
<1>3. /\ queue' = Append(queue, o) /\ InsertOrder(k, source)
      /\ accepted' = [accepted EXCEPT ![k] = @ + 1]
      /\ Leave(a)
      /\ UNCHANGED <<current, history, restarts, replaced>>
  BY DEF CreatePush
<1>4. o \in Orders /\ o.id = k
  BY <1>2 DEF NewOrder, Orders
<1>. HIDE DEF k, source, o
<1>6. /\ queue \in Seq(Orders) /\ history \in Seq(Orders) /\ table \in Seq(OrderIds)
      /\ replaced \in Seq(Orders) /\ accepted \in [Ids -> Nat]
  BY <1>0 DEF OrderTypes
<1>7. queue' \in Seq(Orders) /\ Len(queue') = Len(queue) + 1 /\ Len(queue') \in Nat
  BY <1>3, <1>4, <1>6
<1>8. /\ accepted' \in [Ids -> Nat] /\ accepted'[k] = accepted[k] + 1
      /\ \A id \in Ids : id # k => accepted'[id] = accepted[id]
  BY <1>2, <1>3, <1>6
<1>9. /\ table' \in Seq(OrderIds)
      /\ \A j \in 1..Len(table') : table'[j] = k \/ \E i \in 1..Len(table) : table'[j] = table[i]
  <2>1. CASE table' = table
    BY <1>6, <2>1
  <2>2. CASE table' = Append(table, k)
    BY <1>2, <1>6, <2>2
  <2>. QED
    BY <1>3, <2>1, <2>2 DEF InsertOrder
<1>10. thread' \in [Actors -> Calls] /\ DepthKept'
  BY <1>0, <1>1, <1>3, <1>6, <1>7, LeaveStep DEF DepthKept
<1>11. OrderTypes'
  BY <1>0, <1>3, <1>6, <1>7, <1>8, <1>9, <1>10 DEF OrderTypes
<1>13. ASSUME NEW id \in Ids
       PROVE  Copies(queue', id) + Copies(history', id) + InSlot(current', id)
                 + Copies(replaced', id) >= accepted'[id]
  <2>1. Copies(queue', id) = Copies(queue, id) + (IF o.id = id THEN 1 ELSE 0)
    BY <1>3, <1>4, <1>6, CopiesAppend
  <2>2. Copies(queue, id) \in Nat /\ Copies(history, id) \in Nat /\ InSlot(current, id) \in Nat
        /\ Copies(replaced, id) \in Nat /\ accepted[id] \in Nat
    BY <1>6, CopiesCount DEF InSlot
  <2>3. Copies(queue, id) + Copies(history, id) + InSlot(current, id) + Copies(replaced, id)
           >= accepted[id]
    BY <1>0 DEF Balanced
  <2>4. history' = history /\ current' = current /\ replaced' = replaced
    BY <1>3
  <2>5. accepted'[id] = accepted[id] + (IF o.id = id THEN 1 ELSE 0)
    BY <1>4, <1>6, <1>8
  <2>. HIDE DEF InSlot
  <2>. QED
    BY <2>1, <2>2, <2>3, <2>4, <2>5
<1>14. RowsAccepted'
  <2>1. \A i \in 1..Len(table) : table[i] \in Ids /\ accepted[table[i]] > 0
    BY <1>0, <1>6 DEF RowsAccepted, Ids
  <2>2. \A id \in Ids : accepted[id] > 0 => accepted'[id] > 0
    BY <1>2, <1>6, <1>8
  <2>3. accepted'[k] > 0
    BY <1>2, <1>6, <1>8
  <2>. QED
    BY <1>9, <2>1, <2>2, <2>3 DEF RowsAccepted
<1>. QED
  BY <1>10, <1>11, <1>13, <1>14 DEF OrderInv, Balanced

(* cancel_order after its test: from the queue to the history, or not found. *)
LEMMA CancelStep ==
    ASSUME OrderInv, NEW a \in Actors, CancelOrder(a)
    PROVE  OrderInv'
<1>0. OrderTypes /\ DepthKept /\ Balanced /\ RowsAccepted
  BY DEF OrderInv
<1>. DEFINE i == FindOrder(thread[a].id)
            o == [queue[i] EXCEPT !.status = "CANCELLED"]
<1>1. Leave(a) /\ UNCHANGED <<current, table, restarts, accepted, replaced>>
  BY DEF CancelOrder
<1>2. /\ queue \in Seq(Orders) /\ history \in Seq(Orders) /\ replaced \in Seq(Orders)
      /\ Len(queue) \in Nat /\ accepted \in [Ids -> Nat]
  BY <1>0 DEF OrderTypes
<1>3. RowsAccepted'
  BY <1>0, <1>1 DEF RowsAccepted
<1>4. CASE i = 0
  <2>1. UNCHANGED <<queue, history>>
    BY <1>4 DEF CancelOrder
  <2>2. thread' \in [Actors -> Calls] /\ DepthKept'
    BY <1>0, <1>1, <1>2, <2>1, LeaveStep DEF DepthKept
  <2>3. OrderTypes'
    BY <1>0, <1>1, <2>1, <2>2 DEF OrderTypes
  <2>4. Balanced'
    BY <1>0, <1>1, <2>1 DEF Balanced
  <2>. QED
    BY <1>3, <2>2, <2>3, <2>4 DEF OrderInv
<1>5. CASE i # 0
  <2>1. history' = Append(history, o) /\ queue' = RemoveAt(queue, i)
    BY <1>5 DEF CancelOrder
  <2>2. i \in 1..Len(queue)
    BY <1>0, <1>5, OrderFound
  <2>. HIDE DEF i
  <2>4. queue[i] \in Orders
    BY <1>2, <2>2
  <2>5. o \in Orders /\ o.id = queue[i].id
    BY <2>4, Restatused DEF Statuses
  <2>. HIDE DEF o
  <2>6. history' \in Seq(Orders)
    BY <1>2, <2>1, <2>5
  <2>7. queue' \in Seq(Orders) /\ Len(queue') = Len(queue) - 1
    BY <1>2, <2>1, <2>2, CopiesRemoveAt
  <2>8. Len(queue') \in Nat /\ Len(queue') <= Len(queue)
    BY <1>2, <2>7
  <2>9. thread' \in [Actors -> Calls] /\ DepthKept'
    BY <1>0, <1>1, <2>8, LeaveStep DEF DepthKept
  <2>10. OrderTypes'
    BY <1>0, <1>1, <2>6, <2>7, <2>9 DEF OrderTypes
  <2>11. ASSUME NEW id \in Ids
         PROVE  Copies(queue', id) + Copies(history', id) + InSlot(current', id)
                   + Copies(replaced', id) >= accepted'[id]
    <3>1. Copies(history', id) = Copies(history, id) + (IF o.id = id THEN 1 ELSE 0)
      BY <1>2, <2>1, <2>5, CopiesAppend
    <3>2. Copies(queue, id) = Copies(queue', id) + (IF queue[i].id = id THEN 1 ELSE 0)
      BY <1>2, <2>1, <2>2, CopiesRemoveAt
    <3>3. Copies(queue', id) \in Nat /\ Copies(history, id) \in Nat /\ InSlot(current, id) \in Nat
          /\ Copies(replaced, id) \in Nat /\ accepted[id] \in Nat
      BY <1>2, <2>7, CopiesCount DEF InSlot
    <3>4. Copies(queue, id) + Copies(history, id) + InSlot(current, id) + Copies(replaced, id)
             >= accepted[id]
      BY <1>0 DEF Balanced
    <3>5. accepted' = accepted /\ current' = current /\ replaced' = replaced
      BY <1>1
    <3>. HIDE DEF InSlot
    <3>. QED
      BY <2>5, <3>1, <3>2, <3>3, <3>4, <3>5
  <2>. QED
    BY <1>3, <2>9, <2>10, <2>11 DEF OrderInv, Balanced
<1>. QED
  BY <1>4, <1>5

(* confirm_payment: a new status in place. *)
LEMMA PaymentStep ==
    ASSUME OrderInv, NEW a \in Actors, NEW k \in Ids, ConfirmPayment(a, k)
    PROVE  OrderInv'
<1>0. OrderTypes /\ DepthKept /\ Balanced /\ RowsAccepted
  BY DEF OrderInv
<1>. DEFINE i == FindOrder(k)
<1>1. /\ i # 0 /\ queue' = [queue EXCEPT ![i].status = "PAID"]
      /\ UNCHANGED <<current, history, table, thread, restarts, accepted, replaced>>
  BY DEF ConfirmPayment
<1>2. i \in 1..Len(queue) /\ queue \in Seq(Orders)
  BY <1>0, <1>1, OrderFound DEF OrderTypes
<1>. HIDE DEF i
<1>3. "PAID" \in Statuses
  BY DEF Statuses
<1>4. queue' \in Seq(Orders) /\ Len(queue') = Len(queue)
  BY <1>1, <1>2, <1>3, CopiesRestatus
<1>5. \A id : Copies(queue', id) = Copies(queue, id)
  BY <1>1, <1>2, <1>3, CopiesRestatus
<1>6. OrderTypes'
  BY <1>0, <1>1, <1>4 DEF OrderTypes
<1>7. DepthKept' /\ RowsAccepted'
  BY <1>0, <1>1, <1>4 DEF DepthKept, RowsAccepted
<1>8. Balanced'
  BY <1>0, <1>1, <1>5 DEF Balanced
<1>. QED
  BY <1>6, <1>7, <1>8 DEF OrderInv

(* start_brewing after its test: from the queue into the slot; what was there by
   then counts as replaced. *)
LEMMA BrewStep ==
    ASSUME OrderInv, NEW a \in Actors, StartBrewing(a)
    PROVE  OrderInv'
<1>0. OrderTypes /\ DepthKept /\ Balanced /\ RowsAccepted
  BY DEF OrderInv
<1>. DEFINE i == FindOrder(thread[a].id)
            o == [queue[i] EXCEPT !.status = "BREWING"]
<1>1. Leave(a) /\ UNCHANGED <<history, table, restarts, accepted>>
  BY DEF StartBrewing
<1>2. /\ queue \in Seq(Orders) /\ history \in Seq(Orders) /\ replaced \in Seq(Orders)
      /\ Len(queue) \in Nat /\ accepted \in [Ids -> Nat] /\ current \in Orders \cup {None}
  BY <1>0 DEF OrderTypes
<1>3. RowsAccepted'
  BY <1>0, <1>1 DEF RowsAccepted
<1>4. CASE i = 0
  <2>1. UNCHANGED <<current, queue, replaced>>
    BY <1>4 DEF StartBrewing
  <2>2. thread' \in [Actors -> Calls] /\ DepthKept'
    BY <1>0, <1>1, <1>2, <2>1, LeaveStep DEF DepthKept
  <2>3. OrderTypes'
    BY <1>0, <1>1, <2>1, <2>2 DEF OrderTypes
  <2>4. Balanced'
    BY <1>0, <1>1, <2>1 DEF Balanced
  <2>. QED
    BY <1>3, <2>2, <2>3, <2>4 DEF OrderInv
<1>5. CASE i # 0
  <2>1. /\ current' = o /\ queue' = RemoveAt(queue, i)
        /\ replaced' = IF current = None THEN replaced ELSE Append(replaced, current)
    BY <1>5 DEF StartBrewing
  <2>2. i \in 1..Len(queue)
    BY <1>0, <1>5, OrderFound
  <2>. HIDE DEF i
  <2>4. queue[i] \in Orders
    BY <1>2, <2>2
  <2>5. o \in Orders /\ o.id = queue[i].id /\ o # None
    BY <2>4, Restatused, OrderAssumption DEF Statuses
  <2>. HIDE DEF o
  <2>6. queue' \in Seq(Orders) /\ Len(queue') = Len(queue) - 1
    BY <1>2, <2>1, <2>2, CopiesRemoveAt
  <2>7. Len(queue') \in Nat /\ Len(queue') <= Len(queue)
    BY <1>2, <2>6
  <2>8. thread' \in [Actors -> Calls] /\ DepthKept'
    BY <1>0, <1>1, <2>7, LeaveStep DEF DepthKept
  <2>9. /\ replaced' \in Seq(Orders)
        /\ \A id \in Ids : Copies(replaced', id) = Copies(replaced, id) + InSlot(current, id)
    <3>1. CASE current = None
      <4>1. replaced' = replaced /\ \A id : InSlot(current, id) = 0
        BY <2>1, <3>1 DEF InSlot
      <4>2. \A id : Copies(replaced, id) \in Nat
        BY <1>2, CopiesCount
      <4>. QED
        BY <1>2, <4>1, <4>2
    <3>2. CASE current # None
      <4>1. replaced' = Append(replaced, current) /\ current \in Orders
        BY <1>2, <2>1, <3>2
      <4>2. replaced' \in Seq(Orders)
        BY <1>2, <4>1
      <4>3. \A id : Copies(replaced', id)
                       = Copies(replaced, id) + (IF current.id = id THEN 1 ELSE 0)
        BY <1>2, <4>1, CopiesAppend
      <4>. QED
        BY <3>2, <4>2, <4>3 DEF InSlot
    <3>. QED
      BY <3>1, <3>2
  <2>10. OrderTypes'
    BY <1>0, <1>1, <2>1, <2>5, <2>6, <2>8, <2>9 DEF OrderTypes
  <2>11. ASSUME NEW id \in Ids
         PROVE  Copies(queue', id) + Copies(history', id) + InSlot(current', id)
                   + Copies(replaced', id) >= accepted'[id]
    <3>1. Copies(queue, id) = Copies(queue', id) + (IF queue[i].id = id THEN 1 ELSE 0)
      BY <1>2, <2>1, <2>2, CopiesRemoveAt
    <3>2. Copies(queue', id) \in Nat /\ Copies(history, id) \in Nat /\ InSlot(current, id) \in Nat
          /\ Copies(replaced, id) \in Nat /\ accepted[id] \in Nat
      BY <1>2, <2>6, CopiesCount DEF InSlot
    <3>3. Copies(queue, id) + Copies(history, id) + InSlot(current, id) + Copies(replaced, id)
             >= accepted[id]
      BY <1>0 DEF Balanced
    <3>4. accepted' = accepted /\ history' = history
      BY <1>1
    <3>5. InSlot(current', id) = IF queue[i].id = id THEN 1 ELSE 0
      BY <2>1, <2>5 DEF InSlot
    <3>6. Copies(replaced', id) = Copies(replaced, id) + InSlot(current, id)
      BY <2>9
    <3>. HIDE DEF InSlot
    <3>. QED
      BY <3>1, <3>2, <3>3, <3>4, <3>5, <3>6
  <2>. QED
    BY <1>3, <2>8, <2>10, <2>11 DEF OrderInv, Balanced
<1>. QED
  BY <1>4, <1>5

(* complete_brewing and fail_brewing after their test: what is in the slot goes
   to the history; from an empty slot something goes there, and nothing is lost. *)
LEMMA EndStep ==
    ASSUME OrderInv, NEW a \in Actors, EndBrewing(a)
    PROVE  OrderInv'
<1>0. OrderTypes /\ DepthKept /\ Balanced /\ RowsAccepted
  BY DEF OrderInv
<1>. DEFINE status == thread[a].arg
<1>1. /\ thread[a].pc = "end" /\ current' = None /\ Leave(a)
      /\ UNCHANGED <<queue, table, restarts, accepted, replaced>>
  BY DEF EndBrewing
<1>2. /\ queue \in Seq(Orders) /\ history \in Seq(Orders) /\ replaced \in Seq(Orders)
      /\ Len(queue) \in Nat /\ accepted \in [Ids -> Nat] /\ current \in Orders \cup {None}
      /\ thread[a] \in Calls
  BY <1>0 DEF OrderTypes
<1>3. status \in Statuses
  BY <1>1, <1>2, CallIds DEF Statuses
<1>4. PICK old \in Orders : /\ current # None => old = current
                            /\ history' = Append(history, [old EXCEPT !.status = status])
  BY <1>2 DEF EndBrewing, Orders
<1>. DEFINE o == [old EXCEPT !.status = status]
<1>5. o \in Orders /\ o.id = old.id
  BY <1>3, Restatused
<1>. HIDE DEF o, status
<1>6. history' = Append(history, o)
  BY <1>4 DEF o, status
<1>7. history' \in Seq(Orders)
  BY <1>2, <1>5, <1>6
<1>8. thread' \in [Actors -> Calls] /\ DepthKept'
  BY <1>0, <1>1, <1>2, LeaveStep DEF DepthKept
<1>9. OrderTypes'
  BY <1>0, <1>1, <1>7, <1>8 DEF OrderTypes
<1>10. ASSUME NEW id \in Ids
       PROVE  Copies(queue', id) + Copies(history', id) + InSlot(current', id)
                 + Copies(replaced', id) >= accepted'[id]
  <2>1. Copies(history', id) = Copies(history, id) + (IF o.id = id THEN 1 ELSE 0)
    BY <1>2, <1>5, <1>6, CopiesAppend
  <2>2. Copies(queue, id) \in Nat /\ Copies(history, id) \in Nat /\ Copies(replaced, id) \in Nat
        /\ accepted[id] \in Nat
    BY <1>2, CopiesCount
  <2>3. Copies(queue, id) + Copies(history, id) + InSlot(current, id) + Copies(replaced, id)
           >= accepted[id]
    BY <1>0 DEF Balanced
  <2>4. accepted' = accepted /\ queue' = queue /\ replaced' = replaced
    BY <1>1
  <2>5. InSlot(current', id) = 0 /\ InSlot(current, id) \in Nat
        /\ InSlot(current, id) <= IF o.id = id THEN 1 ELSE 0
    BY <1>1, <1>4, <1>5 DEF InSlot
  <2>. HIDE DEF InSlot
  <2>. QED
    BY <2>1, <2>2, <2>3, <2>4, <2>5
<1>11. RowsAccepted'
  BY <1>0, <1>1 DEF RowsAccepted
<1>. QED
  BY <1>8, <1>9, <1>10, <1>11 DEF OrderInv, Balanced

(* load_from_database and seed_mock_data: the orders with a row, or the seed. *)
LEMMA LoadStep ==
    ASSUME OrderInv, Restart
    PROVE  OrderInv'
<1>0. OrderTypes
  BY DEF OrderInv
<1>1. /\ LoadFromDatabase(table) /\ thread' = [a \in Actors |-> Resting] /\ UNCHANGED table
      /\ restarts' = restarts + 1
  BY DEF Restart
<1>2. table \in Seq(OrderIds) /\ Len(table) \in Nat
  BY <1>0 DEF OrderTypes
<1>3. OrderIds \subseteq Ids
  BY DEF Ids
<1>4. /\ queue' \in Seq(Orders) /\ history' \in Seq(Orders) /\ Len(queue') <= MaxQueueDepth
      /\ \A i \in 1..Len(table) : \E j \in 1..Len(history') : history'[j].id = table[i]
  <2>1. CASE table = <<>>
    <3>1. queue' = SeedQueue /\ history' = SeedHistory
      BY <1>1, <2>1 DEF LoadFromDatabase
    <3>. QED
      BY <2>1, <3>1, OrderAssumption
  <2>2. CASE table # <<>>
    <3>. DEFINE n == Len(table)
                R == Reverse(table)
    <3>1. queue' = <<>> /\ history' = [i \in 1..n |-> OrderFromRow(R[i])]
      BY <1>1, <2>2 DEF LoadFromDatabase
    <3>2. \A i \in 1..n : R[i] = table[(n - i) + 1] /\ R[i] \in OrderIds
      BY <1>2 DEF Reverse
    <3>. HIDE DEF n, R
    <3>3. n \in Nat /\ n = Len(table)
      BY <1>2 DEF n
    <3>4. \A i \in 1..n : OrderFromRow(R[i]) \in Orders /\ OrderFromRow(R[i]).id = R[i]
      BY <1>3, <3>2 DEF OrderFromRow, Orders
    <3>. HIDE DEF OrderFromRow
    <3>5. history' \in Seq(Orders) /\ Len(history') = n
      BY <3>1, <3>3, <3>4
    <3>6. ASSUME NEW i \in 1..n PROVE \E j \in 1..n : history'[j].id = table[i]
      <4>1. (n - i) + 1 \in 1..n /\ (n - ((n - i) + 1)) + 1 = i
        BY <3>3
      <4>2. R[(n - i) + 1] = table[i]
        BY <3>2, <4>1
      <4>3. history'[(n - i) + 1].id = table[i]
        BY <3>1, <3>4, <4>1, <4>2
      <4>. QED
        BY <4>1, <4>3
    <3>7. queue' \in Seq(Orders) /\ Len(queue') <= MaxQueueDepth
      BY <3>1, OrderAssumption
    <3>. QED
      BY <3>3, <3>5, <3>6, <3>7
  <2>. QED
    BY <2>1, <2>2
<1>5. /\ current' = None /\ replaced' = <<>>
      /\ accepted' = [id \in Ids |-> Copies(history', id) + Copies(queue', id)]
  BY <1>1 DEF LoadFromDatabase
<1>6. \A id : Copies(history', id) \in Nat /\ Copies(queue', id) \in Nat
  BY <1>4, CopiesCount
<1>7. accepted' \in [Ids -> Nat]
  BY <1>5, <1>6
<1>8. Resting \in Calls /\ Resting.pc = "idle"
  BY DEF Calls, Call, Resting
<1>9. thread' \in [Actors -> Calls] /\ \A a \in Actors : thread'[a].pc = "idle"
  BY <1>1, <1>8
<1>10. OrderTypes'
  BY <1>0, <1>1, <1>4, <1>5, <1>7, <1>9 DEF OrderTypes
<1>11. DepthKept'
  <2>1. Pushers(thread') = {}
    BY <1>9 DEF Pushers
  <2>2. Len(queue') <= MaxQueueDepth /\ Len(queue') \in Nat
    BY <1>4
  <2>. QED
    BY <2>1, <2>2, DepthOfSome DEF DepthKept
<1>12. Balanced'
  <2>1. \A id : Copies(replaced', id) = 0 /\ InSlot(current', id) = 0
    BY <1>5, CopiesShort DEF InSlot
  <2>. HIDE DEF InSlot
  <2>. QED
    BY <1>5, <1>6, <2>1 DEF Balanced
<1>13. RowsAccepted'
  <2>. SUFFICES ASSUME NEW i \in 1..Len(table) PROVE accepted'[table[i]] > 0
    BY <1>1 DEF RowsAccepted
  <2>1. table[i] \in Ids
    BY <1>2, <1>3
  <2>2. PICK j \in 1..Len(history') : history'[j].id = table[i]
    BY <1>4
  <2>3. Copies(history', table[i]) > 0
    BY <1>4, <2>2, CopiesPositive
  <2>. QED
    BY <1>5, <1>6, <2>1, <2>3
<1>. QED
  BY <1>10, <1>11, <1>12, <1>13 DEF OrderInv

(* Every call and every restart keeps the invariant. *)
LEMMA OrderInductive == OrderInv /\ [OrderNext]_orderVars => OrderInv'
<1>. SUFFICES ASSUME OrderInv, [OrderNext]_orderVars PROVE OrderInv'
  OBVIOUS
<1>1. ASSUME NEW a \in Actors, ActorStep(a) PROVE OrderInv'
  BY <1>1, CheckStep, PushStep, BrewStep, CancelStep, PaymentStep, EndStep DEF ActorStep
<1>2. CASE Restart
  BY <1>2, LoadStep
<1>3. CASE UNCHANGED orderVars
  BY <1>3 DEF orderVars, OrderInv, OrderTypes, DepthKept, Balanced, RowsAccepted
<1>. QED
  BY <1>1, <1>2, <1>3 DEF OrderNext

(* It holds of the seed. *)
LEMMA OrderStart == OrderInit => OrderInv
<1>. SUFFICES ASSUME OrderInit PROVE OrderInv
  OBVIOUS
<1>1. Resting \in Calls /\ Resting.pc = "idle"
  BY DEF Calls, Call, Resting
<1>2. \A id : Copies(SeedQueue, id) \in Nat /\ Copies(SeedHistory, id) \in Nat
  BY OrderAssumption, CopiesCount
<1>3. OrderTypes
  BY <1>1, <1>2, OrderAssumption DEF OrderInit, OrderTypes
<1>4. DepthKept
  <2>1. Pushers(thread) = {}
    BY <1>1 DEF OrderInit, Pushers
  <2>2. Len(queue) <= MaxQueueDepth /\ Len(queue) \in Nat
    BY OrderAssumption DEF OrderInit
  <2>. QED
    BY <2>1, <2>2, DepthOfSome DEF DepthKept
<1>5. Balanced
  <2>1. \A id : Copies(replaced, id) = 0 /\ InSlot(current, id) = 0
    BY CopiesShort DEF OrderInit, InSlot
  <2>2. /\ queue = SeedQueue /\ history = SeedHistory
        /\ accepted = [id \in Ids |-> Copies(SeedQueue, id) + Copies(SeedHistory, id)]
    BY DEF OrderInit
  <2>. QED
    BY <1>2, <2>1, <2>2 DEF Balanced
<1>6. RowsAccepted
  BY DEF OrderInit, RowsAccepted
<1>. QED
  BY <1>3, <1>4, <1>5, <1>6 DEF OrderInv

(* What the invariant says of the list clients see. *)
LEMMA InvListed == OrderInv => QueueOvershoot /\ LostInSlotOnly /\ StoredOrdersListed
<1>. SUFFICES ASSUME OrderInv PROVE QueueOvershoot /\ LostInSlotOnly /\ StoredOrdersListed
  OBVIOUS
<1>0. OrderTypes /\ DepthKept /\ Balanced /\ RowsAccepted
  BY DEF OrderInv
<1>1. LostInSlotOnly
  BY <1>0, ListedCount DEF Balanced, LostInSlotOnly
<1>2. ASSUME NEW id \in ToSet(table) PROVE Copies(ListAllOrders \o replaced, id) > 0
  <2>1. PICK i \in 1..Len(table) : id = table[i]
    BY <1>0 DEF ToSet, OrderTypes
  <2>2. id \in Ids
    BY <1>0, <2>1 DEF OrderTypes, Ids
  <2>3. accepted[id] \in Nat /\ accepted[id] > 0
    BY <1>0, <2>1, <2>2 DEF RowsAccepted, OrderTypes
  <2>4. Copies(ListAllOrders \o replaced, id) >= accepted[id]
    BY <1>1, <2>2 DEF LostInSlotOnly
  <2>5. Copies(ListAllOrders \o replaced, id) \in Nat
    <3>1. /\ Copies(queue, id) \in Nat /\ Copies(history, id) \in Nat
          /\ Copies(replaced, id) \in Nat /\ InSlot(current, id) \in Nat
      BY <1>0, CopiesCount DEF OrderTypes, InSlot
    <3>. QED
      BY <1>0, <3>1, ListedCount
  <2>. QED
    BY <2>3, <2>4, <2>5
<1>3. QueueOvershoot
  <2>1. Len(queue) \in Nat
    BY <1>0 DEF OrderTypes
  <2>. QED
    BY <1>0, <2>1, PushersCount, OrderAssumption DEF DepthKept, QueueOvershoot
<1>. QED
  BY <1>1, <1>2, <1>3 DEF StoredOrdersListed

(* create_order with any number of callers and no lock: the queue is never longer
   than ORDER_MAX_QUEUE_DEPTH and all callers but one. *)
THEOREM QueueOvershootsLittle == OrderSpec => []QueueOvershoot
  BY OrderInductive, OrderStart, InvListed, PTL DEF OrderSpec

(* The order methods with any number of callers and no lock: however their tests
   and changes interleave, and whatever ids repeat, an accepted order is lost
   only where start_brewing puts another one into the slot it is in. *)
THEOREM OrdersLostInSlotOnly == OrderSpec => []LostInSlotOnly
  BY OrderInductive, OrderStart, InvListed, PTL DEF OrderSpec

(* insert_order and load_from_database with any number of callers: an order that
   has a row is listed, unless it was replaced in the slot in this process. *)
THEOREM StoredOrdersFound == OrderSpec => []StoredOrdersListed
  BY OrderInductive, OrderStart, InvListed, PTL DEF OrderSpec
=============================================================================
