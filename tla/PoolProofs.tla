----------------------------- MODULE PoolProofs -----------------------------
(***************************************************************************)
(* Proof that the pool of tenant backends keeps its promises for any       *)
(* tenants, callers, backends and pool size (PoolLifecycle).               *)
(*                                                                         *)
(* The argument: list, map and entries of the pool fit together, and with  *)
(* the callers: the count of an entry is the number of callers that use    *)
(* it, an entry in the map is not retired, a retired one has a user, and   *)
(* a backend under construction is in the hands of one caller.  The parts  *)
(* of a critical section are lemmas about the pool as a value, so that an  *)
(* action is the composition of what it does.                              *)
(***************************************************************************)
EXTENDS TenantPool, TLAPS

RowRecord == [status : {"active", "deleting"}, policy : PoolPolicies, ns : PoolTenants \cup {None}]

CallRecord ==
    [at : {"idle"}]
    \cup [at : {"resolved", "creating"}, op : {"acquire", "get"}, tenant : PoolTenants, row : RowRecord]
    \cup [at : {"created"}, op : {"acquire", "get"}, tenant : PoolTenants, row : RowRecord, entry : PoolBackends]
    \cup [at : {"using"}, tenant : PoolTenants, row : RowRecord, entry : PoolBackends]

PoolTypes ==
    /\ prow \in [PoolTenants -> RowRecord]
    /\ pcall \in [PoolCallers -> CallRecord]
    /\ pdrain \in DrainRecord \cup {None}

\* The users of each backend, and the backends that callers have built.
Used == [b \in PoolBackends |-> Cardinality(PoolUsers(b))]
Built == {b \in PoolBackends : \E c \in PoolCallers : pcall[c].at = "created" /\ pcall[c].entry = b}

\* The list holds the tenants of S, each once.
OrderFits(order, S) ==
    /\ order \in Seq(PoolTenants)
    /\ \A i, j \in 1..Len(order) : order[i] = order[j] => i = j
    /\ Listed(order) = S

Mapped(items) == {t \in PoolTenants : items[t] # None}

\* An entry of the map is open, of its tenant, and nobody's private one.
MapFits(items, entry, built) ==
    \A t \in Mapped(items) :
        /\ entry[items[t]] # None /\ entry[items[t]].tenant = t /\ ~entry[items[t]].retired
        /\ items[t] \notin built

\* A closed backend has no users; an open one counts them, and somebody will
\* close it.
EntryFits(items, entry, used, built, b) ==
    /\ entry[b] = None => used[b] = 0 /\ b \notin built
    /\ entry[b] # None =>
        /\ entry[b].refs = used[b]
        /\ entry[b].retired => used[b] > 0
        /\ b \in built => used[b] = 0 /\ ~entry[b].retired
        /\ (\E t \in PoolTenants : items[t] = b) \/ entry[b].retired \/ b \in built

PoolFits(pool, used, built) ==
    /\ pool = [items |-> pool.items, order |-> pool.order, entry |-> pool.entry]
    /\ pool.items \in [PoolTenants -> PoolBackends \cup {None}]
    /\ pool.entry \in [PoolBackends -> EntryRecord \cup {None}]
    /\ OrderFits(pool.order, Mapped(pool.items))
    /\ MapFits(pool.items, pool.entry, built)
    /\ \A b \in PoolBackends : EntryFits(pool.items, pool.entry, used, built, b)

\* A caller that has built or uses a backend has one of its tenant and policy.
CallFits(c) ==
    pcall[c].at \in {"created", "using"} =>
        /\ pentry[pcall[c].entry].tenant = pcall[c].tenant
        /\ pentry[pcall[c].entry].policy = pcall[c].row.policy

OneBuilder ==
    \A c, d \in PoolCallers :
        pcall[c].at = "created" /\ pcall[d].at = "created" /\ pcall[c].entry = pcall[d].entry => c = d

\* The backend a drain waits for is out of everybody's reach.
DrainFits ==
    pdrain # None =>
        /\ pdrain.entry # None => pdrain.entry \notin Built /\ \A t \in PoolTenants : pitems[t] # pdrain.entry
        /\ pdrain.st = "drained" => PoolUsers(pdrain.entry) = {}

\* Sets of callers have a size, which follows their members.
CallersCount ==
    \A S \in SUBSET PoolCallers :
        /\ Cardinality(S) \in Nat
        /\ Cardinality(S) = 0 <=> S = {}
        /\ \A c \in PoolCallers : /\ c \notin S => Cardinality(S \cup {c}) = Cardinality(S) + 1
                                  /\ c \in S => Cardinality(S \ {c}) = Cardinality(S) - 1

PoolInv ==
    /\ CallersCount
    /\ PoolTypes
    /\ PoolFits(PoolState, Used, Built)
    /\ Len(porder) <= PoolMaxSize
    /\ \A c \in PoolCallers : CallFits(c)
    /\ OneBuilder
    /\ DrainFits

-----------------------------------------------------------------------------
(* The list *)

\* A function on 1..n with values among the tenants is a list of length n.
LEMMA ListOfLength ==
    ASSUME NEW n \in Nat, NEW f \in [1..n -> PoolTenants]
    PROVE  f \in Seq(PoolTenants) /\ Len(f) = n
OBVIOUS

LEMMA ListLength ==
    ASSUME NEW f \in Seq(PoolTenants)
    PROVE  Len(f) \in Nat /\ f \in [1..Len(f) -> PoolTenants] /\ Listed(f) \subseteq PoolTenants
BY DEF Listed

\* Removing a tenant from the list leaves the others, each once.
LEMMA WithoutFits ==
    ASSUME NEW order, NEW S, OrderFits(order, S), NEW t \in S
    PROVE  /\ OrderFits(Without(order, t), S \ {t})
           /\ Len(Without(order, t)) = Len(order) - 1 /\ Len(order) \in Nat \ {0}
<1> DEFINE n == Len(order)
<1>1. /\ n \in Nat /\ order \in [1..n -> PoolTenants]
      /\ \A j, k \in 1..n : order[j] = order[k] => j = k
      /\ \A u : u \in S <=> \E j \in 1..n : order[j] = u
  BY ListLength DEF OrderFits, Listed
<1>2. PICK i : i = CHOOSE j \in 1..n : order[j] = t
  OBVIOUS
<1>3. i \in 1..n /\ order[i] = t
  BY <1>1, <1>2
<1> DEFINE f == [j \in 1..(n - 1) |-> IF j < i THEN order[j] ELSE order[j + 1]]
<1>4. Without(order, t) = f
  BY <1>2, <1>3 DEF Without, Listed
<1> HIDE DEF n
<1>5. n - 1 \in Nat /\ n # 0
  BY <1>1, <1>3
<1>6. \A j \in 1..(n - 1) : /\ j \in 1..n /\ j + 1 \in 1..n
                            /\ j < i => f[j] = order[j]
                            /\ ~(j < i) => f[j] = order[j + 1]
  BY <1>1, <1>5
<1>7. f \in Seq(PoolTenants) /\ Len(f) = n - 1
  <2>1. f \in [1..(n - 1) -> PoolTenants]
    BY <1>1, <1>6
  <2> HIDE DEF f
  <2> QED
    BY <1>5, <2>1, ListOfLength
<1> HIDE DEF f
<1>8. ASSUME NEW j \in 1..(n - 1), NEW k \in 1..(n - 1), f[j] = f[k] PROVE j = k
  BY <1>1, <1>3, <1>6, <1>8
<1>9. ASSUME NEW u \in S, u # t PROVE \E j \in 1..(n - 1) : f[j] = u
  <2>1. PICK k \in 1..n : order[k] = u
    BY <1>1
  <2>2. k # i
    BY <1>3, <1>9, <2>1
  <2>3. CASE k < i
    <3>1. k \in 1..(n - 1)
      BY <1>1, <1>3, <2>3
    <3> QED
      BY <1>6, <2>1, <2>3, <3>1
  <2>4. CASE k > i
    <3>1. k - 1 \in 1..(n - 1) /\ ~(k - 1 < i) /\ (k - 1) + 1 = k
      BY <1>1, <1>3, <2>4
    <3> QED
      BY <1>6, <2>1, <3>1
  <2> QED
    BY <1>3, <2>2, <2>3, <2>4
<1>10. ASSUME NEW j \in 1..(n - 1) PROVE f[j] \in S \ {t}
  <2>1. CASE j < i
    BY <1>1, <1>3, <1>6, <2>1
  <2>2. CASE ~(j < i)
    <3>1. j + 1 \in 1..n /\ j + 1 # i
      BY <1>1, <1>3, <2>2
    <3> QED
      BY <1>1, <1>3, <1>6, <2>2, <3>1
  <2> QED
    BY <2>1, <2>2
<1>11. Listed(f) = S \ {t}
  BY <1>7, <1>9, <1>10 DEF Listed
<1> QED
  BY <1>1, <1>4, <1>5, <1>7, <1>8, <1>11 DEF OrderFits, n

\* A tenant put in front of the others.
LEMMA InFrontFits ==
    ASSUME NEW order, NEW S, OrderFits(order, S), NEW t \in PoolTenants, t \notin S
    PROVE  /\ OrderFits(InFront(order, t), S \cup {t})
           /\ Len(InFront(order, t)) = Len(order) + 1 /\ Len(order) \in Nat
           /\ InFront(order, t)[1] = t
<1> DEFINE n == Len(order)
           f == InFront(order, t)
<1>1. /\ n \in Nat /\ order \in [1..n -> PoolTenants]
      /\ \A j, k \in 1..n : order[j] = order[k] => j = k
      /\ \A u : u \in S <=> \E j \in 1..n : order[j] = u
  BY ListLength DEF OrderFits, Listed
<1> HIDE DEF n
<1>2. \A i \in 1..(n + 1) : /\ i # 1 => i - 1 \in 1..n /\ f[i] = order[i - 1]
                            /\ i = 1 => f[i] = t
  BY <1>1 DEF InFront, n
<1>3. f \in [1..(n + 1) -> PoolTenants]
  BY <1>1 DEF InFront, n
<1> HIDE DEF f
<1>4. f \in Seq(PoolTenants) /\ Len(f) = n + 1
  BY <1>1, <1>3, ListOfLength
<1>5. ASSUME NEW j \in 1..(n + 1), NEW k \in 1..(n + 1), f[j] = f[k] PROVE j = k
  BY <1>1, <1>2, <1>5
<1>6. ASSUME NEW u \in S PROVE \E i \in 1..(n + 1) : f[i] = u
  <2>1. PICK k \in 1..n : order[k] = u
    BY <1>1
  <2>2. k + 1 \in 1..(n + 1) /\ k + 1 # 1 /\ (k + 1) - 1 = k
    BY <1>1
  <2> QED
    BY <1>2, <2>1, <2>2
<1>7. 1 \in 1..(n + 1) /\ f[1] = t
  BY <1>1, <1>2
<1>8. \A i \in 1..(n + 1) : f[i] \in S \cup {t}
  BY <1>1, <1>2
<1>9. Listed(f) = S \cup {t}
  BY <1>4, <1>6, <1>7, <1>8 DEF Listed
<1> QED
  BY <1>1, <1>4, <1>5, <1>7, <1>9 DEF OrderFits, n, f

LEMMA MoveToFrontFits ==
    ASSUME NEW order, NEW S, OrderFits(order, S), NEW t \in S
    PROVE  OrderFits(MoveToFront(order, t), S) /\ Len(MoveToFront(order, t)) = Len(order)
<1>1. /\ OrderFits(Without(order, t), S \ {t})
      /\ Len(Without(order, t)) = Len(order) - 1 /\ Len(order) \in Nat
  BY WithoutFits
<1>2. t \in PoolTenants
  BY ListLength DEF OrderFits
<1>3. /\ OrderFits(MoveToFront(order, t), (S \ {t}) \cup {t})
      /\ Len(MoveToFront(order, t)) = (Len(order) - 1) + 1
  BY <1>1, <1>2, InFrontFits DEF MoveToFront
<1>4. (S \ {t}) \cup {t} = S
  OBVIOUS
<1>5. (Len(order) - 1) + 1 = Len(order)
  BY <1>1
<1> QED
  BY <1>3, <1>4, <1>5, ZenonT(30)

-----------------------------------------------------------------------------
(* The pool as a value *)

\* What a change of the pool leaves to those who use or have built a backend.
KeepsUsed(pool, next, used, built) ==
    \A b \in PoolBackends : used[b] > 0 \/ b \in built =>
        /\ next.entry[b].tenant = pool.entry[b].tenant
        /\ next.entry[b].policy = pool.entry[b].policy

Counts == [PoolBackends -> Nat]

\* removeLocked: the entry of a tenant leaves map and list; it is closed only
\* when nobody uses it.
LEMMA RemoveLockedFits ==
    ASSUME NEW pool, NEW used \in Counts, NEW built, PoolFits(pool, used, built),
           NEW t \in PoolTenants, pool.items[t] # None
    PROVE  LET next == RemoveLocked(pool, t) IN
           /\ PoolFits(next, used, built) /\ KeepsUsed(pool, next, used, built)
           /\ next.items = [pool.items EXCEPT ![t] = None]
           /\ Len(next.order) = Len(pool.order) - 1 /\ Len(pool.order) \in Nat \ {0}
           /\ t \notin Listed(next.order)
<1> DEFINE b == pool.items[t]
           e == pool.entry[b]
           items == [pool.items EXCEPT ![t] = None]
           order == Without(pool.order, t)
           entry == [pool.entry EXCEPT ![b] = IF e.refs = 0 THEN None ELSE [e EXCEPT !.retired = TRUE]]
           next == RemoveLocked(pool, t)
<1>1. next.items = items /\ next.order = order /\ next.entry = entry
      /\ next = [items |-> next.items, order |-> next.order, entry |-> next.entry]
  BY DEF RemoveLocked
<1>2. /\ pool.items \in [PoolTenants -> PoolBackends \cup {None}]
      /\ pool.entry \in [PoolBackends -> EntryRecord \cup {None}]
      /\ OrderFits(pool.order, Mapped(pool.items))
      /\ MapFits(pool.items, pool.entry, built)
      /\ \A d \in PoolBackends : EntryFits(pool.items, pool.entry, used, built, d)
  BY DEF PoolFits
<1>3. b \in PoolBackends /\ t \in Mapped(pool.items)
  BY <1>2 DEF Mapped
<1>4. e \in EntryRecord /\ e.tenant = t /\ ~e.retired /\ b \notin built /\ e.refs = used[b] /\ e # None
  BY <1>2, <1>3 DEF MapFits, EntryFits
<1>5. [e EXCEPT !.retired = TRUE] \in EntryRecord
      /\ [e EXCEPT !.retired = TRUE].tenant = e.tenant /\ [e EXCEPT !.retired = TRUE].policy = e.policy
      /\ [e EXCEPT !.retired = TRUE].refs = e.refs /\ [e EXCEPT !.retired = TRUE].retired
  BY <1>4, ZenonT(30) DEF EntryRecord
<1>6. /\ items \in [PoolTenants -> PoolBackends \cup {None}]
      /\ \A u \in PoolTenants : items[u] = IF u = t THEN None ELSE pool.items[u]
  BY <1>2
<1>7. /\ entry \in [PoolBackends -> EntryRecord \cup {None}]
      /\ \A d \in PoolBackends \ {b} : entry[d] = pool.entry[d]
      /\ used[b] = 0 => entry[b] = None
      /\ used[b] # 0 => /\ entry[b] \in EntryRecord /\ entry[b] # None /\ entry[b].retired /\ entry[b].refs = e.refs
                        /\ entry[b].tenant = e.tenant /\ entry[b].policy = e.policy
  BY <1>2, <1>3, <1>4, <1>5, PoolAssumption, ZenonT(30)
<1>8. Mapped(items) = Mapped(pool.items) \ {t}
  BY <1>6 DEF Mapped
<1>9. /\ OrderFits(order, Mapped(items)) /\ Len(order) = Len(pool.order) - 1 /\ Len(pool.order) \in Nat \ {0}
      /\ t \notin Listed(order)
  <2>1. /\ OrderFits(order, Mapped(pool.items) \ {t})
        /\ Len(order) = Len(pool.order) - 1 /\ Len(pool.order) \in Nat \ {0}
    BY <1>2, <1>3, WithoutFits, ZenonT(30)
  <2> HIDE DEF order, items
  <2> QED
    BY <1>8, <2>1, ZenonT(30) DEF OrderFits
<1> HIDE DEF b, e, items, order, entry, next
<1>10. \A u \in Mapped(items) : pool.items[u] = items[u] /\ items[u] # b /\ items[u] \in PoolBackends
  <2> SUFFICES ASSUME NEW u \in Mapped(items) PROVE pool.items[u] = items[u] /\ items[u] # b /\ items[u] \in PoolBackends
    OBVIOUS
  <2>1. u # t /\ u \in PoolTenants /\ u \in Mapped(pool.items) /\ items[u] = pool.items[u]
    BY <1>6, <1>8 DEF Mapped
  <2>2. pool.entry[pool.items[u]].tenant = u
    BY <1>2, <2>1 DEF MapFits
  <2>3. pool.entry[b].tenant = t
    BY <1>4 DEF e
  <2>4. items[u] # None /\ items[u] \in PoolBackends \cup {None}
    BY <1>6, <2>1 DEF Mapped
  <2> QED
    BY <2>1, <2>2, <2>3, <2>4
<1>11. MapFits(items, entry, built)
  BY <1>2, <1>7, <1>8, <1>10 DEF MapFits
<1>12. ASSUME NEW d \in PoolBackends PROVE EntryFits(items, entry, used, built, d)
  <2>1. CASE d = b
    BY <1>4, <1>7, <2>1 DEF EntryFits, Counts
  <2>2. CASE d # b
    <3>1. entry[d] = pool.entry[d] /\ EntryFits(pool.items, pool.entry, used, built, d)
      BY <1>2, <1>7, <2>2
    <3>2. ASSUME NEW u \in PoolTenants, pool.items[u] = d PROVE items[u] = d
      BY <1>6, <2>2, <3>2 DEF b
    <3> QED
      BY <3>1, <3>2 DEF EntryFits
  <2> QED
    BY <2>1, <2>2
<1>13. PoolFits(next, used, built)
  BY <1>1, <1>6, <1>7, <1>9, <1>11, <1>12 DEF PoolFits
<1>14. KeepsUsed(pool, next, used, built)
  BY <1>1, <1>4, <1>7 DEF KeepsUsed, Counts, e
<1> QED
  BY <1>1, <1>9, <1>13, <1>14 DEF next, items, order

LEMMA RemoveIfPresentFits ==
    ASSUME NEW pool, NEW used \in Counts, NEW built, PoolFits(pool, used, built), NEW t \in PoolTenants
    PROVE  LET next == RemoveIfPresent(pool, t) IN
           /\ PoolFits(next, used, built) /\ KeepsUsed(pool, next, used, built)
           /\ next.items = [pool.items EXCEPT ![t] = None]
           /\ Len(pool.order) \in Nat /\ Len(next.order) \in Nat /\ Len(next.order) <= Len(pool.order)
<1>1. CASE pool.items[t] = None
  <2>1. RemoveIfPresent(pool, t) = pool
    BY <1>1 DEF RemoveIfPresent
  <2>2. [pool.items EXCEPT ![t] = None] = pool.items
    BY <1>1 DEF PoolFits
  <2>3. Len(pool.order) \in Nat
    BY ListLength DEF PoolFits, OrderFits
  <2> QED
    BY <2>1, <2>2, <2>3 DEF KeepsUsed
<1>2. CASE pool.items[t] # None
  <2>1. RemoveIfPresent(pool, t) = RemoveLocked(pool, t)
    BY <1>2, ZenonT(30) DEF RemoveIfPresent
  <2>2. /\ PoolFits(RemoveLocked(pool, t), used, built) /\ KeepsUsed(pool, RemoveLocked(pool, t), used, built)
        /\ RemoveLocked(pool, t).items = [pool.items EXCEPT ![t] = None]
        /\ Len(RemoveLocked(pool, t).order) = Len(pool.order) - 1 /\ Len(pool.order) \in Nat \ {0}
    BY <1>2, RemoveLockedFits, ZenonT(30)
  <2>3. Len(pool.order) \in Nat /\ Len(pool.order) - 1 \in Nat /\ Len(pool.order) - 1 <= Len(pool.order)
    BY <2>2
  <2> QED
    BY <2>1, <2>2, <2>3, ZenonT(30)
<1> QED
  BY <1>1, <1>2, ZenonT(30)

\* The insert of a backend a caller has built: it goes from the caller's hands
\* into the map.
Inserted(pool, t, b) ==
    [items |-> [pool.items EXCEPT ![t] = b], order |-> InFront(pool.order, t), entry |-> pool.entry]

Insertable(pool, used, built, t, b) ==
    /\ PoolFits(pool, used, built) /\ b \in built
    /\ pool.items[t] = None /\ pool.entry[b].tenant = t

InsertDone(pool, used, built, t, b) ==
    /\ PoolFits(Inserted(pool, t, b), used, built \ {b}) /\ Inserted(pool, t, b).entry = pool.entry
    /\ Inserted(pool, t, b).items = [pool.items EXCEPT ![t] = b]
    /\ Len(Inserted(pool, t, b).order) = Len(pool.order) + 1 /\ Len(pool.order) \in Nat
    /\ Inserted(pool, t, b).order[1] = t

LEMMA InsertedFits ==
    ASSUME NEW pool, NEW used \in Counts, NEW built, NEW t \in PoolTenants, NEW b \in PoolBackends,
           Insertable(pool, used, built, t, b)
    PROVE  InsertDone(pool, used, built, t, b)
<1>a. PoolFits(pool, used, built) /\ b \in built /\ pool.items[t] = None /\ pool.entry[b].tenant = t
  BY DEF Insertable
<1> USE <1>a
<1> DEFINE items == [pool.items EXCEPT ![t] = b]
           order == InFront(pool.order, t)
           next == Inserted(pool, t, b)
<1>1. /\ pool = [items |-> pool.items, order |-> pool.order, entry |-> pool.entry]
      /\ pool.items \in [PoolTenants -> PoolBackends \cup {None}]
      /\ pool.entry \in [PoolBackends -> EntryRecord \cup {None}]
      /\ OrderFits(pool.order, Mapped(pool.items))
      /\ MapFits(pool.items, pool.entry, built)
      /\ \A d \in PoolBackends : EntryFits(pool.items, pool.entry, used, built, d)
  BY DEF PoolFits
<1>2. next = [items |-> items, order |-> order, entry |-> pool.entry]
  BY DEF Inserted
<1>3. /\ next.items = items /\ next.order = order /\ next.entry = pool.entry
      /\ next = [items |-> next.items, order |-> next.order, entry |-> next.entry]
  BY <1>2
<1>4. /\ items \in [PoolTenants -> PoolBackends \cup {None}]
      /\ \A u \in PoolTenants : items[u] = IF u = t THEN b ELSE pool.items[u]
  BY <1>1
<1>5. b # None /\ t \notin Mapped(pool.items)
  BY PoolAssumption DEF Mapped
<1> HIDE DEF items, order, next
<1>6. Mapped(items) = Mapped(pool.items) \cup {t}
  BY <1>4, <1>5 DEF Mapped
<1>7. /\ OrderFits(order, Mapped(items)) /\ Len(order) = Len(pool.order) + 1 /\ Len(pool.order) \in Nat
      /\ order[1] = t
  <2>1. /\ OrderFits(order, Mapped(pool.items) \cup {t})
        /\ Len(order) = Len(pool.order) + 1 /\ Len(pool.order) \in Nat /\ order[1] = t
    BY <1>1, <1>5, InFrontFits, ZenonT(30) DEF order
  <2> QED
    BY <1>6, <2>1, ZenonT(30)
<1>8. pool.entry[b] # None /\ ~pool.entry[b].retired
  BY <1>1 DEF EntryFits
<1>9. ASSUME NEW u \in Mapped(items)
      PROVE  /\ pool.entry[items[u]] # None /\ pool.entry[items[u]].tenant = u /\ ~pool.entry[items[u]].retired
             /\ items[u] \notin built \ {b}
  <2>1. CASE u = t
    BY <1>4, <1>8, <2>1
  <2>2. CASE u # t
    <3>1. u \in Mapped(pool.items) /\ items[u] = pool.items[u]
      BY <1>4, <1>6, <2>2 DEF Mapped
    <3> QED
      BY <1>1, <3>1 DEF MapFits
  <2> QED
    BY <2>1, <2>2
<1>10. ASSUME NEW d \in PoolBackends PROVE EntryFits(items, pool.entry, used, built \ {b}, d)
  <2>1. EntryFits(pool.items, pool.entry, used, built, d)
    BY <1>1
  <2>2. ASSUME NEW u \in PoolTenants, pool.items[u] = d PROVE items[u] = d
    BY <1>4, <1>5, <2>2, PoolAssumption
  <2>3. items[t] = b
    BY <1>4
  <2> QED
    BY <2>1, <2>2, <2>3 DEF EntryFits
<1>11. PoolFits(next, used, built \ {b})
  <2>1. MapFits(items, pool.entry, built \ {b})
    BY <1>9, ZenonT(30) DEF MapFits
  <2> QED
    BY <1>1, <1>3, <1>4, <1>7, <1>10, <2>1 DEF PoolFits
<1> QED
  BY <1>3, <1>7, <1>11 DEF items, next, InsertDone

\* The eviction after an insert: never of the tenant just put in front, and
\* the pool is within its limit again.
LEMMA EvictFits ==
    ASSUME NEW pool, NEW used \in Counts, NEW built, PoolFits(pool, used, built),
           Len(pool.order) <= PoolMaxSize + 1, Len(pool.order) \in Nat \ {0},
           NEW t \in PoolTenants, pool.order[1] = t
    PROVE  LET next == Evict(pool) IN
           /\ PoolFits(next, used, built) /\ KeepsUsed(pool, next, used, built)
           /\ next.items[t] = pool.items[t] /\ next.entry[pool.items[t]] = pool.entry[pool.items[t]]
           /\ \A u \in PoolTenants : next.items[u] \in {pool.items[u], None}
           /\ Len(next.order) <= PoolMaxSize
<1>1. PoolMaxSize \in Nat \ {0}
  BY PoolAssumption
<1>2. CASE ~(Len(pool.order) > PoolMaxSize)
  <2>1. Evict(pool) = pool
    BY <1>2, ZenonT(30) DEF Evict
  <2>2. Len(pool.order) <= PoolMaxSize
    BY <1>1, <1>2
  <2> QED
    BY <2>1, <2>2 DEF KeepsUsed
<1>3. CASE Len(pool.order) > PoolMaxSize
  <2>1. PICK n, u : n = Len(pool.order) /\ u = pool.order[n]
    BY ZenonT(30)
  <2>2. Evict(pool) = RemoveLocked(pool, u)
    BY <1>3, <2>1, ZenonT(30) DEF Evict
  <2>3. n \in Nat \ {0} /\ n # 1 /\ n \in 1..n /\ 1 \in 1..n /\ n - 1 <= PoolMaxSize
    BY <1>1, <1>3, <2>1
  <2>4. OrderFits(pool.order, Mapped(pool.items))
    BY DEF PoolFits
  <2>5. u # t /\ u \in Mapped(pool.items)
    BY <2>1, <2>3, <2>4, ZenonT(30) DEF OrderFits, Listed
  <2>6. u \in PoolTenants /\ pool.items[u] # None
    BY <2>5 DEF Mapped
  <2>7. /\ PoolFits(RemoveLocked(pool, u), used, built) /\ KeepsUsed(pool, RemoveLocked(pool, u), used, built)
        /\ RemoveLocked(pool, u).items = [pool.items EXCEPT ![u] = None]
        /\ Len(RemoveLocked(pool, u).order) = n - 1
    BY <2>1, <2>6, RemoveLockedFits, ZenonT(30)
  <2>8. \A v \in PoolTenants : [pool.items EXCEPT ![u] = None][v] = IF v = u THEN None ELSE pool.items[v]
    BY DEF PoolFits
  <2>9. pool.items[u] # pool.items[t]
    <3>1. 1 \in 1..Len(pool.order)
      BY <2>1, <2>3
    <3>2. t \in Mapped(pool.items)
      BY <2>4, <3>1 DEF OrderFits, Listed
    <3> QED
      BY <2>5, <3>2 DEF PoolFits, MapFits
  <2>10. RemoveLocked(pool, u).entry[pool.items[t]] = pool.entry[pool.items[t]]
    BY <2>9 DEF RemoveLocked, PoolFits
  <2> QED
    BY <2>2, <2>3, <2>5, <2>7, <2>8, <2>10
<1> QED
  BY <1>2, <1>3

\* One more user of an entry of the map.
PinDone(pool, used, built, b) ==
    /\ PoolFits(Pinned(pool, b), [used EXCEPT ![b] = used[b] + 1], built)
    /\ \A d \in PoolBackends :
          /\ pool.entry[d] = None <=> Pinned(pool, b).entry[d] = None
          /\ Pinned(pool, b).entry[d].tenant = pool.entry[d].tenant \/ pool.entry[d] = None
          /\ Pinned(pool, b).entry[d].policy = pool.entry[d].policy \/ pool.entry[d] = None
    /\ Pinned(pool, b).items = pool.items /\ Pinned(pool, b).order = pool.order

LEMMA PinnedFits ==
    ASSUME NEW pool, NEW used \in Counts, NEW built, PoolFits(pool, used, built),
           NEW t \in PoolTenants, NEW b \in PoolBackends, pool.items[t] = b
    PROVE  PinDone(pool, used, built, b)
<1> DEFINE e == pool.entry[b]
           f == [e EXCEPT !.refs = e.refs + 1]
           entry == [pool.entry EXCEPT ![b] = f]
           used2 == [used EXCEPT ![b] = used[b] + 1]
           next == Pinned(pool, b)
<1>1. /\ next.items = pool.items /\ next.order = pool.order /\ next.entry = entry
      /\ next = [items |-> next.items, order |-> next.order, entry |-> next.entry]
  BY DEF Pinned
<1>2. /\ pool.items \in [PoolTenants -> PoolBackends \cup {None}]
      /\ pool.entry \in [PoolBackends -> EntryRecord \cup {None}]
      /\ OrderFits(pool.order, Mapped(pool.items))
      /\ MapFits(pool.items, pool.entry, built)
      /\ \A d \in PoolBackends : EntryFits(pool.items, pool.entry, used, built, d)
  BY DEF PoolFits
<1>3. b # None /\ t \in Mapped(pool.items)
  BY PoolAssumption DEF Mapped
<1>4. e \in EntryRecord /\ e.tenant = t /\ ~e.retired /\ b \notin built /\ e.refs = used[b] /\ e # None
  BY <1>2, <1>3 DEF MapFits, EntryFits
<1>5. f \in EntryRecord /\ f.tenant = t /\ ~f.retired /\ f.refs = used[b] + 1 /\ f.policy = e.policy /\ f # None
  BY <1>4, PoolAssumption DEF EntryRecord
<1> HIDE DEF f, e
<1>6. /\ entry \in [PoolBackends -> EntryRecord \cup {None}] /\ entry[b] = f
      /\ \A d \in PoolBackends \ {b} : entry[d] = pool.entry[d]
  BY <1>2, <1>5
<1>7. used2[b] = used[b] + 1 /\ used[b] + 1 > 0 /\ \A d \in PoolBackends \ {b} : used2[d] = used[d]
  BY DEF Counts
<1> HIDE DEF entry, used2, next
<1>8. MapFits(pool.items, entry, built)
  <2> SUFFICES ASSUME NEW u \in Mapped(pool.items)
               PROVE  /\ entry[pool.items[u]] # None /\ entry[pool.items[u]].tenant = u /\ ~entry[pool.items[u]].retired
                      /\ pool.items[u] \notin built
    BY DEF MapFits
  <2>1. /\ pool.entry[pool.items[u]].tenant = u /\ ~pool.entry[pool.items[u]].retired /\ pool.entry[pool.items[u]] # None
        /\ pool.items[u] \notin built /\ pool.items[u] \in PoolBackends
    BY <1>2 DEF MapFits, Mapped
  <2>2. CASE pool.items[u] = b
    BY <1>4, <1>5, <1>6, <2>1, <2>2 DEF e
  <2>3. CASE pool.items[u] # b
    BY <1>6, <2>1, <2>3
  <2> QED
    BY <2>2, <2>3
<1>9. ASSUME NEW d \in PoolBackends PROVE EntryFits(pool.items, entry, used2, built, d)
  <2>1. CASE d = b
    BY <1>4, <1>5, <1>6, <1>7, <2>1 DEF EntryFits
  <2>2. CASE d # b
    BY <1>2, <1>6, <1>7, <2>2 DEF EntryFits
  <2> QED
    BY <2>1, <2>2
<1>10. PoolFits(next, used2, built)
  BY <1>1, <1>2, <1>6, <1>8, <1>9 DEF PoolFits
<1>11. \A d \in PoolBackends : /\ pool.entry[d] = None <=> entry[d] = None
                               /\ entry[d].tenant = pool.entry[d].tenant \/ pool.entry[d] = None
                               /\ entry[d].policy = pool.entry[d].policy \/ pool.entry[d] = None
  BY <1>4, <1>5, <1>6 DEF e
<1> QED
  BY <1>1, <1>10, <1>11 DEF next, used2, PinDone

\* A tenant of the map moves to the front of the list.
LEMMA MovedFits ==
    ASSUME NEW pool, NEW used, NEW built, PoolFits(pool, used, built), NEW t \in PoolTenants, pool.items[t] # None
    PROVE  LET next == [items |-> pool.items, order |-> MoveToFront(pool.order, t), entry |-> pool.entry] IN
           PoolFits(next, used, built) /\ Len(next.order) = Len(pool.order)
<1> DEFINE order == MoveToFront(pool.order, t)
<1>1. t \in Mapped(pool.items) /\ OrderFits(pool.order, Mapped(pool.items))
  BY DEF Mapped, PoolFits
<1>2. OrderFits(order, Mapped(pool.items)) /\ Len(order) = Len(pool.order)
  BY <1>1, MoveToFrontFits, ZenonT(30)
<1>3. PICK next : next = [items |-> pool.items, order |-> order, entry |-> pool.entry]
  BY ZenonT(30)
<1> HIDE DEF order
<1>4. next.items = pool.items /\ next.order = order /\ next.entry = pool.entry
  BY <1>3
<1>5. PoolFits(next, used, built) /\ Len(next.order) = Len(pool.order)
  BY <1>2, <1>3, <1>4 DEF PoolFits
<1> QED
  BY <1>3, <1>5 DEF order

\* The backend of a caller that lost the race is closed.
LEMMA DiscardedFits ==
    ASSUME NEW pool, NEW used \in Counts, NEW built, PoolFits(pool, used, built), NEW b \in PoolBackends, b \in built
    PROVE  PoolFits([items |-> pool.items, order |-> pool.order, entry |-> [pool.entry EXCEPT ![b] = None]],
                    used, built \ {b})
<1> DEFINE entry == [pool.entry EXCEPT ![b] = None]
<1>1. /\ pool.items \in [PoolTenants -> PoolBackends \cup {None}]
      /\ pool.entry \in [PoolBackends -> EntryRecord \cup {None}]
      /\ OrderFits(pool.order, Mapped(pool.items))
      /\ MapFits(pool.items, pool.entry, built)
      /\ \A d \in PoolBackends : EntryFits(pool.items, pool.entry, used, built, d)
  BY DEF PoolFits
<1>2. /\ entry \in [PoolBackends -> EntryRecord \cup {None}] /\ entry[b] = None
      /\ \A d \in PoolBackends \ {b} : entry[d] = pool.entry[d]
  BY <1>1
<1>3. used[b] = 0
  BY <1>1 DEF EntryFits
<1> HIDE DEF entry
<1>4. MapFits(pool.items, entry, built \ {b})
  <2>1. \A u \in Mapped(pool.items) : pool.items[u] \in PoolBackends
    BY <1>1 DEF Mapped
  <2> QED
    BY <1>1, <1>2, <2>1 DEF MapFits
<1>5. \A d \in PoolBackends : EntryFits(pool.items, entry, used, built \ {b}, d)
  BY <1>1, <1>2, <1>3 DEF EntryFits
<1>6. PICK next : next = [items |-> pool.items, order |-> pool.order, entry |-> entry]
  BY ZenonT(30)
<1>7. PoolFits(next, used, built \ {b})
  BY <1>1, <1>2, <1>4, <1>5, <1>6 DEF PoolFits
<1> QED
  BY <1>6, <1>7 DEF entry

\* A new backend is in the hands of the caller that built it.
LEMMA CreatedFits ==
    ASSUME NEW pool, NEW used \in Counts, NEW built, PoolFits(pool, used, built), NEW b \in PoolBackends,
           pool.entry[b] = None, NEW e \in EntryRecord, e.refs = 0, ~e.retired
    PROVE  PoolFits([items |-> pool.items, order |-> pool.order, entry |-> [pool.entry EXCEPT ![b] = e]],
                    used, built \cup {b})
<1> DEFINE entry == [pool.entry EXCEPT ![b] = e]
<1>1. /\ pool.items \in [PoolTenants -> PoolBackends \cup {None}]
      /\ pool.entry \in [PoolBackends -> EntryRecord \cup {None}]
      /\ OrderFits(pool.order, Mapped(pool.items))
      /\ MapFits(pool.items, pool.entry, built)
      /\ \A d \in PoolBackends : EntryFits(pool.items, pool.entry, used, built, d)
  BY DEF PoolFits
<1>2. /\ entry \in [PoolBackends -> EntryRecord \cup {None}] /\ entry[b] = e
      /\ \A d \in PoolBackends \ {b} : entry[d] = pool.entry[d]
  BY <1>1
<1>3. used[b] = 0 /\ e # None
  BY <1>1, PoolAssumption DEF EntryFits
<1> HIDE DEF entry
<1>4. MapFits(pool.items, entry, built \cup {b})
  <2>1. \A u \in Mapped(pool.items) : pool.items[u] \in PoolBackends \ {b}
    BY <1>1 DEF Mapped, MapFits
  <2> QED
    BY <1>1, <1>2, <2>1 DEF MapFits
<1>5. \A d \in PoolBackends : EntryFits(pool.items, entry, used, built \cup {b}, d)
  BY <1>1, <1>2, <1>3 DEF EntryFits
<1>6. PICK next : next = [items |-> pool.items, order |-> pool.order, entry |-> entry]
  BY ZenonT(30)
<1>7. PoolFits(next, used, built \cup {b})
  BY <1>1, <1>2, <1>4, <1>5, <1>6, ZenonT(30) DEF PoolFits
<1> QED
  BY <1>6, <1>7 DEF entry

\* releaseEntry: one user less; the last user of a retired entry closes it.
LEMMA ReleasedFits ==
    ASSUME NEW pool, NEW used \in Counts, NEW built, PoolFits(pool, used, built), NEW b \in PoolBackends, used[b] > 0
    PROVE  LET e == [pool.entry[b] EXCEPT !.refs = pool.entry[b].refs - 1]
               entry == [pool.entry EXCEPT ![b] = IF e.refs = 0 /\ e.retired THEN None ELSE e]
               next == [items |-> pool.items, order |-> pool.order, entry |-> entry]
               less == [used EXCEPT ![b] = used[b] - 1]
           IN  PoolFits(next, less, built) /\ KeepsUsed(pool, next, less, built)
<1> DEFINE o == pool.entry[b]
           e == [o EXCEPT !.refs = o.refs - 1]
           x == IF e.refs = 0 /\ e.retired THEN None ELSE e
           entry == [pool.entry EXCEPT ![b] = x]
           less == [used EXCEPT ![b] = used[b] - 1]
           next == [items |-> pool.items, order |-> pool.order, entry |-> entry]
<1>1. /\ pool.items \in [PoolTenants -> PoolBackends \cup {None}]
      /\ pool.entry \in [PoolBackends -> EntryRecord \cup {None}]
      /\ OrderFits(pool.order, Mapped(pool.items))
      /\ MapFits(pool.items, pool.entry, built)
      /\ \A d \in PoolBackends : EntryFits(pool.items, pool.entry, used, built, d)
  BY DEF PoolFits
<1>2. /\ o # None /\ o \in EntryRecord /\ o.refs = used[b] /\ b \notin built
      /\ (\E t \in PoolTenants : pool.items[t] = b) \/ o.retired
  BY <1>1 DEF EntryFits, Counts
<1>3. used[b] - 1 \in Nat
  BY DEF Counts
<1>4. /\ e \in EntryRecord /\ e.refs = used[b] - 1 /\ e.retired = o.retired
      /\ e.tenant = o.tenant /\ e.policy = o.policy /\ e # None
  BY <1>2, <1>3, PoolAssumption DEF EntryRecord
<1> HIDE DEF e, o
<1>5. x \in EntryRecord \cup {None} /\ (x = None <=> used[b] - 1 = 0 /\ o.retired) /\ (x # None => x = e)
  BY <1>4
<1> HIDE DEF x
<1>6. /\ entry \in [PoolBackends -> EntryRecord \cup {None}] /\ entry[b] = x
      /\ \A d \in PoolBackends \ {b} : entry[d] = pool.entry[d]
  BY <1>1, <1>5
<1>7. less[b] = used[b] - 1 /\ \A d \in PoolBackends \ {b} : less[d] = used[d]
  BY DEF Counts
<1>8. /\ next = [items |-> next.items, order |-> next.order, entry |-> next.entry]
      /\ next.items = pool.items /\ next.order = pool.order /\ next.entry = entry
  OBVIOUS
<1> HIDE DEF entry, less, next
<1>9. MapFits(pool.items, entry, built)
  <2> SUFFICES ASSUME NEW u \in Mapped(pool.items)
               PROVE  /\ entry[pool.items[u]] # None /\ entry[pool.items[u]].tenant = u /\ ~entry[pool.items[u]].retired
                      /\ pool.items[u] \notin built
    BY DEF MapFits
  <2>1. /\ pool.entry[pool.items[u]].tenant = u /\ ~pool.entry[pool.items[u]].retired /\ pool.entry[pool.items[u]] # None
        /\ pool.items[u] \notin built /\ pool.items[u] \in PoolBackends
    BY <1>1 DEF MapFits, Mapped
  <2>2. CASE pool.items[u] = b
    BY <1>4, <1>5, <1>6, <2>1, <2>2 DEF o
  <2>3. CASE pool.items[u] # b
    BY <1>6, <2>1, <2>3
  <2> QED
    BY <2>2, <2>3
<1>10. ASSUME NEW d \in PoolBackends PROVE EntryFits(pool.items, entry, less, built, d)
  <2>1. CASE d = b
    <3>1. CASE x = None
      BY <1>2, <1>5, <1>6, <1>7, <2>1, <3>1 DEF EntryFits
    <3>2. CASE x # None
      <4>1. entry[d] = e /\ less[d] = used[b] - 1 /\ ~(used[b] - 1 = 0 /\ o.retired)
        BY <1>5, <1>6, <1>7, <2>1, <3>2
      <4>2. o.retired => less[d] > 0
        <5> SUFFICES ASSUME o.retired PROVE less[d] > 0
          OBVIOUS
        <5>1. less[d] # 0 /\ less[d] \in Nat
          BY <1>3, <4>1, ZenonT(30)
        <5> QED
          BY <5>1
      <4> QED
        BY <1>2, <1>4, <2>1, <4>1, <4>2 DEF EntryFits
    <3> QED
      BY <3>1, <3>2
  <2>2. CASE d # b
    BY <1>1, <1>6, <1>7, <2>2 DEF EntryFits
  <2> QED
    BY <2>1, <2>2
<1>11. PoolFits(next, less, built)
  BY <1>1, <1>6, <1>8, <1>9, <1>10 DEF PoolFits
<1>12. KeepsUsed(pool, next, less, built)
  BY <1>2, <1>3, <1>4, <1>5, <1>6, <1>7, <1>8 DEF KeepsUsed, o
<1> QED
  BY <1>11, <1>12 DEF next, less, entry, x, e, o

\* Close: every entry leaves the map; the ones in use are retired.
LEMMA ClosedFits ==
    ASSUME NEW pool, NEW used \in Counts, NEW built, PoolFits(pool, used, built)
    PROVE  LET next == [items |-> [t \in PoolTenants |-> None], order |-> << >>,
                        entry |-> [b \in PoolBackends |->
                            IF \E t \in PoolTenants : pool.items[t] = b
                            THEN IF pool.entry[b].refs = 0 THEN None ELSE [pool.entry[b] EXCEPT !.retired = TRUE]
                            ELSE pool.entry[b]]]
           IN  PoolFits(next, used, built) /\ KeepsUsed(pool, next, used, built)
<1> DEFINE items == [t \in PoolTenants |-> None]
           closed(b) == IF \E t \in PoolTenants : pool.items[t] = b
                        THEN IF pool.entry[b].refs = 0 THEN None ELSE [pool.entry[b] EXCEPT !.retired = TRUE]
                        ELSE pool.entry[b]
           entry == [b \in PoolBackends |-> closed(b)]
           next == [items |-> items, order |-> << >>, entry |-> entry]
<1>1. /\ pool.items \in [PoolTenants -> PoolBackends \cup {None}]
      /\ pool.entry \in [PoolBackends -> EntryRecord \cup {None}]
      /\ MapFits(pool.items, pool.entry, built)
      /\ \A d \in PoolBackends : EntryFits(pool.items, pool.entry, used, built, d)
  BY DEF PoolFits
<1>2. /\ next = [items |-> next.items, order |-> next.order, entry |-> next.entry]
      /\ next.items = items /\ next.order = << >> /\ next.entry = entry
      /\ \A b \in PoolBackends : entry[b] = closed(b)
      /\ items \in [PoolTenants -> PoolBackends \cup {None}] /\ Mapped(items) = {}
      /\ \A t \in PoolTenants : items[t] = None
  BY DEF Mapped
<1>3. OrderFits(<< >>, {})
  BY DEF OrderFits, Listed
<1> HIDE DEF items
<1>4. ASSUME NEW b \in PoolBackends
      PROVE  /\ closed(b) \in EntryRecord \cup {None}
             /\ EntryFits(items, entry, used, built, b)
             /\ used[b] > 0 \/ b \in built =>
                    closed(b).tenant = pool.entry[b].tenant /\ closed(b).policy = pool.entry[b].policy
  <2>0. entry[b] = closed(b) /\ used[b] \in Nat /\ EntryFits(pool.items, pool.entry, used, built, b)
    BY <1>1, <1>2 DEF Counts
  <2>1. CASE \E t \in PoolTenants : pool.items[t] = b
    <3>1. PICK t \in PoolTenants : pool.items[t] = b
      BY <2>1
    <3>2. t \in Mapped(pool.items)
      BY <3>1, PoolAssumption DEF Mapped
    <3>3. /\ pool.entry[b] # None /\ pool.entry[b] \in EntryRecord /\ pool.entry[b].refs = used[b] /\ b \notin built
      BY <1>1, <2>0, <3>1, <3>2 DEF MapFits, EntryFits
    <3>4. CASE used[b] = 0
      <4>1. closed(b) = None
        BY <2>1, <3>3, <3>4
      <4> HIDE DEF closed, entry
      <4> QED
        BY <2>0, <3>3, <3>4, <4>1 DEF EntryFits
    <3>5. CASE used[b] # 0
      <4> DEFINE e == [pool.entry[b] EXCEPT !.retired = TRUE]
      <4>1. closed(b) = e
        BY <2>1, <3>3, <3>5
      <4>2. e \in EntryRecord /\ e.refs = used[b] /\ e.retired
            /\ e.tenant = pool.entry[b].tenant /\ e.policy = pool.entry[b].policy
        BY <3>3, ZenonT(30) DEF EntryRecord
      <4>3. e # None
        BY <4>2, PoolAssumption, ZenonT(30)
      <4>4. used[b] > 0
        BY <3>5 DEF Counts
      <4> HIDE DEF closed, entry, e
      <4> QED
        BY <2>0, <3>3, <4>1, <4>2, <4>3, <4>4 DEF EntryFits
    <3> QED
      BY <3>4, <3>5
  <2>2. CASE ~\E t \in PoolTenants : pool.items[t] = b
    <3>1. closed(b) = pool.entry[b]
      BY <2>2
    <3>2. pool.entry[b] \in EntryRecord \cup {None}
      BY <1>1
    <3> HIDE DEF closed, entry
    <3>3. EntryFits(items, entry, used, built, b)
      BY <2>0, <2>2, <3>1 DEF EntryFits
    <3> QED
      BY <3>1, <3>2, <3>3
  <2> QED
    BY <2>1, <2>2
<1>5. entry \in [PoolBackends -> EntryRecord \cup {None}]
  BY <1>4, ZenonT(30)
<1>6. KeepsUsed(pool, next, used, built)
  <2> HIDE DEF closed, entry, next
  <2> QED
    BY <1>2, <1>4 DEF KeepsUsed
<1> HIDE DEF closed, entry, next
<1>7. MapFits(items, entry, built)
  BY <1>2 DEF MapFits
<1>8. PoolFits(next, used, built)
  BY <1>2, <1>3, <1>4, <1>5, <1>7 DEF PoolFits
<1> QED
  BY <1>6, <1>8 DEF next, entry, closed, items

-----------------------------------------------------------------------------
(* Callers *)

\* The users of a backend are counted.
LEMMA UsersCounted ==
    ASSUME CallersCount
    PROVE  /\ Used \in Counts
           /\ \A b \in PoolBackends : /\ Used[b] = Cardinality(PoolUsers(b)) /\ Used[b] \in Nat
                                      /\ Used[b] = 0 <=> PoolUsers(b) = {}
<1>1. \A b \in PoolBackends : PoolUsers(b) \in SUBSET PoolCallers
  BY DEF PoolUsers
<1>2. \A b \in PoolBackends : /\ Cardinality(PoolUsers(b)) \in Nat
                              /\ Cardinality(PoolUsers(b)) = 0 <=> PoolUsers(b) = {}
  BY <1>1 DEF CallersCount
<1> QED
  BY <1>2 DEF Used, Counts

LEMMA UsersPrimed ==
    ASSUME CallersCount
    PROVE  \A b \in PoolBackends : (PoolUsers(b)' # {} => Used'[b] # 0) /\ Used'[b] \in Nat
<1>1. \A b \in PoolBackends : PoolUsers(b)' \in SUBSET PoolCallers
  BY DEF PoolUsers
<1>2. \A b \in PoolBackends : /\ Cardinality(PoolUsers(b)') \in Nat
                              /\ Cardinality(PoolUsers(b)') = 0 <=> PoolUsers(b)' = {}
  BY <1>1 DEF CallersCount
<1> QED
  BY <1>2 DEF Used

\* A caller that does not use a backend moves to where it uses none.
LEMMA UsersStay ==
    ASSUME NEW c \in PoolCallers, NEW call, PoolTypes, pcall' = [pcall EXCEPT ![c] = call],
           pcall[c].at # "using", call.at # "using"
    PROVE  Used' = Used /\ \A b : PoolUsers(b)' = PoolUsers(b)
<1>1. pcall'[c] = call /\ \A d \in PoolCallers \ {c} : pcall'[d] = pcall[d]
  BY DEF PoolTypes
<1>2. \A b : PoolUsers(b)' = PoolUsers(b)
  BY <1>1 DEF PoolUsers
<1> QED
  BY <1>2 DEF Used

\* A caller begins to use backend b.
LEMMA UserJoins ==
    ASSUME CallersCount, NEW c \in PoolCallers, NEW call, NEW b \in PoolBackends, PoolTypes, pcall' = [pcall EXCEPT ![c] = call],
           pcall[c].at # "using", call.at = "using", call.entry = b
    PROVE  /\ Used' = [Used EXCEPT ![b] = Used[b] + 1]
           /\ \A d : d # b => PoolUsers(d)' = PoolUsers(d)
<1>1. pcall'[c] = call /\ \A d \in PoolCallers \ {c} : pcall'[d] = pcall[d]
  BY DEF PoolTypes
<1>2. /\ \A d : d # b => PoolUsers(d)' = PoolUsers(d)
      /\ PoolUsers(b)' = PoolUsers(b) \cup {c} /\ c \notin PoolUsers(b)
  BY <1>1 DEF PoolUsers
<1>3. PoolUsers(b) \in SUBSET PoolCallers
  BY DEF PoolUsers
<1>4. Cardinality(PoolUsers(b) \cup {c}) = Cardinality(PoolUsers(b)) + 1
  BY <1>2, <1>3, ZenonT(30) DEF CallersCount
<1>5. Cardinality(PoolUsers(b)') = Cardinality(PoolUsers(b)) + 1
  BY <1>2, <1>4, ZenonT(30)
<1> QED
  BY <1>2, <1>5, ZenonT(30) DEF Used

\* A user of backend b releases it.
LEMMA UserLeaves ==
    ASSUME CallersCount, NEW c \in PoolCallers, NEW call, NEW b \in PoolBackends, PoolTypes, pcall' = [pcall EXCEPT ![c] = call],
           pcall[c].at = "using", pcall[c].entry = b, call.at # "using"
    PROVE  /\ Used' = [Used EXCEPT ![b] = Used[b] - 1] /\ Used[b] > 0
           /\ \A d : d # b => PoolUsers(d)' = PoolUsers(d)
           /\ PoolUsers(b)' \subseteq PoolUsers(b)
<1>1. pcall'[c] = call /\ \A d \in PoolCallers \ {c} : pcall'[d] = pcall[d]
  BY DEF PoolTypes
<1>2. /\ \A d : d # b => PoolUsers(d)' = PoolUsers(d)
      /\ PoolUsers(b)' = PoolUsers(b) \ {c} /\ c \in PoolUsers(b)
  BY <1>1 DEF PoolUsers
<1>3. PoolUsers(b) \in SUBSET PoolCallers
  BY DEF PoolUsers
<1>4. Cardinality(PoolUsers(b) \ {c}) = Cardinality(PoolUsers(b)) - 1
  BY <1>2, <1>3, ZenonT(30) DEF CallersCount
<1>5. Cardinality(PoolUsers(b)') = Cardinality(PoolUsers(b)) - 1
  BY <1>2, <1>4, ZenonT(30)
<1>6. Used[b] # 0 /\ Used[b] \in Nat
  BY <1>2, UsersCounted, ZenonT(30)
<1>7. Used[b] > 0
  BY <1>6
<1> QED
  BY <1>2, <1>5, <1>7, ZenonT(30) DEF Used

LEMMA CountedUsers ==
    ASSUME PoolInv
    PROVE  /\ Used \in Counts /\ CallersCount
           /\ \A b \in PoolBackends : /\ Used[b] = Cardinality(PoolUsers(b)) /\ Used[b] \in Nat
                                      /\ Used[b] = 0 <=> PoolUsers(b) = {}
<1>1. CallersCount
  BY DEF PoolInv
<1> QED
  BY <1>1, UsersCounted

\* What is built but in nobody's map once caller c has moved on.
LeftBuilt(c) == IF pcall[c].at = "created" THEN Built \ {pcall[c].entry} ELSE Built

LEMMA BuiltLeft ==
    ASSUME NEW c \in PoolCallers, NEW call, PoolTypes, OneBuilder, pcall' = [pcall EXCEPT ![c] = call],
           call.at # "created"
    PROVE  Built' = LeftBuilt(c) /\ OneBuilder'
<1>1. pcall'[c] = call /\ \A d \in PoolCallers \ {c} : pcall'[d] = pcall[d]
  BY DEF PoolTypes
<1>2. OneBuilder'
  BY <1>1 DEF OneBuilder
<1>3. \A b \in PoolBackends : b \in Built' <=> \E d \in PoolCallers \ {c} : pcall[d].at = "created" /\ pcall[d].entry = b
  BY <1>1 DEF Built
<1>4. \A b \in PoolBackends : b \in Built <=> \E d \in PoolCallers : pcall[d].at = "created" /\ pcall[d].entry = b
  BY DEF Built
<1>5. \A b \in PoolBackends : b \in Built' <=> b \in LeftBuilt(c)
  BY <1>3, <1>4 DEF LeftBuilt, OneBuilder
<1>6. Built' \subseteq PoolBackends /\ LeftBuilt(c) \subseteq PoolBackends
  BY DEF Built, LeftBuilt
<1> QED
  BY <1>2, <1>5, <1>6

LEMMA BuiltJoins ==
    ASSUME NEW c \in PoolCallers, NEW call, NEW b \in PoolBackends, PoolTypes, OneBuilder,
           pcall' = [pcall EXCEPT ![c] = call], pcall[c].at # "created", call.at = "created", call.entry = b,
           b \notin Built
    PROVE  Built' = Built \cup {b} /\ OneBuilder'
<1>1. pcall'[c] = call /\ \A d \in PoolCallers \ {c} : pcall'[d] = pcall[d]
  BY DEF PoolTypes
<1>2. \A d \in PoolCallers : pcall[d].at = "created" => pcall[d].entry # b
  BY DEF Built
<1>3. OneBuilder'
  BY <1>1, <1>2 DEF OneBuilder
<1>4. \A d \in PoolBackends : d \in Built' <=> d \in Built \/ d = b
  BY <1>1 DEF Built
<1>5. Built' \subseteq PoolBackends /\ Built \subseteq PoolBackends
  BY DEF Built
<1> QED
  BY <1>3, <1>4, <1>5

\* Where a caller is says which fields its record has.
LEMMA CallTyped ==
    ASSUME NEW call \in CallRecord
    PROVE  /\ call.at \in {"idle", "resolved", "creating", "created", "using"}
           /\ call.at \in {"resolved", "creating"} =>
                /\ call.op \in {"acquire", "get"} /\ call.tenant \in PoolTenants /\ call.row \in RowRecord
                /\ call = [at |-> call.at, op |-> call.op, tenant |-> call.tenant, row |-> call.row]
           /\ call.at = "created" => /\ call.op \in {"acquire", "get"} /\ call.tenant \in PoolTenants
                                     /\ call.row \in RowRecord /\ call.entry \in PoolBackends
           /\ call.at = "using" => call.tenant \in PoolTenants /\ call.row \in RowRecord /\ call.entry \in PoolBackends
<1>1. CASE call \in [at : {"idle"}]
  BY <1>1
<1>2. CASE call \in [at : {"resolved", "creating"}, op : {"acquire", "get"}, tenant : PoolTenants, row : RowRecord]
  BY <1>2
<1>3. CASE call \in [at : {"created"}, op : {"acquire", "get"}, tenant : PoolTenants, row : RowRecord, entry : PoolBackends]
  BY <1>3
<1>4. CASE call \in [at : {"using"}, tenant : PoolTenants, row : RowRecord, entry : PoolBackends]
  BY <1>4
<1> QED
  BY <1>1, <1>2, <1>3, <1>4, ZenonT(30) DEF CallRecord

\* The backend a caller has built or uses is open, and only its own.
LEMMA HeldBackend ==
    ASSUME PoolInv, NEW c \in PoolCallers
    PROVE  /\ pcall[c] \in CallRecord
           /\ pcall[c].at = "using" =>
                pcall[c].entry \in PoolBackends /\ Used[pcall[c].entry] > 0 /\ pentry[pcall[c].entry] # None
           /\ pcall[c].at = "created" =>
                pcall[c].entry \in Built /\ pcall[c].entry \in PoolBackends /\ pentry[pcall[c].entry] # None
<1>1. pcall[c] \in CallRecord
  BY DEF PoolInv, PoolTypes
<1>2. \A b \in PoolBackends : pentry[b] = None => Used[b] = 0 /\ b \notin Built
  BY DEF PoolInv, PoolFits, PoolState, EntryFits
<1>3. ASSUME pcall[c].at = "using"
      PROVE  pcall[c].entry \in PoolBackends /\ Used[pcall[c].entry] > 0 /\ pentry[pcall[c].entry] # None
  <2>1. pcall[c].entry \in PoolBackends
    BY <1>1, <1>3, CallTyped
  <2>2. c \in PoolUsers(pcall[c].entry)
    BY <1>3 DEF PoolUsers
  <2>3. Used[pcall[c].entry] # 0 /\ Used[pcall[c].entry] \in Nat
    BY <2>1, <2>2, CountedUsers, ZenonT(30)
  <2>4. Used[pcall[c].entry] > 0
    BY <2>3
  <2> QED
    BY <1>2, <2>1, <2>3, <2>4
<1>4. ASSUME pcall[c].at = "created"
      PROVE  pcall[c].entry \in Built /\ pcall[c].entry \in PoolBackends /\ pentry[pcall[c].entry] # None
  <2>1. pcall[c].entry \in PoolBackends
    BY <1>1, <1>4, CallTyped, ZenonT(30)
  <2>2. pcall[c].entry \in Built
    BY <1>4, <2>1, ZenonT(30) DEF Built
  <2> QED
    BY <1>2, <2>1, <2>2, ZenonT(30)
<1> QED
  BY <1>1, <1>3, <1>4, ZenonT(30)

\* A drain is not disturbed by steps that bring nothing but built backends
\* into the map, build no backend it waits for, and let callers use only
\* backends that are built or mapped.
LEMMA DrainKept ==
    ASSUME DrainFits, pdrain' = pdrain,
           pdrain # None => pdrain.entry \notin Built' \/ pdrain.entry = None,
           \A t \in PoolTenants : pitems'[t] \in {pitems[t], None} \/ pitems'[t] \in Built,
           \A b : \/ PoolUsers(b)' \subseteq PoolUsers(b)
                  \/ b # None /\ (b \in Built \/ \E t \in PoolTenants : pitems[t] = b)
    PROVE  DrainFits'
<1> SUFFICES ASSUME pdrain # None
             PROVE  /\ pdrain.entry # None => /\ pdrain.entry \notin Built'
                                              /\ \A t \in PoolTenants : pitems'[t] # pdrain.entry
                    /\ pdrain.st = "drained" => PoolUsers(pdrain.entry)' = {}
  BY ZenonT(30) DEF DrainFits
<1>1. pdrain.entry # None => pdrain.entry \notin Built /\ \A t \in PoolTenants : pitems[t] # pdrain.entry
  BY ZenonT(30) DEF DrainFits
<1>2. pdrain.st = "drained" => PoolUsers(pdrain.entry) = {}
  BY ZenonT(30) DEF DrainFits
<1>3. PoolUsers(pdrain.entry)' \subseteq PoolUsers(pdrain.entry)
  BY <1>1, ZenonT(30)
<1>4. pdrain.entry # None => \A t \in PoolTenants : pitems'[t] # pdrain.entry
  BY <1>1, ZenonT(30)
<1> QED
  BY <1>2, <1>3, <1>4, ZenonT(30)

-----------------------------------------------------------------------------
(* The steps *)

\* Steps that change rows, or end the drain, leave the pool and callers alone.
LEMMA RowStep ==
    ASSUME PoolInv, prow' \in [PoolTenants -> RowRecord], UNCHANGED <<pitems, porder, pentry, pcall, pdrain>>
    PROVE  PoolInv'
<1>1. /\ PoolTypes' /\ PoolState' = PoolState /\ Used' = Used /\ Built' = Built
      /\ \A b : PoolUsers(b)' = PoolUsers(b)
  BY ZenonT(30) DEF PoolInv, PoolTypes, PoolState, Used, Built, PoolUsers
<1>2. (\A c \in PoolCallers : CallFits(c)') /\ OneBuilder' /\ DrainFits' /\ Len(porder') <= PoolMaxSize
  BY <1>1, ZenonT(30) DEF PoolInv, CallFits, OneBuilder, DrainFits
<1> QED
  BY <1>1, <1>2, ZenonT(30) DEF PoolInv

LEMMA SetPolicyStep ==
    ASSUME PoolInv, NEW t \in PoolTenants, NEW p \in PoolPolicies, SetPolicy(t, p)
    PROVE  PoolInv'
<1>1. prow' \in [PoolTenants -> RowRecord]
  BY ZenonT(30) DEF PoolInv, PoolTypes, SetPolicy, RowRecord
<1> QED
  BY <1>1, RowStep, ZenonT(30) DEF SetPolicy

LEMMA MarkDeletingStep ==
    ASSUME PoolInv, NEW t \in PoolTenants, MarkDeleting(t)
    PROVE  PoolInv'
<1>1. prow' \in [PoolTenants -> RowRecord]
  BY ZenonT(30) DEF PoolInv, PoolTypes, MarkDeleting, RowRecord
<1> QED
  BY <1>1, RowStep, ZenonT(30) DEF MarkDeleting

LEMMA DrainPollStep ==
    ASSUME PoolInv, DrainPoll
    PROVE  PoolInv'
<1>1. pdrain \in DrainRecord
  BY ZenonT(30) DEF PoolInv, PoolTypes, DrainPoll
<1>2. pdrain' = [tenant |-> pdrain.tenant, entry |-> pdrain.entry, st |-> "drained"] /\ pdrain' \in DrainRecord
  BY <1>1, ZenonT(30) DEF DrainPoll, DrainRecord
<1>3. PoolUsers(pdrain.entry) = {}
  <2>1. CASE pdrain.entry = None
    <3>1. \A c \in PoolCallers : pcall[c].at = "using" => pcall[c].entry # None
      BY HeldBackend, PoolAssumption, ZenonT(30)
    <3> QED
      BY <2>1, <3>1, ZenonT(30) DEF PoolUsers
  <2>2. CASE pdrain.entry \in PoolBackends
    <3>1. EntryFits(pitems, pentry, Used, Built, pdrain.entry)
      BY <2>2, ZenonT(30) DEF PoolInv, PoolFits, PoolState
    <3>2. Used[pdrain.entry] = 0
      BY <3>1, ZenonT(30) DEF EntryFits, DrainPoll, RetiredIdle
    <3> QED
      BY <2>2, <3>2, CountedUsers, ZenonT(30)
  <2> QED
    BY <1>1, <2>1, <2>2, ZenonT(30) DEF DrainRecord
<1>4. /\ PoolTypes' /\ PoolState' = PoolState /\ Used' = Used /\ Built' = Built
      /\ \A b : PoolUsers(b)' = PoolUsers(b)
  BY <1>2, ZenonT(30) DEF DrainPoll, PoolInv, PoolTypes, PoolState, Used, Built, PoolUsers
<1>5. DrainFits'
  <2>1. /\ pdrain'.entry = pdrain.entry
        /\ pdrain.entry # None => pdrain.entry \notin Built /\ \A t \in PoolTenants : pitems[t] # pdrain.entry
    BY <1>2, ZenonT(30) DEF PoolInv, DrainFits, DrainPoll
  <2>2. PoolUsers(pdrain.entry)' = {}
    BY <1>3, <2>1, ZenonT(30) DEF PoolUsers, DrainPoll
  <2>3. pitems' = pitems
    BY ZenonT(30) DEF DrainPoll
  <2> QED
    BY <1>4, <2>1, <2>2, <2>3, ZenonT(30) DEF DrainFits
<1>6. (\A c \in PoolCallers : CallFits(c)') /\ OneBuilder' /\ Len(porder') <= PoolMaxSize
  BY ZenonT(30) DEF PoolInv, CallFits, OneBuilder, DrainPoll
<1> QED
  BY <1>4, <1>5, <1>6, ZenonT(30) DEF PoolInv

LEMMA DrainReturnsStep ==
    ASSUME PoolInv, DrainReturns
    PROVE  PoolInv'
<1>1. PoolTypes' /\ PoolState' = PoolState /\ Used' = Used /\ Built' = Built /\ DrainFits'
  BY ZenonT(30) DEF DrainReturns, PoolInv, PoolTypes, PoolState, Used, Built, PoolUsers, DrainFits
<1>2. (\A c \in PoolCallers : CallFits(c)') /\ OneBuilder' /\ Len(porder') <= PoolMaxSize
  BY ZenonT(30) DEF PoolInv, CallFits, OneBuilder, DrainReturns
<1> QED
  BY <1>1, <1>2, ZenonT(30) DEF PoolInv

\* The callers other than c keep the backends they hold when their entries
\* keep tenant and policy.
LEMMA OthersFit ==
    ASSUME PoolInv, NEW C, \A d \in PoolCallers \ C : pcall'[d] = pcall[d],
           NEW built, \A d \in PoolCallers \ C : pcall[d].at = "created" => pcall[d].entry \in built,
           \A b \in PoolBackends : Used[b] > 0 \/ b \in built =>
                pentry'[b].tenant = pentry[b].tenant /\ pentry'[b].policy = pentry[b].policy
    PROVE  \A d \in PoolCallers \ C : CallFits(d)'
<1> TAKE d \in PoolCallers \ C
<1>1. pcall[d].at \in {"created", "using"} =>
        /\ pentry'[pcall[d].entry].tenant = pentry[pcall[d].entry].tenant
        /\ pentry'[pcall[d].entry].policy = pentry[pcall[d].entry].policy
  BY HeldBackend, ZenonT(30)
<1>2. CallFits(d)
  BY ZenonT(30) DEF PoolInv
<1>3. pcall'[d] = pcall[d]
  BY ZenonT(30)
<1> QED
  BY <1>1, <1>2, <1>3, ZenonT(30) DEF CallFits

\* Steps that only take entries out of the map (removeLocked, Close).
LEMMA RemovalStep ==
    ASSUME PoolInv, NEW next, SetPool(next), PoolFits(next, Used, Built), KeepsUsed(PoolState, next, Used, Built),
           \A t \in PoolTenants : next.items[t] \in {pitems[t], None}, Len(next.order) <= PoolMaxSize,
           UNCHANGED <<prow, pcall>>
    PROVE  /\ pdrain' \in DrainRecord \cup {None} /\ DrainFits' => PoolInv'
           /\ pdrain' = pdrain => DrainFits'
           /\ Built' = Built /\ \A b : PoolUsers(b)' = PoolUsers(b)
<1>1. /\ pdrain' \in DrainRecord \cup {None} => PoolTypes'
      /\ Used' = Used /\ Built' = Built
      /\ \A b : PoolUsers(b)' = PoolUsers(b)
  BY ZenonT(30) DEF PoolInv, PoolTypes, Used, Built, PoolUsers
<1>2. PoolState' = next /\ pitems' = next.items /\ porder' = next.order /\ pentry' = next.entry
  BY ZenonT(30) DEF SetPool, PoolState, PoolFits
<1>3. \A d \in PoolCallers : CallFits(d)'
  <2>1. \A b \in PoolBackends : Used[b] > 0 \/ b \in Built =>
            pentry'[b].tenant = pentry[b].tenant /\ pentry'[b].policy = pentry[b].policy
    BY <1>2, ZenonT(30) DEF KeepsUsed, PoolState
  <2>2. \A d \in PoolCallers : pcall'[d] = pcall[d] /\ (pcall[d].at = "created" => pcall[d].entry \in Built)
    BY HeldBackend, ZenonT(30)
  <2>3. \A d \in PoolCallers \ {} : CallFits(d)'
    BY <2>1, <2>2, OthersFit, ZenonT(30)
  <2> QED
    BY <2>3, ZenonT(30)
<1>4. OneBuilder'
  BY ZenonT(30) DEF OneBuilder, PoolInv
<1>5. pdrain' = pdrain => DrainFits'
  <2> HAVE pdrain' = pdrain
  <2>1. DrainFits /\ (pdrain # None => pdrain.entry \notin Built' \/ pdrain.entry = None)
    BY <1>1, ZenonT(30) DEF PoolInv, DrainFits
  <2> QED
    BY <1>1, <1>2, <2>1, DrainKept, ZenonT(30)
<1> QED
  BY <1>1, <1>2, <1>3, <1>4, <1>5, ZenonT(30) DEF PoolInv

LEMMA RemovedNext ==
    ASSUME PoolInv, NEW t \in PoolTenants
    PROVE  LET next == RemoveIfPresent(PoolState, t) IN
           /\ PoolFits(next, Used, Built) /\ KeepsUsed(PoolState, next, Used, Built)
           /\ next.items = [pitems EXCEPT ![t] = None]
           /\ \A u \in PoolTenants : next.items[u] \in {pitems[u], None}
           /\ Len(next.order) <= PoolMaxSize /\ Len(next.order) \in Nat
<1> DEFINE next == RemoveIfPresent(PoolState, t)
<1>1. PoolFits(PoolState, Used, Built) /\ Used \in Counts
  BY CountedUsers, ZenonT(30) DEF PoolInv
<1>2. /\ PoolFits(next, Used, Built) /\ KeepsUsed(PoolState, next, Used, Built)
      /\ next.items = [PoolState.items EXCEPT ![t] = None]
      /\ Len(PoolState.order) \in Nat /\ Len(next.order) \in Nat /\ Len(next.order) <= Len(PoolState.order)
  BY <1>1, RemoveIfPresentFits, ZenonT(30)
<1>3. PoolState.items = pitems /\ PoolState.order = porder /\ Len(porder) <= PoolMaxSize /\ PoolMaxSize \in Nat
  BY PoolAssumption, ZenonT(30) DEF PoolState, PoolInv
<1>4. pitems \in [PoolTenants -> PoolBackends \cup {None}]
  BY <1>1, <1>3, ZenonT(30) DEF PoolFits
<1> HIDE DEF next
<1>5. Len(next.order) <= PoolMaxSize
  BY <1>2, <1>3
<1>6. \A u \in PoolTenants : next.items[u] \in {pitems[u], None}
  BY <1>2, <1>3, <1>4, ZenonT(30)
<1> QED
  BY <1>2, <1>3, <1>5, <1>6, ZenonT(30) DEF next

LEMMA PoolCloseStep ==
    ASSUME PoolInv, PoolClose
    PROVE  PoolInv'
<1> DEFINE next == [items |-> [t \in PoolTenants |-> None], order |-> << >>,
                    entry |-> [b \in PoolBackends |->
                        IF \E t \in PoolTenants : PoolState.items[t] = b
                        THEN IF PoolState.entry[b].refs = 0 THEN None
                             ELSE [PoolState.entry[b] EXCEPT !.retired = TRUE]
                        ELSE PoolState.entry[b]]]
<1>1. PoolFits(PoolState, Used, Built) /\ Used \in Counts
  BY CountedUsers, ZenonT(30) DEF PoolInv
<1>2. PoolFits(next, Used, Built) /\ KeepsUsed(PoolState, next, Used, Built)
  BY <1>1, ClosedFits, ZenonT(30)
<1>3. SetPool(next)
  BY ZenonT(30) DEF PoolClose, PoolState
<1>4. (\A t \in PoolTenants : next.items[t] \in {pitems[t], None}) /\ Len(next.order) <= PoolMaxSize
  BY PoolAssumption
<1> HIDE DEF next
<1>5. UNCHANGED <<prow, pcall>> /\ pdrain' = pdrain /\ pdrain \in DrainRecord \cup {None}
  BY ZenonT(30) DEF PoolClose, PoolInv, PoolTypes
<1> QED
  BY <1>2, <1>3, <1>4, <1>5, RemovalStep, ZenonT(30)

LEMMA InvalidateAndWaitStep ==
    ASSUME PoolInv, NEW t \in PoolTenants, InvalidateAndWait(t)
    PROVE  PoolInv'
<1> DEFINE next == RemoveIfPresent(PoolState, t)
<1>1. /\ PoolFits(next, Used, Built) /\ KeepsUsed(PoolState, next, Used, Built)
      /\ next.items = [pitems EXCEPT ![t] = None]
      /\ \A u \in PoolTenants : next.items[u] \in {pitems[u], None}
      /\ Len(next.order) <= PoolMaxSize
  BY RemovedNext, ZenonT(30)
<1>2. SetPool(next) /\ UNCHANGED <<prow, pcall>> /\ pitems' = next.items
  BY ZenonT(30) DEF InvalidateAndWait, SetPool
<1> HIDE DEF next
<1>3. /\ pdrain' \in DrainRecord \cup {None} /\ DrainFits' => PoolInv'
      /\ Built' = Built /\ \A b : PoolUsers(b)' = PoolUsers(b)
  BY <1>1, <1>2, RemovalStep, ZenonT(30)
<1>4. PICK e : e = pitems[t]
  BY ZenonT(30)
<1>5. /\ pitems \in [PoolTenants -> PoolBackends \cup {None}] /\ MapFits(pitems, pentry, Built)
      /\ \A b \in PoolBackends : EntryFits(pitems, pentry, Used, Built, b)
  BY ZenonT(30) DEF PoolInv, PoolFits, PoolState
<1>6. PICK st : st = IF e = None THEN "drained" ELSE IF pentry[e].refs = 0 THEN "drained" ELSE "waiting"
  BY ZenonT(30)
<1>7. pdrain' = [tenant |-> t, entry |-> e, st |-> st]
  BY <1>4, <1>6, ZenonT(30) DEF InvalidateAndWait
<1>8. st \in {"waiting", "drained"} /\ e \in PoolBackends \cup {None}
  BY <1>4, <1>5, <1>6, ZenonT(30)
<1>9. pdrain' \in DrainRecord /\ pdrain'.entry = e /\ pdrain'.st = st
  BY <1>7, <1>8, ZenonT(30) DEF DrainRecord
<1>10. e # None => e \notin Built /\ \A u \in PoolTenants : pitems'[u] # e
  <2> HAVE e # None
  <2>1. t \in Mapped(pitems) /\ \A u \in PoolTenants : pitems[u] = e => u \in Mapped(pitems)
    BY <1>4, ZenonT(30) DEF Mapped
  <2>2. e \notin Built /\ \A u \in PoolTenants : pitems[u] = e => u = t
    BY <1>4, <1>5, <2>1 DEF MapFits
  <2> QED
    BY <1>1, <1>2, <1>5, <2>2, ZenonT(30)
<1>11. st = "drained" => PoolUsers(e) = {}
  <2>1. CASE e = None
    <3>1. \A c \in PoolCallers : pcall[c].at = "using" => pcall[c].entry # None
      BY HeldBackend, PoolAssumption, ZenonT(30)
    <3> QED
      BY <2>1, <3>1, ZenonT(30) DEF PoolUsers
  <2>2. CASE e # None /\ st = "drained"
    <3>1. e \in PoolBackends /\ pentry[e].refs = 0
      BY <1>6, <1>8, <2>2, ZenonT(30)
    <3>2. pentry[e].refs = Used[e] \/ Used[e] = 0
      BY <1>5, <3>1, ZenonT(30) DEF EntryFits
    <3> QED
      BY <3>1, <3>2, CountedUsers, ZenonT(30)
  <2> QED
    BY <2>1, <2>2, ZenonT(30)
<1>12. DrainFits'
  <2>1. PoolUsers(e)' = {} \/ st # "drained"
    BY <1>3, <1>11, ZenonT(30)
  <2>2. PoolUsers(pdrain.entry)' = {} \/ st # "drained"
    BY <1>9, <2>1, ZenonT(30) DEF PoolUsers
  <2> QED
    BY <1>3, <1>9, <1>10, <2>2, ZenonT(30) DEF DrainFits
<1> QED
  BY <1>3, <1>9, <1>12, ZenonT(30)

\* A step of caller c that leaves the pool alone and neither takes nor holds
\* a backend.
LEMMA CallStep ==
    ASSUME PoolInv, NEW c \in PoolCallers, NEW call \in CallRecord, pcall' = [pcall EXCEPT ![c] = call],
           pcall[c].at \notin {"created", "using"}, call.at \notin {"created", "using"},
           NEW next, SetPool(next), PoolFits(next, Used, Built), KeepsUsed(PoolState, next, Used, Built),
           \A t \in PoolTenants : next.items[t] \in {pitems[t], None}, Len(next.order) <= PoolMaxSize,
           UNCHANGED <<prow, pdrain>>
    PROVE  PoolInv'
<1>1. PoolTypes /\ OneBuilder /\ DrainFits
  BY ZenonT(30) DEF PoolInv
<1>2. /\ pcall' \in [PoolCallers -> CallRecord] /\ pcall'[c] = call
      /\ \A d \in PoolCallers \ {c} : pcall'[d] = pcall[d]
  BY <1>1, ZenonT(30) DEF PoolTypes
<1>3. Used' = Used /\ \A b : PoolUsers(b)' = PoolUsers(b)
  BY <1>1, UsersStay, ZenonT(30)
<1>4. Built' = Built /\ OneBuilder'
  BY <1>1, BuiltLeft, ZenonT(30) DEF LeftBuilt
<1>5. PoolState' = next /\ pitems' = next.items /\ porder' = next.order /\ pentry' = next.entry
  BY ZenonT(30) DEF SetPool, PoolState, PoolFits
<1>6. \A d \in PoolCallers : CallFits(d)'
  <2>1. \A b \in PoolBackends : Used[b] > 0 \/ b \in Built =>
            pentry'[b].tenant = pentry[b].tenant /\ pentry'[b].policy = pentry[b].policy
    BY <1>5, ZenonT(30) DEF KeepsUsed, PoolState
  <2>2. \A d \in PoolCallers \ {c} : pcall[d].at = "created" => pcall[d].entry \in Built
    BY HeldBackend, ZenonT(30)
  <2>3. \A d \in PoolCallers \ {c} : CallFits(d)'
    BY <1>2, <2>1, <2>2, OthersFit, ZenonT(30)
  <2>4. CallFits(c)'
    BY <1>2, ZenonT(30) DEF CallFits
  <2> QED
    BY <2>3, <2>4, ZenonT(30)
<1>7. DrainFits'
  <2>1. pdrain # None => pdrain.entry \notin Built' \/ pdrain.entry = None
    BY <1>1, <1>4, ZenonT(30) DEF DrainFits
  <2> QED
    BY <1>1, <1>3, <1>5, <2>1, DrainKept, ZenonT(30)
<1>8. PoolTypes'
  BY <1>1, <1>2, ZenonT(30) DEF PoolTypes
<1> QED
  BY <1>3, <1>4, <1>5, <1>6, <1>7, <1>8, ZenonT(30) DEF PoolInv

LEMMA SamePool ==
    ASSUME PoolInv
    PROVE  /\ PoolFits(PoolState, Used, Built) /\ KeepsUsed(PoolState, PoolState, Used, Built)
           /\ PoolState.items = pitems /\ PoolState.order = porder /\ PoolState.entry = pentry
           /\ \A t \in PoolTenants : PoolState.items[t] \in {pitems[t], None}
           /\ Len(PoolState.order) <= PoolMaxSize
           /\ UNCHANGED <<pitems, porder, pentry>> => SetPool(PoolState)
BY ZenonT(30) DEF PoolInv, KeepsUsed, PoolState, SetPool

\* The records of a caller that holds no backend.
LEMMA CallsTyped ==
    ASSUME NEW t \in PoolTenants, NEW row \in RowRecord, NEW op \in {"acquire", "get"}
    PROVE  /\ PoolIdle \in CallRecord /\ PoolIdle.at = "idle"
           /\ \A at \in {"resolved", "creating"} : [at |-> at, op |-> op, tenant |-> t, row |-> row] \in CallRecord
<1>1. PoolIdle \in [at : {"idle"}] /\ PoolIdle.at = "idle"
  BY ZenonT(30) DEF PoolIdle
<1>2. \A at \in {"resolved", "creating"} :
        [at |-> at, op |-> op, tenant |-> t, row |-> row]
            \in [at : {"resolved", "creating"}, op : {"acquire", "get"}, tenant : PoolTenants, row : RowRecord]
  BY ZenonT(30)
<1> QED
  BY <1>1, <1>2, ZenonT(30) DEF CallRecord

LEMMA TenantAuthStep ==
    ASSUME PoolInv, NEW c \in PoolCallers, NEW t \in PoolTenants, TenantAuth(c, t)
    PROVE  PoolInv'
<1>1. prow[t] \in RowRecord /\ UNCHANGED <<prow, pdrain>> /\ pcall[c].at = "idle"
  BY ZenonT(30) DEF PoolInv, PoolTypes, TenantAuth
<1>2. CASE prow[t].status = "active"
  <2> DEFINE call == [at |-> "resolved", op |-> "acquire", tenant |-> t, row |-> prow[t]]
  <2>1. call \in CallRecord
    BY <1>1, CallsTyped, ZenonT(30)
  <2>2. call.at = "resolved"
    BY ZenonT(30)
  <2>3. pcall' = [pcall EXCEPT ![c] = call] /\ UNCHANGED <<pitems, porder, pentry>>
    BY <1>2, ZenonT(30) DEF TenantAuth, SetCall
  <2> HIDE DEF call
  <2>4. SetPool(PoolState)
    BY <2>3, SamePool, ZenonT(30)
  <2>5. call.at \notin {"created", "using"} /\ pcall[c].at \notin {"created", "using"}
    BY <1>1, <2>2, ZenonT(30)
  <2> QED
    BY <1>1, <2>1, <2>3, <2>4, <2>5, SamePool, CallStep, ZenonT(30)
<1>3. CASE prow[t].status # "active"
  <2> DEFINE next == RemoveIfPresent(PoolState, t)
  <2>1. /\ PoolFits(next, Used, Built) /\ KeepsUsed(PoolState, next, Used, Built)
        /\ \A u \in PoolTenants : next.items[u] \in {pitems[u], None}
        /\ Len(next.order) <= PoolMaxSize
    BY RemovedNext, ZenonT(30)
  <2>2. SetPool(next) /\ UNCHANGED <<prow, pcall>> /\ pdrain' = pdrain /\ pdrain \in DrainRecord \cup {None}
    BY <1>3, ZenonT(30) DEF TenantAuth, PoolInv, PoolTypes
  <2> HIDE DEF next
  <2> QED
    BY <2>1, <2>2, RemovalStep, ZenonT(30)
<1> QED
  BY <1>2, <1>3, ZenonT(30)

LEMMA LoadS3BackendStep ==
    ASSUME PoolInv, NEW c \in PoolCallers, NEW t \in PoolTenants, LoadS3Backend(c, t)
    PROVE  PoolInv'
<1> DEFINE call == [at |-> "resolved", op |-> "get", tenant |-> t, row |-> prow[t]]
<1>1. prow[t] \in RowRecord /\ UNCHANGED <<prow, pdrain>> /\ pcall[c].at = "idle"
  BY ZenonT(30) DEF PoolInv, PoolTypes, LoadS3Backend
<1>2. call \in CallRecord
  BY <1>1, CallsTyped, ZenonT(30)
<1>3. call.at = "resolved"
  BY ZenonT(30)
<1>4. pcall' = [pcall EXCEPT ![c] = call] /\ UNCHANGED <<pitems, porder, pentry>>
  BY ZenonT(30) DEF LoadS3Backend, SetCall
<1> HIDE DEF call
<1>5. SetPool(PoolState)
  BY <1>4, SamePool, ZenonT(30)
<1>6. call.at \notin {"created", "using"} /\ pcall[c].at \notin {"created", "using"}
  BY <1>1, <1>3, ZenonT(30)
<1> QED
  BY <1>1, <1>2, <1>4, <1>5, <1>6, SamePool, CallStep, ZenonT(30)

LEMMA CreateFailsStep ==
    ASSUME PoolInv, NEW c \in PoolCallers, CreateFails(c)
    PROVE  PoolInv'
<1>1. /\ UNCHANGED <<prow, pdrain>> /\ UNCHANGED <<pitems, porder, pentry>>
      /\ pcall[c].at \notin {"created", "using"} /\ pcall' = [pcall EXCEPT ![c] = PoolIdle]
  BY ZenonT(30) DEF CreateFails, SetCall
<1>2. PoolIdle \in CallRecord /\ PoolIdle.at \notin {"created", "using"}
  BY ZenonT(30) DEF CallRecord, PoolIdle
<1>3. SetPool(PoolState)
  BY <1>1, SamePool, ZenonT(30)
<1> QED
  BY <1>1, <1>2, <1>3, SamePool, CallStep, ZenonT(30)

\* releaseEntry: the user leaves and takes its pin along.
LEMMA PoolReleaseStep ==
    ASSUME PoolInv, NEW c \in PoolCallers, PoolRelease(c)
    PROVE  PoolInv'
<1>1. PICK b : b = pcall[c].entry
  BY ZenonT(30)
<1>2. /\ PoolTypes /\ OneBuilder /\ DrainFits /\ pcall[c].at = "using" /\ b \in PoolBackends /\ CallersCount
      /\ pcall' = [pcall EXCEPT ![c] = PoolIdle] /\ UNCHANGED <<prow, pitems, porder, pdrain>>
  BY <1>1, HeldBackend, ZenonT(30) DEF PoolInv, PoolRelease, SetCall
<1>3. PoolIdle \in CallRecord /\ PoolIdle.at \notin {"created", "using"}
  BY ZenonT(30) DEF CallRecord, PoolIdle
<1>4. /\ pcall' \in [PoolCallers -> CallRecord] /\ pcall'[c] = PoolIdle
      /\ \A d \in PoolCallers \ {c} : pcall'[d] = pcall[d]
  BY <1>2, <1>3, ZenonT(30) DEF PoolTypes
<1>5. /\ Used' = [Used EXCEPT ![b] = Used[b] - 1] /\ Used[b] > 0
      /\ \A d : PoolUsers(d)' \subseteq PoolUsers(d)
  <2>1. PoolIdle.at # "using"
    BY <1>3, ZenonT(30)
  <2>2. /\ Used' = [Used EXCEPT ![b] = Used[b] - 1] /\ Used[b] > 0
        /\ \A d : d # b => PoolUsers(d)' = PoolUsers(d)
        /\ PoolUsers(b)' \subseteq PoolUsers(b)
    BY <1>1, <1>2, <2>1, UserLeaves, ZenonT(30)
  <2> QED
    BY <2>2, ZenonT(30)
<1>6. Built' = Built /\ OneBuilder'
  BY <1>2, <1>3, BuiltLeft, ZenonT(30) DEF LeftBuilt
<1> DEFINE e == [pentry[b] EXCEPT !.refs = pentry[b].refs - 1]
           entry == [pentry EXCEPT ![b] = IF e.refs = 0 /\ e.retired THEN None ELSE e]
           less == [Used EXCEPT ![b] = Used[b] - 1]
           next == [items |-> pitems, order |-> porder, entry |-> entry]
<1>7. PoolFits(next, less, Built) /\ KeepsUsed(PoolState, next, less, Built)
  <2>1. PoolFits(PoolState, Used, Built) /\ Used \in Counts
    BY CountedUsers, ZenonT(30) DEF PoolInv
  <2> HIDE DEF PoolInv
  <2>2. PICK pool : pool = PoolState
    BY ZenonT(30)
  <2>3. pool.items = pitems /\ pool.order = porder /\ pool.entry = pentry
    BY <2>2, ZenonT(30) DEF PoolState
  <2>4. LET f == [pool.entry[b] EXCEPT !.refs = pool.entry[b].refs - 1]
            g == [pool.entry EXCEPT ![b] = IF f.refs = 0 /\ f.retired THEN None ELSE f]
            n == [items |-> pool.items, order |-> pool.order, entry |-> g]
        IN  PoolFits(n, [Used EXCEPT ![b] = Used[b] - 1], Built)
            /\ KeepsUsed(pool, n, [Used EXCEPT ![b] = Used[b] - 1], Built)
    BY <1>2, <1>5, <2>1, <2>2, ReleasedFits, ZenonT(30)
  <2> QED
    BY <2>2, <2>3, <2>4, ZenonT(30)
<1>8. PoolState' = next /\ pentry' = next.entry
  BY <1>1, <1>2, ZenonT(30) DEF PoolRelease, ReleaseEntry, PoolState
<1> HIDE DEF next
<1>9. less = Used'
  BY <1>5, ZenonT(30)
<1> HIDE DEF less
<1>10. PoolFits(PoolState', Used', Built')
  BY <1>6, <1>7, <1>8, <1>9, ZenonT(30)
<1>11. \A d \in PoolCallers \ {c} : CallFits(d)'
  <2>1. \A d \in PoolCallers \ {c} : pcall[d].at \in {"created", "using"} =>
            pcall[d].entry \in PoolBackends /\ (Used'[pcall[d].entry] > 0 \/ pcall[d].entry \in Built)
    <3> SUFFICES ASSUME NEW d \in PoolCallers \ {c}, pcall[d].at \in {"created", "using"}
                 PROVE  pcall[d].entry \in PoolBackends /\ (Used'[pcall[d].entry] > 0 \/ pcall[d].entry \in Built)
      BY ZenonT(30)
    <3>1. CASE pcall[d].at = "created"
      BY <3>1, HeldBackend, ZenonT(30)
    <3>2. CASE pcall[d].at = "using"
      <4>1. pcall[d].entry \in PoolBackends
        BY <3>2, HeldBackend, ZenonT(30)
      <4>2. PICK x \in PoolBackends : x = pcall[d].entry
        BY <4>1, ZenonT(30)
      <4>3. d \in PoolUsers(x)'
        BY <1>4, <3>2, <4>2, ZenonT(30) DEF PoolUsers
      <4>4. PoolUsers(x)' # {}
        BY <4>3, ZenonT(30)
      <4>5. Used'[x] # 0 /\ Used'[x] \in Nat
        BY <1>2, <4>4, UsersPrimed, ZenonT(30)
      <4> QED
        BY <4>2, <4>5
    <3> QED
      BY <3>1, <3>2, ZenonT(30)
  <2>2. \A x \in PoolBackends : Used'[x] > 0 \/ x \in Built =>
            pentry'[x].tenant = pentry[x].tenant /\ pentry'[x].policy = pentry[x].policy
    BY <1>7, <1>8, <1>9, ZenonT(30) DEF KeepsUsed, PoolState
  <2>3. \A d \in PoolCallers \ {c} : pcall'[d] = pcall[d] /\ CallFits(d)
    BY <1>4, ZenonT(30) DEF PoolInv
  <2> QED
    BY <2>1, <2>2, <2>3 DEF CallFits
<1>12. CallFits(c)'
  BY <1>3, <1>4, ZenonT(30) DEF CallFits
<1>13. DrainFits'
  <2>1. pdrain # None => pdrain.entry \notin Built' \/ pdrain.entry = None
    BY <1>2, <1>6, ZenonT(30) DEF DrainFits
  <2> QED
    BY <1>2, <1>5, <2>1, DrainKept, ZenonT(30)
<1>14. PoolTypes' /\ Len(porder') <= PoolMaxSize
  BY <1>2, <1>4, ZenonT(30) DEF PoolTypes, PoolInv
<1> QED
  BY <1>6, <1>10, <1>11, <1>12, <1>13, <1>14 DEF PoolInv

\* createBackend: the new backend is nobody else's, and of the caller's policy.
LEMMA CreateBackendStep ==
    ASSUME PoolInv, NEW c \in PoolCallers, CreateBackend(c)
    PROVE  PoolInv'
<1>1. /\ PoolTypes /\ OneBuilder /\ DrainFits /\ pcall[c].at = "creating" /\ pcall[c] \in CallRecord
      /\ UNCHANGED <<pedits, pitems, porder, pdrain>>
  BY HeldBackend, ZenonT(30) DEF PoolInv, CreateBackend
<1>2. PICK t, old, op : t = pcall[c].tenant /\ old = pcall[c].row /\ op = pcall[c].op
  BY ZenonT(30)
<1>3. t \in PoolTenants /\ old \in RowRecord /\ op \in {"acquire", "get"} /\ prow[t] \in RowRecord
  BY <1>1, <1>2, CallTyped, ZenonT(30) DEF PoolTypes
<1>4. PICK ns : ns = EnsureNamespace(t)
  BY ZenonT(30)
<1>5. ns \in PoolTenants \cup {None}
  BY <1>3, <1>4, ZenonT(30) DEF EnsureNamespace, RowRecord
<1> DEFINE row == [old EXCEPT !.ns = ns]
           e(b) == PoolEntry(t, row, 0)
           call(b) == [at |-> "created", op |-> op, tenant |-> t, row |-> row, entry |-> b]
<1>6. PICK b \in FreeBackends :
        /\ prow' = [prow EXCEPT ![t] = [prow[t] EXCEPT !.ns = ns]]
        /\ pentry' = [pentry EXCEPT ![b] = e(b)]
        /\ pcall' = [pcall EXCEPT ![c] = call(b)]
  BY <1>2, <1>4, ZenonT(30) DEF CreateBackend, SetCall
<1>7. b \in PoolBackends /\ pentry[b] = None /\ (pdrain # None => pdrain.entry # b)
  BY ZenonT(30) DEF FreeBackends
<1>8. row \in RowRecord
  BY <1>3, <1>5, ZenonT(30) DEF RowRecord
<1> HIDE DEF row
<1>9. prow' \in [PoolTenants -> RowRecord]
  BY <1>1, <1>3, <1>5, <1>6, ZenonT(30) DEF PoolTypes, RowRecord
<1>10. e(b) \in EntryRecord /\ e(b).refs = 0 /\ ~e(b).retired /\ e(b).tenant = t /\ e(b).policy = row.policy
  BY <1>3, <1>8, ZenonT(30) DEF PoolEntry, EntryRecord, RowRecord
<1>11. /\ call(b) \in CallRecord /\ call(b).at = "created" /\ call(b).entry = b
       /\ call(b).tenant = t /\ call(b).row = row
  <2>1. call(b) \in [at : {"created"}, op : {"acquire", "get"}, tenant : PoolTenants, row : RowRecord,
                     entry : PoolBackends]
    BY <1>3, <1>7, <1>8
  <2> QED
    BY <2>1, ZenonT(30) DEF CallRecord
<1> HIDE DEF e, call
<1>12. /\ pcall' \in [PoolCallers -> CallRecord] /\ pcall'[c] = call(b)
       /\ \A d \in PoolCallers \ {c} : pcall'[d] = pcall[d]
  BY <1>1, <1>6, <1>11 DEF PoolTypes
<1>13. Used' = Used /\ \A x : PoolUsers(x)' = PoolUsers(x)
  BY <1>1, <1>6, <1>11, UsersStay, ZenonT(30)
<1>14. b \notin Built /\ Used[b] = 0 /\ Used \in Counts
  <2>1. EntryFits(pitems, pentry, Used, Built, b)
    BY <1>7, ZenonT(30) DEF PoolInv, PoolFits, PoolState
  <2> QED
    BY <1>7, <2>1, CountedUsers, ZenonT(30) DEF EntryFits
<1>15. Built' = Built \cup {b} /\ OneBuilder'
  BY <1>1, <1>6, <1>7, <1>11, <1>14, BuiltJoins, ZenonT(30)
<1>16. PoolFits(PoolState', Used', Built')
  <2>1. PICK pool : pool = PoolState
    BY ZenonT(30)
  <2>2. pool.items = pitems /\ pool.order = porder /\ pool.entry = pentry /\ PoolFits(pool, Used, Built)
    BY <2>1, ZenonT(30) DEF PoolState, PoolInv
  <2>3. PoolFits([items |-> pool.items, order |-> pool.order, entry |-> [pool.entry EXCEPT ![b] = e(b)]],
                 Used, Built \cup {b})
    BY <1>7, <1>10, <1>14, <2>2, CreatedFits, ZenonT(30)
  <2>4. PoolState' = [items |-> pool.items, order |-> pool.order, entry |-> [pool.entry EXCEPT ![b] = e(b)]]
    BY <1>1, <1>6, <2>2, ZenonT(30) DEF PoolState
  <2> QED
    BY <1>13, <1>15, <2>3, <2>4, ZenonT(30)
<1>17. pentry \in [PoolBackends -> EntryRecord \cup {None}]
  BY ZenonT(30) DEF PoolInv, PoolFits, PoolState
<1>18. \A d \in PoolCallers \ {c} : CallFits(d)'
  <2>1. \A x \in PoolBackends : Used[x] > 0 \/ x \in Built => x # b
    <3>1. ~(Used[b] > 0)
      BY <1>14
    <3> QED
      BY <1>14, <3>1, ZenonT(30)
  <2>2. \A x \in PoolBackends : Used[x] > 0 \/ x \in Built =>
            pentry'[x].tenant = pentry[x].tenant /\ pentry'[x].policy = pentry[x].policy
    BY <1>6, <1>17, <2>1, ZenonT(30)
  <2>3. \A d \in PoolCallers \ {c} : pcall[d].at = "created" => pcall[d].entry \in Built
    BY HeldBackend, ZenonT(30)
  <2> QED
    BY <1>12, <2>2, <2>3, OthersFit, ZenonT(30)
<1>19. CallFits(c)'
  <2>1. pentry'[b] = e(b)
    BY <1>6, <1>7, <1>17, ZenonT(30)
  <2> QED
    BY <1>10, <1>11, <1>12, <2>1 DEF CallFits
<1>20. DrainFits'
  <2>1. pdrain # None => pdrain.entry \notin Built' \/ pdrain.entry = None
    BY <1>1, <1>7, <1>15, ZenonT(30) DEF DrainFits
  <2> QED
    BY <1>1, <1>13, <2>1, DrainKept, ZenonT(30)
<1>21. PoolTypes' /\ Len(porder') <= PoolMaxSize
  BY <1>1, <1>9, <1>12, ZenonT(30) DEF PoolTypes, PoolInv
<1> QED
  BY <1>15, <1>16, <1>18, <1>19, <1>20, <1>21 DEF PoolInv

\* A caller is handed the backend the map has for its tenant, pinned for
\* Acquire: the other callers keep theirs.
Handed(c, pool, t, b) ==
    /\ pcall[c].at \in {"resolved", "created"}
    /\ t = pcall[c].tenant
    /\ PoolFits(pool, Used, LeftBuilt(c))
    /\ pool.items[t] = b
    /\ Len(pool.order) <= PoolMaxSize
    /\ KeepsUsed(PoolState, pool, Used, LeftBuilt(c))
    /\ pool.entry[b].policy = pcall[c].row.policy
    /\ pitems[t] = b \/ b \in Built
    /\ \A u \in PoolTenants : pool.items[u] \in {pitems[u], None} \/ pool.items[u] \in Built

LEMMA HandStep ==
    ASSUME PoolInv, NEW c \in PoolCallers, NEW pool, NEW t \in PoolTenants, NEW b \in PoolBackends,
           Handed(c, pool, t, b), Hand(c, pool, b), UNCHANGED <<prow, pdrain>>
    PROVE  PoolInv'
<1>1. /\ PoolTypes /\ OneBuilder /\ DrainFits /\ pcall[c] \in CallRecord /\ Used \in Counts /\ b # None
      /\ CallersCount
  BY HeldBackend, CountedUsers, PoolAssumption, ZenonT(30) DEF PoolInv
<1>2. pcall[c].at \in {"resolved", "created"} /\ pcall[c].op \in {"acquire", "get"} /\ pcall[c].row \in RowRecord
  BY <1>1, CallTyped, ZenonT(30) DEF Handed
<1>3. \A d \in PoolCallers \ {c} : pcall[d].at = "created" => pcall[d].entry \in LeftBuilt(c)
  BY <1>1, HeldBackend, ZenonT(30) DEF LeftBuilt, OneBuilder
<1>4. /\ PoolFits(pool, Used, LeftBuilt(c)) /\ Len(pool.order) <= PoolMaxSize
      /\ pool.items[t] = b /\ pool.entry[b] # None /\ pool.entry[b].tenant = t
  <2>1. PoolFits(pool, Used, LeftBuilt(c)) /\ pool.items[t] = b /\ Len(pool.order) <= PoolMaxSize
    BY ZenonT(30) DEF Handed
  <2>2. t \in Mapped(pool.items) /\ MapFits(pool.items, pool.entry, LeftBuilt(c))
    BY <1>1, <2>1, ZenonT(30) DEF Mapped, PoolFits
  <2> QED
    BY <2>1, <2>2, ZenonT(30) DEF MapFits
<1>5. \A d \in PoolBackends : Used[d] > 0 \/ d \in LeftBuilt(c) =>
        /\ pool.entry[d].tenant = pentry[d].tenant /\ pool.entry[d].policy = pentry[d].policy
        /\ pool.entry[d] # None
  <2>1. \A d \in PoolBackends : EntryFits(pool.items, pool.entry, Used, LeftBuilt(c), d)
    BY <1>4, ZenonT(30) DEF PoolFits
  <2>2. \A d \in PoolBackends : Used[d] > 0 \/ d \in LeftBuilt(c) => pool.entry[d] # None
    BY <1>1, <2>1 DEF EntryFits, Counts
  <2>3. KeepsUsed(PoolState, pool, Used, LeftBuilt(c))
    BY ZenonT(30) DEF Handed
  <2> QED
    BY <2>2, <2>3 DEF KeepsUsed, PoolState
<1>6. pool.entry[b].policy = pcall[c].row.policy /\ t = pcall[c].tenant
  BY ZenonT(30) DEF Handed
<1>7. /\ pitems[t] = b \/ b \in Built
      /\ \A u \in PoolTenants : pool.items[u] \in {pitems[u], None} \/ pool.items[u] \in Built
  BY ZenonT(30) DEF Handed
<1>8. UNCHANGED prow /\ pdrain' = pdrain
  BY ZenonT(30)
<1>9. CASE pcall[c].op = "get"
  <2>1. SetPool(pool) /\ pcall' = [pcall EXCEPT ![c] = PoolIdle]
    BY <1>9, ZenonT(30) DEF Hand, SetCall
  <2>2. PoolIdle \in CallRecord /\ PoolIdle.at \notin {"created", "using"}
    BY ZenonT(30) DEF CallRecord, PoolIdle
  <2>3. /\ pcall' \in [PoolCallers -> CallRecord] /\ pcall'[c] = PoolIdle
        /\ \A d \in PoolCallers \ {c} : pcall'[d] = pcall[d]
    BY <1>1, <2>1, <2>2 DEF PoolTypes
  <2>4. Used' = Used /\ \A x : PoolUsers(x)' = PoolUsers(x)
    BY <1>1, <1>2, <2>1, <2>2, UsersStay, ZenonT(30)
  <2>5. Built' = LeftBuilt(c) /\ OneBuilder'
    BY <1>1, <2>1, <2>2, BuiltLeft, ZenonT(30)
  <2>6. PoolState' = pool /\ pitems' = pool.items /\ porder' = pool.order /\ pentry' = pool.entry
    BY <1>4, <2>1, ZenonT(30) DEF SetPool, PoolState, PoolFits
  <2>7. \A d \in PoolCallers \ {c} : CallFits(d)'
    <3>1. \A d \in PoolBackends : Used[d] > 0 \/ d \in LeftBuilt(c) =>
            pentry'[d].tenant = pentry[d].tenant /\ pentry'[d].policy = pentry[d].policy
      BY <1>5, <2>6
    <3> QED
      BY <1>3, <2>3, <3>1, OthersFit, ZenonT(30)
  <2>8. CallFits(c)'
    BY <2>2, <2>3, ZenonT(30) DEF CallFits
  <2>9. DrainFits'
    <3>1. pdrain # None => pdrain.entry \notin Built' \/ pdrain.entry = None
      BY <1>1, <2>5, ZenonT(30) DEF DrainFits, LeftBuilt
    <3> QED
      BY <1>1, <1>7, <1>8, <2>4, <2>6, <3>1, DrainKept, ZenonT(30)
  <2>10. PoolTypes'
    BY <1>1, <1>8, <2>3, ZenonT(30) DEF PoolTypes
  <2> QED
    BY <1>1, <1>4, <2>4, <2>5, <2>6, <2>7, <2>8, <2>9, <2>10, ZenonT(30) DEF PoolInv, CallersCount
<1>10. CASE pcall[c].op = "acquire"
  <2> DEFINE next == Pinned(pool, b)
             more == [Used EXCEPT ![b] = Used[b] + 1]
             call == [at |-> "using", tenant |-> pcall[c].tenant, row |-> pcall[c].row, entry |-> b]
  <2>1. SetPool(next) /\ pcall' = [pcall EXCEPT ![c] = call]
    BY <1>10 DEF Hand, SetCall
  <2>2. call \in CallRecord /\ call.at = "using" /\ call.entry = b /\ call.tenant = t /\ call.row = pcall[c].row
    <3>1. call \in [at : {"using"}, tenant : PoolTenants, row : RowRecord, entry : PoolBackends]
      BY <1>2, <1>6
    <3> QED
      BY <1>6, <3>1, ZenonT(30) DEF CallRecord
  <2> HIDE DEF call
  <2>3. /\ pcall' \in [PoolCallers -> CallRecord] /\ pcall'[c] = call
        /\ \A d \in PoolCallers \ {c} : pcall'[d] = pcall[d]
    BY <1>1, <2>1, <2>2 DEF PoolTypes
  <2>4. Used' = more /\ \A x : x # b => PoolUsers(x)' = PoolUsers(x)
    <3>1. pcall[c].at # "using"
      BY <1>2, ZenonT(30)
    <3> QED
      BY <1>1, <2>1, <2>2, <3>1, UserJoins, ZenonT(30)
  <2>5. Built' = LeftBuilt(c) /\ OneBuilder'
    BY <1>1, <2>1, <2>2, BuiltLeft, ZenonT(30)
  <2>6. /\ PoolFits(next, more, LeftBuilt(c))
        /\ \A d \in PoolBackends : /\ pool.entry[d] = None <=> next.entry[d] = None
                                   /\ next.entry[d].tenant = pool.entry[d].tenant \/ pool.entry[d] = None
                                   /\ next.entry[d].policy = pool.entry[d].policy \/ pool.entry[d] = None
        /\ next.items = pool.items /\ next.order = pool.order
    <3>1. PICK used, built : used = Used /\ built = LeftBuilt(c)
      BY ZenonT(30)
    <3>2. used \in Counts /\ PoolFits(pool, used, built)
      BY <1>1, <1>4, <3>1
    <3> HIDE DEF next
    <3>3. PinDone(pool, used, built, b)
      BY <1>4, <3>2, PinnedFits, ZenonT(30)
    <3> QED
      BY <3>1, <3>3, ZenonT(30) DEF next, PinDone
  <2> HIDE DEF next, more
  <2>7. PoolState' = next /\ pitems' = pool.items /\ porder' = pool.order /\ pentry' = next.entry
    BY <2>1, <2>6 DEF SetPool, PoolState, PoolFits
  <2>8. \A d \in PoolBackends : Used[d] > 0 \/ d \in LeftBuilt(c) =>
            pentry'[d].tenant = pentry[d].tenant /\ pentry'[d].policy = pentry[d].policy
    BY <1>5, <2>6, <2>7
  <2>9. \A d \in PoolCallers \ {c} : CallFits(d)'
    BY <1>3, <2>3, <2>8, OthersFit, ZenonT(30)
  <2>10. CallFits(c)'
    BY <1>4, <1>6, <2>2, <2>3, <2>6, <2>7, ZenonT(30) DEF CallFits
  <2>11. DrainFits'
    <3>1. pdrain # None => pdrain.entry \notin Built' \/ pdrain.entry = None
      BY <1>1, <2>5 DEF DrainFits, LeftBuilt
    <3>2. \A x : \/ PoolUsers(x)' \subseteq PoolUsers(x)
                 \/ x # None /\ (x \in Built \/ \E u \in PoolTenants : pitems[u] = x)
      BY <1>1, <1>7, <2>4
    <3> QED
      BY <1>1, <1>7, <1>8, <2>7, <3>1, <3>2, DrainKept
  <2>12. PoolTypes'
    BY <1>1, <1>8, <2>3 DEF PoolTypes
  <2> QED
    BY <1>1, <1>4, <2>4, <2>5, <2>6, <2>7, <2>9, <2>10, <2>11, <2>12, ZenonT(30) DEF PoolInv, CallersCount
<1> QED
  BY <1>2, <1>9, <1>10

\* Get and Acquire, first critical section.
LEMMA PoolLookupStep ==
    ASSUME PoolInv, NEW c \in PoolCallers, PoolLookup(c)
    PROVE  PoolInv'
<1>1. /\ pcall[c].at = "resolved" /\ pcall[c] \in CallRecord /\ UNCHANGED <<prow, pdrain>> /\ Used \in Counts
      /\ pitems \in [PoolTenants -> PoolBackends \cup {None}] /\ LeftBuilt(c) = Built
  BY HeldBackend, CountedUsers DEF PoolLookup, PoolInv, PoolFits, PoolState, LeftBuilt
<1>2. PICK t, b, op, row : t = pcall[c].tenant /\ b = pitems[t] /\ op = pcall[c].op /\ row = pcall[c].row
  BY ZenonT(30)
<1>3. /\ t \in PoolTenants /\ row \in RowRecord /\ op \in {"acquire", "get"}
      /\ pcall[c] = [at |-> "resolved", op |-> op, tenant |-> t, row |-> row]
  BY <1>1, <1>2, CallTyped
<1>4. /\ PoolIdle \in CallRecord /\ PoolIdle.at \notin {"created", "using"}
      /\ [at |-> "creating", op |-> op, tenant |-> t, row |-> row] \in CallRecord
  BY <1>3, CallsTyped, ZenonT(30)
<1> DEFINE cleared == RemoveIfPresent(PoolState, t)
<1>5. ASSUME NEW call \in CallRecord, call.at \notin {"created", "using"}, pcall' = [pcall EXCEPT ![c] = call],
             SetPool(cleared)
      PROVE  PoolInv'
  <2>1. /\ PoolFits(cleared, Used, Built) /\ KeepsUsed(PoolState, cleared, Used, Built)
        /\ \A u \in PoolTenants : cleared.items[u] \in {pitems[u], None}
        /\ Len(cleared.order) <= PoolMaxSize
    BY <1>3, RemovedNext, ZenonT(30)
  <2>2. pcall[c].at \notin {"created", "using"}
    BY <1>1, ZenonT(30)
  <2> HIDE DEF cleared
  <2> QED
    BY <1>1, <1>5, <2>1, <2>2, CallStep, ZenonT(30)
<1>6. CASE pcall[c].row.status # "active"
  <2>1. SetPool(cleared) /\ pcall' = [pcall EXCEPT ![c] = PoolIdle]
    BY <1>2, <1>6, ZenonT(30) DEF PoolLookup, SetCall
  <2> QED
    BY <1>4, <1>5, <2>1, ZenonT(30)
<1>7. CASE pcall[c].row.status = "active" /\ (b # None => ~Matches(b, pcall[c].row))
  <2> DEFINE call == [at |-> "creating", op |-> op, tenant |-> t, row |-> row]
  <2>1. SetPool(cleared) /\ pcall' = [pcall EXCEPT ![c] = [pcall[c] EXCEPT !.at = "creating"]]
    BY <1>2, <1>7 DEF PoolLookup, SetCall
  <2>2. [pcall[c] EXCEPT !.at = "creating"] = call /\ call.at \notin {"created", "using"}
    BY <1>3
  <2> HIDE DEF cleared, call
  <2>3. call \in CallRecord
    BY <1>4, ZenonT(30) DEF call
  <2> QED
    BY <1>5, <2>1, <2>2, <2>3, ZenonT(30)
<1>8. CASE pcall[c].row.status = "active" /\ b # None /\ Matches(b, pcall[c].row)
  <2> DEFINE pool == [items |-> pitems, order |-> MoveToFront(porder, t), entry |-> pentry]
  <2>1. Hand(c, pool, b)
    BY <1>2, <1>8 DEF PoolLookup
  <2>2. PoolFits(pool, Used, Built) /\ Len(pool.order) = Len(porder)
    <3>1. PICK p : p = PoolState
      BY ZenonT(30)
    <3>2. p.items = pitems /\ p.order = porder /\ p.entry = pentry /\ PoolFits(p, Used, Built)
      BY <3>1, ZenonT(30) DEF PoolState, PoolInv
    <3>3. p.items[t] # None
      BY <1>2, <1>8, <3>2, ZenonT(30)
    <3>4. LET n == [items |-> p.items, order |-> MoveToFront(p.order, t), entry |-> p.entry] IN
          PoolFits(n, Used, Built) /\ Len(n.order) = Len(p.order)
      BY <1>3, <3>2, <3>3, MovedFits, ZenonT(30)
    <3> QED
      BY <3>2, <3>4, ZenonT(30)
  <2>3. pool.items = pitems /\ pool.entry = pentry
    BY ZenonT(30)
  <2> HIDE DEF pool
  <2>4. b \in PoolBackends /\ pool.items[t] = b /\ pitems[t] = b /\ Len(pool.order) <= PoolMaxSize
    BY <1>1, <1>2, <1>3, <1>8, <2>2, <2>3, ZenonT(30) DEF PoolInv
  <2>5. KeepsUsed(PoolState, pool, Used, Built) /\ pool.entry[b].policy = pcall[c].row.policy
    BY <1>8, <2>3, ZenonT(30) DEF KeepsUsed, PoolState, Matches
  <2>6. \A u \in PoolTenants : pool.items[u] \in {pitems[u], None} \/ pool.items[u] \in Built
    BY <2>3, ZenonT(30)
  <2> QED
    <3>1. Handed(c, pool, t, b)
      BY <1>1, <1>2, <2>2, <2>4, <2>5, <2>6, ZenonT(30) DEF Handed
    <3> QED
      BY <1>1, <1>3, <2>1, <2>4, <3>1, HandStep, ZenonT(30)
<1> QED
  <2>1. PoolLookup(c) => \/ pcall[c].row.status # "active"
                         \/ pcall[c].row.status = "active" /\ (b # None => ~Matches(b, pcall[c].row))
                         \/ pcall[c].row.status = "active" /\ b # None /\ Matches(b, pcall[c].row)
    BY <1>2, ZenonT(30) DEF PoolLookup
  <2> QED
    BY <1>6, <1>7, <1>8, <2>1, ZenonT(30)

\* Get and Acquire, second critical section: a matching entry wins and the
\* backend just built is closed, or the new one enters the map.
LEMMA PublishStep ==
    ASSUME PoolInv, NEW c \in PoolCallers, Publish(c)
    PROVE  PoolInv'
<1>1. /\ pcall[c].at = "created" /\ pcall[c] \in CallRecord /\ UNCHANGED <<prow, pdrain>> /\ Used \in Counts
      /\ pitems \in [PoolTenants -> PoolBackends \cup {None}]
      /\ pentry \in [PoolBackends -> EntryRecord \cup {None}] /\ PoolFits(PoolState, Used, Built)
  BY HeldBackend, CountedUsers, ZenonT(30) DEF Publish, PoolInv, PoolFits, PoolState
<1>2. PICK t, b, w, row : t = pcall[c].tenant /\ b = pcall[c].entry /\ w = pitems[t] /\ row = pcall[c].row
  BY ZenonT(30)
<1>3. /\ t \in PoolTenants /\ row \in RowRecord /\ b \in PoolBackends /\ b \in Built
      /\ pentry[b].tenant = t /\ pentry[b].policy = row.policy
      /\ LeftBuilt(c) = Built \ {b}
  BY <1>1, <1>2, CallTyped, HeldBackend DEF PoolInv, CallFits, LeftBuilt
<1>4. PICK p : p = PoolState
  BY ZenonT(30)
<1>5. p.items = pitems /\ p.order = porder /\ p.entry = pentry /\ PoolFits(p, Used, Built)
  BY <1>1, <1>4, ZenonT(30) DEF PoolState
<1>6. CASE w # None /\ Matches(w, pcall[c].row)
  <2> DEFINE pool == [items |-> pitems, order |-> MoveToFront(porder, t), entry |-> [pentry EXCEPT ![b] = None]]
  <2>1. Hand(c, pool, w)
    BY <1>2, <1>6, ZenonT(30) DEF Publish
  <2>2. PoolFits(pool, Used, Built \ {b}) /\ Len(pool.order) = Len(porder)
    <3>1. PICK q : q = [items |-> p.items, order |-> p.order, entry |-> [p.entry EXCEPT ![b] = None]]
      BY ZenonT(30)
    <3>2. PoolFits(q, Used, Built \ {b})
      BY <1>1, <1>3, <1>5, <3>1, DiscardedFits, ZenonT(30)
    <3>3. q.items = pitems /\ q.order = porder /\ q.entry = [pentry EXCEPT ![b] = None]
      BY <1>5, <3>1, ZenonT(30)
    <3>4. q.items[t] # None
      BY <1>2, <1>6, <3>3, ZenonT(30)
    <3>5. LET n == [items |-> q.items, order |-> MoveToFront(q.order, t), entry |-> q.entry] IN
          PoolFits(n, Used, Built \ {b}) /\ Len(n.order) = Len(q.order)
      BY <1>3, <3>2, <3>4, MovedFits, ZenonT(30)
    <3> QED
      BY <3>3, <3>5, ZenonT(30)
  <2>3. pool.items = pitems /\ pool.entry = [pentry EXCEPT ![b] = None]
    BY ZenonT(30)
  <2> HIDE DEF pool
  <2>4. w \in PoolBackends /\ pool.items[t] = w /\ pitems[t] = w /\ Len(pool.order) <= PoolMaxSize
    BY <1>1, <1>2, <1>3, <1>6, <2>2, <2>3 DEF PoolInv
  <2>5. w # b /\ Used[b] = 0
    <3>1. t \in Mapped(pitems)
      BY <1>2, <1>3, <1>6 DEF Mapped
    <3>2. w \notin Built
      BY <1>2, <1>5, <3>1 DEF PoolFits, MapFits
    <3>3. Used[b] = 0
      BY <1>3, <1>5, ZenonT(30) DEF PoolFits, EntryFits
    <3> QED
      BY <1>3, <3>2, <3>3
  <2>6. \A d \in PoolBackends \ {b} : pool.entry[d] = pentry[d]
    BY <1>1, <2>3, ZenonT(30)
  <2>7. KeepsUsed(PoolState, pool, Used, Built \ {b})
    BY <1>4, <1>5, <2>5, <2>6 DEF KeepsUsed
  <2>8. pool.entry[w].policy = pcall[c].row.policy
    BY <1>6, <2>4, <2>5, <2>6, ZenonT(30) DEF Matches
  <2>9. \A u \in PoolTenants : pool.items[u] \in {pitems[u], None} \/ pool.items[u] \in Built
    BY <2>3, ZenonT(30)
  <2>10. PoolFits(pool, Used, LeftBuilt(c)) /\ KeepsUsed(PoolState, pool, Used, LeftBuilt(c))
    BY <1>3, <2>2, <2>7
  <2> QED
    <3>1. Handed(c, pool, t, w)
      BY <1>1, <1>2, <2>4, <2>8, <2>9, <2>10, ZenonT(30) DEF Handed
    <3> QED
      BY <1>1, <1>3, <2>1, <2>4, <3>1, HandStep, ZenonT(30)
<1>7. CASE ~(w # None /\ Matches(w, pcall[c].row))
  <2> DEFINE cleared == RemoveIfPresent(PoolState, t)
             inserted == Inserted(cleared, t, b)
             pool == Evict(inserted)
  <2>1. Hand(c, pool, b)
    BY <1>2, <1>7, ZenonT(30) DEF Publish, Inserted
  <2>2. /\ PoolFits(cleared, Used, Built) /\ KeepsUsed(PoolState, cleared, Used, Built)
        /\ cleared.items = [pitems EXCEPT ![t] = None]
        /\ Len(cleared.order) <= PoolMaxSize /\ Len(cleared.order) \in Nat
    BY <1>3, RemovedNext, ZenonT(30)
  <2> HIDE DEF cleared
  <2>3. cleared.items[t] = None /\ cleared.entry[b].tenant = t /\ cleared.entry[b].policy = row.policy
    BY <1>1, <1>3, <1>4, <1>5, <2>2 DEF KeepsUsed
  <2>4. /\ PoolFits(inserted, Used, Built \ {b}) /\ inserted.entry = cleared.entry
        /\ inserted.items = [cleared.items EXCEPT ![t] = b]
        /\ Len(inserted.order) = Len(cleared.order) + 1 /\ inserted.order[1] = t
    <3>1. Insertable(cleared, Used, Built, t, b)
      BY <1>3, <2>2, <2>3, ZenonT(30) DEF Insertable
    <3>2. Used \in Counts /\ t \in PoolTenants /\ b \in PoolBackends
      BY <1>1, <1>3, ZenonT(30)
    <3>3. InsertDone(cleared, Used, Built, t, b)
      BY <3>1, <3>2, InsertedFits, ZenonT(30)
    <3> QED
      BY <3>3, ZenonT(30) DEF InsertDone
  <2> HIDE DEF inserted
  <2>5. Len(inserted.order) <= PoolMaxSize + 1 /\ Len(inserted.order) \in Nat \ {0}
    BY <2>2, <2>4, PoolAssumption
  <2>6. /\ PoolFits(pool, Used, Built \ {b}) /\ KeepsUsed(inserted, pool, Used, Built \ {b})
        /\ pool.items[t] = inserted.items[t] /\ pool.entry[inserted.items[t]] = inserted.entry[inserted.items[t]]
        /\ \A u \in PoolTenants : pool.items[u] \in {inserted.items[u], None}
        /\ Len(pool.order) <= PoolMaxSize
    <3>1. PICK left, q : left = Built \ {b} /\ q = inserted
      BY ZenonT(30)
    <3>2. PoolFits(q, Used, left) /\ Len(q.order) <= PoolMaxSize + 1 /\ Len(q.order) \in Nat \ {0} /\ q.order[1] = t
      BY <2>4, <2>5, <3>1
    <3>3. /\ PoolFits(Evict(q), Used, left) /\ KeepsUsed(q, Evict(q), Used, left)
          /\ Evict(q).items[t] = q.items[t] /\ Evict(q).entry[q.items[t]] = q.entry[q.items[t]]
          /\ \A u \in PoolTenants : Evict(q).items[u] \in {q.items[u], None}
          /\ Len(Evict(q).order) <= PoolMaxSize
      BY <1>1, <1>3, <3>2, EvictFits, ZenonT(30)
    <3> QED
      BY <3>1, <3>3, ZenonT(30)
  <2> HIDE DEF pool
  <2>7. \A u \in PoolTenants : inserted.items[u] = IF u = t THEN b ELSE pitems[u]
    BY <1>1, <2>2, <2>4
  <2>8. pool.items[t] = b /\ pool.entry[b].policy = pcall[c].row.policy
    BY <1>2, <1>3, <2>3, <2>4, <2>6, <2>7, ZenonT(30)
  <2>9. \A u \in PoolTenants : pool.items[u] \in {pitems[u], None} \/ pool.items[u] \in Built
    BY <1>3, <2>6, <2>7, ZenonT(30)
  <2>10. KeepsUsed(PoolState, pool, Used, Built \ {b})
    <3> SUFFICES ASSUME NEW x \in PoolBackends, Used[x] > 0 \/ x \in Built \ {b}
                 PROVE  /\ pool.entry[x].tenant = PoolState.entry[x].tenant
                        /\ pool.entry[x].policy = PoolState.entry[x].policy
      BY ZenonT(30) DEF KeepsUsed
    <3>1. /\ cleared.entry[x].tenant = PoolState.entry[x].tenant
          /\ cleared.entry[x].policy = PoolState.entry[x].policy
      BY <2>2, ZenonT(30) DEF KeepsUsed
    <3>2. /\ pool.entry[x].tenant = inserted.entry[x].tenant
          /\ pool.entry[x].policy = inserted.entry[x].policy
      BY <2>6, ZenonT(30) DEF KeepsUsed
    <3> QED
      BY <2>4, <3>1, <3>2, ZenonT(30)
  <2>11. PoolFits(pool, Used, LeftBuilt(c)) /\ KeepsUsed(PoolState, pool, Used, LeftBuilt(c))
    BY <1>3, <2>6, <2>10
  <2> QED
    <3>1. Handed(c, pool, t, b)
      BY <1>1, <1>2, <1>3, <2>6, <2>8, <2>9, <2>11, ZenonT(30) DEF Handed
    <3> QED
      BY <1>1, <1>3, <2>1, <3>1, HandStep, ZenonT(30)
<1> QED
  BY <1>6, <1>7, ZenonT(30)

-----------------------------------------------------------------------------

LEMMA PoolStart == ASSUME CallersCount, PoolInit PROVE PoolInv
<1>1. PICK p \in PoolPolicies : prow = [t \in PoolTenants |-> [status |-> "active", policy |-> p, ns |-> None]]
  BY ZenonT(30) DEF PoolInit
<1>2. /\ pitems = [t \in PoolTenants |-> None] /\ porder = << >> /\ pentry = [b \in PoolBackends |-> None]
      /\ pcall = [c \in PoolCallers |-> PoolIdle] /\ pdrain = None
  BY ZenonT(30) DEF PoolInit
<1>3. PoolIdle \in CallRecord /\ PoolIdle.at \notin {"created", "using"}
  BY ZenonT(30) DEF CallRecord, PoolIdle
<1>4. PoolTypes
  BY <1>1, <1>2, <1>3, ZenonT(30) DEF PoolTypes, RowRecord
<1>5. \A c \in PoolCallers : pcall[c].at \notin {"created", "using"}
  BY <1>2, <1>3
<1>6. Built = {} /\ (\A b : PoolUsers(b) = {}) /\ OneBuilder /\ (\A c \in PoolCallers : CallFits(c)) /\ DrainFits
  BY <1>2, <1>5 DEF Built, PoolUsers, OneBuilder, CallFits, DrainFits
<1>7. \A b \in PoolBackends : Used[b] = 0
  BY <1>6, UsersCounted, ZenonT(30)
<1>8. OrderFits(porder, Mapped(pitems)) /\ Len(porder) <= PoolMaxSize
  BY <1>2, PoolAssumption DEF OrderFits, Mapped, Listed
<1>9. PoolFits(PoolState, Used, Built)
  <2>1. /\ PoolState = [items |-> PoolState.items, order |-> PoolState.order, entry |-> PoolState.entry]
        /\ PoolState.items = pitems /\ PoolState.order = porder /\ PoolState.entry = pentry
    BY ZenonT(30) DEF PoolState
  <2>2. MapFits(pitems, pentry, Built)
    BY <1>2, ZenonT(30) DEF MapFits, Mapped
  <2>3. \A b \in PoolBackends : EntryFits(pitems, pentry, Used, Built, b)
    BY <1>2, <1>6, <1>7, ZenonT(30) DEF EntryFits
  <2>4. pitems \in [PoolTenants -> PoolBackends \cup {None}] /\ pentry \in [PoolBackends -> EntryRecord \cup {None}]
    BY <1>2, ZenonT(30)
  <2> QED
    BY <1>8, <2>1, <2>2, <2>3, <2>4, ZenonT(30) DEF PoolFits
<1> QED
  BY <1>4, <1>6, <1>8, <1>9, ZenonT(30) DEF PoolInv

LEMMA PoolStep == ASSUME PoolInv, [PoolNext]_poolVars PROVE PoolInv'
<1>1. CASE UNCHANGED poolVars
  <2>1. prow' \in [PoolTenants -> RowRecord] /\ UNCHANGED <<pitems, porder, pentry, pcall, pdrain>>
    BY <1>1 DEF poolVars, PoolInv, PoolTypes
  <2> QED
    BY <2>1, RowStep
<1>2. CASE \E t \in PoolTenants : \/ \E p \in PoolPolicies : SetPolicy(t, p)
                                  \/ MarkDeleting(t)
                                  \/ InvalidateAndWait(t)
  BY <1>2, SetPolicyStep, MarkDeletingStep, InvalidateAndWaitStep
<1>3. CASE \E t \in PoolTenants, c \in PoolCallers : TenantAuth(c, t) \/ LoadS3Backend(c, t)
  BY <1>3, TenantAuthStep, LoadS3BackendStep
<1>4. CASE \E c \in PoolCallers : PoolLookup(c) \/ CreateBackend(c) \/ CreateFails(c)
  BY <1>4, PoolLookupStep, CreateBackendStep, CreateFailsStep
<1>5. CASE \E c \in PoolCallers : Publish(c) \/ PoolRelease(c)
  BY <1>5, PublishStep, PoolReleaseStep
<1>6. CASE DrainPoll \/ DrainReturns \/ PoolClose
  BY <1>6, DrainPollStep, DrainReturnsStep, PoolCloseStep
<1> QED
  BY <1>1, <1>2, <1>3, <1>4, <1>5, <1>6, ZenonT(30) DEF PoolNext

LEMMA PoolInvGivesLifecycle == ASSUME PoolInv PROVE PoolLifecycle
<1>1. PoolFits(PoolState, Used, Built)
  BY DEF PoolInv
<1>2. /\ OrderFits(porder, Mapped(pitems))
      /\ \A b \in PoolBackends : EntryFits(pitems, pentry, Used, Built, b)
  BY <1>1 DEF PoolFits, PoolState
<1>3. PoolPinnedOpen
  <2> SUFFICES ASSUME NEW c \in PoolCallers, pcall[c].at = "using"
               PROVE  /\ pentry[pcall[c].entry] # None
                      /\ pentry[pcall[c].entry].tenant = pcall[c].tenant
                      /\ pentry[pcall[c].entry].refs = Cardinality(PoolUsers(pcall[c].entry))
    BY DEF PoolPinnedOpen
  <2>1. PICK b \in PoolBackends : b = pcall[c].entry /\ pentry[b] # None
    BY HeldBackend
  <2>2. Used[b] = Cardinality(PoolUsers(b))
    BY CountedUsers, ZenonT(30)
  <2>3. pentry[b].refs = Used[b]
    BY <1>2, <2>1 DEF EntryFits
  <2>4. CallFits(c)
    BY DEF PoolInv
  <2> QED
    BY <2>1, <2>2, <2>3, <2>4 DEF CallFits
<1>4. PoolNoLeak
  <2> SUFFICES ASSUME NEW b \in PoolBackends, pentry[b] # None
               PROVE  \/ \E t \in PoolTenants : pitems[t] = b
                      \/ pentry[b].retired /\ PoolUsers(b) # {}
                      \/ \E c \in PoolCallers : pcall[c].at = "created" /\ pcall[c].entry = b
    BY DEF PoolNoLeak
  <2>1. /\ pentry[b].retired => Used[b] > 0
        /\ (\E t \in PoolTenants : pitems[t] = b) \/ pentry[b].retired \/ b \in Built
    BY <1>2 DEF EntryFits
  <2>2. pentry[b].retired => PoolUsers(b) # {}
    <3> SUFFICES ASSUME pentry[b].retired PROVE PoolUsers(b) # {}
      OBVIOUS
    <3>1. Used[b] # 0
      BY <2>1, CountedUsers
    <3> QED
      BY <3>1, CountedUsers
  <2> QED
    BY <2>1, <2>2 DEF Built
<1>5. PoolServesPolicy /\ PoolDrained
  BY DEF PoolInv, CallFits, DrainFits, PoolServesPolicy, PoolDrained
<1>6. PoolListed
  BY <1>2 DEF OrderFits, Mapped, PoolListed, PoolInv
<1> QED
  BY <1>3, <1>4, <1>5, <1>6 DEF PoolLifecycle

-----------------------------------------------------------------------------
FS == INSTANCE FiniteSetTheorems

LEMMA CallersAreCounted == CallersCount
<1> SUFFICES ASSUME NEW S \in SUBSET PoolCallers
             PROVE  /\ Cardinality(S) \in Nat
                    /\ Cardinality(S) = 0 <=> S = {}
                    /\ \A c \in PoolCallers : /\ c \notin S => Cardinality(S \cup {c}) = Cardinality(S) + 1
                                              /\ c \in S => Cardinality(S \ {c}) = Cardinality(S) - 1
  BY ZenonT(30) DEF CallersCount
<1>1. \A T : (FS!IsFiniteSet(T) <=> IsFiniteSet(T)) /\ FS!Cardinality(T) = Cardinality(T)
  BY ZenonT(30) DEF FS!IsFiniteSet, IsFiniteSet, FS!Cardinality, Cardinality
<1>2. FS!IsFiniteSet(S)
  BY <1>1, PoolAssumption, FS!FS_Subset, ZenonT(30)
<1>3. Cardinality(S) \in Nat
  BY <1>1, <1>2, FS!FS_CardinalityType, ZenonT(30)
<1>4. Cardinality(S) = 0 <=> S = {}
  BY <1>1, <1>2, FS!FS_EmptySet, ZenonT(30)
<1>5. \A c : c \notin S => Cardinality(S \cup {c}) = Cardinality(S) + 1
  BY <1>1, <1>2, FS!FS_AddElement, ZenonT(30)
<1>6. \A c : c \in S => Cardinality(S \ {c}) = Cardinality(S) - 1
  BY <1>1, <1>2, FS!FS_RemoveElement, ZenonT(30)
<1> QED
  BY <1>3, <1>4, <1>5, <1>6, ZenonT(30)

\* For any tenants, callers and backends, and any size of the pool: a backend
\* a request has pinned stays open, counted, and of the tenant and encryption
\* policy the request resolved; no open backend is forgotten; a drain that
\* reports success left no user behind; and list and map of the pool agree and
\* stay within the limit - whatever Get, Acquire, releases, evictions,
\* invalidations and Close do in between (pool.go).
THEOREM PoolKeepsPromises == PoolSpec => []PoolLifecycle
<1>1. PoolInit => PoolInv
  BY CallersAreCounted, PoolStart
<1>2. PoolInv /\ [PoolNext]_poolVars => PoolInv'
  BY PoolStep
<1>3. PoolInv => PoolLifecycle
  BY PoolInvGivesLifecycle
<1> QED
  BY <1>1, <1>2, <1>3, PTL DEF PoolSpec
=============================================================================
