------------------------------ MODULE TenantPool ------------------------------
(* The pool of tenant backends (pkg/tenant/pool.go) and the requests, workers  *)
(* and fork cleanups that take backends from it.  One step is one critical     *)
(* section of Pool.mu; a backend is built between two of them, so any number   *)
(* of callers may build one for the same tenant at the same time.              *)
EXTENDS Common, Integers, Sequences, FiniteSets

CONSTANTS
    PoolTenants,   \* tenant ids
    PoolCallers,   \* requests (auth middleware), GC workers, /s3/ requests
    PoolBackends,  \* numbers for the backends that are open at one time
    PoolPolicies,  \* S3 encryption policies a tenant row can carry
    PoolMaxSize,   \* PoolConfig.MaxTenants
    PoolMaxEdits   \* bound on changes of tenant rows

(* What a pool entry and a drain hold; NULL is neither.                        *)
EntryRecord ==
    [tenant : PoolTenants, policy : PoolPolicies, ns : PoolTenants \cup {None},
     refs : Nat, retired : BOOLEAN]

DrainRecord ==
    [tenant : PoolTenants, entry : PoolBackends \cup {None}, st : {"waiting", "drained"}]

ASSUME PoolAssumption ==
    /\ PoolBackends \subseteq Nat /\ None \notin PoolBackends
    /\ IsFiniteSet(PoolCallers)
    /\ PoolMaxSize \in Nat \ {0}
    /\ None \notin EntryRecord /\ None \notin DrainRecord

VARIABLES
    prow,     \* tenants row: status, S3 encryption policy and namespace
    pedits,   \* row changes so far
    pitems,   \* Pool.items: tenant -> entry (None: no entry)
    porder,   \* Pool.order: tenants, most recently used first
    pentry,   \* open backends: None, or its pool entry
    pcall,    \* where each caller is
    pdrain    \* the InvalidateAndWait in progress

poolVars == <<prow, pedits, pitems, porder, pentry, pcall, pdrain>>

PoolIdle == [at |-> "idle"]

PoolEntry(t, row, refs) ==
    [tenant |-> t, policy |-> row.policy, ns |-> row.ns, refs |-> refs, retired |-> FALSE]

(* NewPool: no entries; a tenant that was never opened has no namespace.       *)
PoolInit ==
    /\ \E p \in PoolPolicies :
          prow = [t \in PoolTenants |-> [status |-> "active", policy |-> p, ns |-> None]]
    /\ pedits = 0
    /\ pitems = [t \in PoolTenants |-> None]
    /\ porder = << >>
    /\ pentry = [b \in PoolBackends |-> None]
    /\ pcall = [c \in PoolCallers |-> PoolIdle]
    /\ pdrain = None

-----------------------------------------------------------------------------
(* List and map of the pool.                                                   *)

PoolState == [items |-> pitems, order |-> porder, entry |-> pentry]

Listed(order) == {order[i] : i \in 1..Len(order)}

(* order.Remove: an entry knows its place in the list.                         *)
Without(order, t) ==
    IF t \in Listed(order)
    THEN LET i == CHOOSE i \in 1..Len(order) : order[i] = t IN
         [j \in 1..(Len(order) - 1) |-> IF j < i THEN order[j] ELSE order[j + 1]]
    ELSE order

InFront(order, t) == [i \in 1..(Len(order) + 1) |-> IF i = 1 THEN t ELSE order[i - 1]]

MoveToFront(order, t) == InFront(Without(order, t), t)

(* removeLocked: the entry leaves map and list and is retired; the caller      *)
(* closes it now (closeEntry) when nobody uses it.                             *)
RemoveLocked(pool, t) ==
    LET b == pool.items[t] IN
    [items |-> [pool.items EXCEPT ![t] = None],
     order |-> Without(pool.order, t),
     entry |-> [pool.entry EXCEPT ![b] = IF pool.entry[b].refs = 0 THEN None
                                         ELSE [pool.entry[b] EXCEPT !.retired = TRUE]]]

RemoveIfPresent(pool, t) ==
    IF pool.items[t] = None THEN pool ELSE RemoveLocked(pool, t)

(* Eviction of the least recently used entries after an insert.  One insert    *)
(* adds one entry, so the loop removes at most one.                            *)
Evict(pool) ==
    IF Len(pool.order) > PoolMaxSize THEN RemoveLocked(pool, pool.order[Len(pool.order)]) ELSE pool

SetPool(pool) ==
    /\ pitems' = pool.items
    /\ porder' = pool.order
    /\ pentry' = pool.entry

(* The entry serves a caller whose row has this policy and namespace.          *)
Matches(b, row) ==
    /\ pentry[b].policy = row.policy
    /\ row.ns \in {None, pentry[b].ns}

Pinned(pool, b) ==
    [items |-> pool.items, order |-> pool.order,
     entry |-> [pool.entry EXCEPT ![b] = [pool.entry[b] EXCEPT !.refs = pool.entry[b].refs + 1]]]

-----------------------------------------------------------------------------
(* Rows change under the pool: an operator changes the encryption policy, a    *)
(* fork is marked deleting.                                                    *)

SetPolicy(t, p) ==
    /\ pedits < PoolMaxEdits
    /\ prow[t].policy # p
    /\ prow' = [prow EXCEPT ![t] = [prow[t] EXCEPT !.policy = p]]
    /\ pedits' = pedits + 1
    /\ UNCHANGED <<pitems, porder, pentry, pcall, pdrain>>

MarkDeleting(t) ==
    /\ pedits < PoolMaxEdits
    /\ prow[t].status = "active"
    /\ prow' = [prow EXCEPT ![t] = [prow[t] EXCEPT !.status = "deleting"]]
    /\ pedits' = pedits + 1
    /\ UNCHANGED <<pitems, porder, pentry, pcall, pdrain>>

-----------------------------------------------------------------------------
(* Callers.                                                                    *)

SetCall(c, call) == pcall' = [pcall EXCEPT ![c] = call]

(* tenantAuthMiddleware resolves the key to its tenant row.  A blocked tenant  *)
(* loses its backend here (Invalidate).                                        *)
TenantAuth(c, t) ==
    /\ pcall[c].at = "idle"
    /\ IF prow[t].status = "active"
       THEN /\ SetCall(c, [at |-> "resolved", op |-> "acquire", tenant |-> t, row |-> prow[t]])
            /\ UNCHANGED <<pitems, porder, pentry>>
       ELSE /\ SetPool(RemoveIfPresent(PoolState, t))
            /\ UNCHANGED pcall
    /\ UNCHANGED <<prow, pedits, pdrain>>

(* LoadS3Backend: a backend of the pool is handed out unpinned; otherwise the  *)
(* row is read for Get.                                                        *)
LoadS3Backend(c, t) ==
    /\ pcall[c].at = "idle"
    /\ pitems[t] = None
    /\ SetCall(c, [at |-> "resolved", op |-> "get", tenant |-> t, row |-> prow[t]])
    /\ UNCHANGED <<prow, pedits, pitems, porder, pentry, pdrain>>

\* Mutant: the backend is handed over without a pin.
HandUnpinned(c, pool, b) ==
    /\ SetPool(pool)
    /\ SetCall(c, [at |-> "using", tenant |-> pcall[c].tenant, row |-> pcall[c].row, entry |-> b])

(* A caller is handed backend b: pinned for Acquire, not for Get.              *)
Hand(c, pool, b) ==
    IF pcall[c].op = "acquire"
    THEN /\ SetPool(Pinned(pool, b))
         /\ SetCall(c, [at |-> "using", tenant |-> pcall[c].tenant,
                        row |-> pcall[c].row, entry |-> b])
    ELSE /\ SetPool(pool)
         /\ SetCall(c, PoolIdle)

(* First critical section of Get and Acquire: an inactive row drops the entry, *)
(* a matching entry is used, one of another policy is removed.                 *)
PoolLookup(c) ==
    LET t == pcall[c].tenant
        b == pitems[t]
    IN
    /\ pcall[c].at = "resolved"
    /\ \/ /\ pcall[c].row.status # "active"
          /\ SetPool(RemoveIfPresent(PoolState, t))
          /\ SetCall(c, PoolIdle)
       \/ /\ pcall[c].row.status = "active"
          /\ b # None
          /\ Matches(b, pcall[c].row)
          /\ Hand(c, [items |-> pitems, order |-> MoveToFront(porder, t), entry |-> pentry], b)
       \/ /\ pcall[c].row.status = "active"
          /\ b # None => ~Matches(b, pcall[c].row)
          /\ SetPool(RemoveIfPresent(PoolState, t))
          /\ SetCall(c, [pcall[c] EXCEPT !.at = "creating"])
    /\ UNCHANGED <<prow, pedits, pdrain>>

(* resolveStorageNamespace: the row's namespace, made and recorded under the   *)
(* row lock when there is none (EnsureTenantStorageNamespace).                 *)
EnsureNamespace(t) == IF prow[t].ns = None THEN t ELSE prow[t].ns

(* The name of a new backend: none that is in use or that a drain still polls. *)
FreeBackends ==
    LET free == {b \in PoolBackends : pentry[b] = None /\ (pdrain # None => pdrain.entry # b)}
    IN  {b \in free : \A d \in free : b <= d}

(* createBackend, outside the lock: it opens the store, repairs the schema,    *)
(* resolves the namespace and starts the backend's workers.  A failure on the  *)
(* way closes the store and leaves nothing open.                               *)
CreateBackend(c) ==
    /\ pcall[c].at = "creating"
    /\ \E b \in FreeBackends :
          LET t == pcall[c].tenant
              row == [pcall[c].row EXCEPT !.ns = EnsureNamespace(t)]
          IN
          /\ prow' = [prow EXCEPT ![t] = [prow[t] EXCEPT !.ns = EnsureNamespace(t)]]
          /\ pentry' = [pentry EXCEPT ![b] = PoolEntry(t, row, 0)]
          /\ SetCall(c, [at |-> "created", op |-> pcall[c].op, tenant |-> t,
                         row |-> row, entry |-> b])
    /\ UNCHANGED <<pedits, pitems, porder, pdrain>>

CreateFails(c) ==
    /\ pcall[c].at = "creating"
    /\ SetCall(c, PoolIdle)
    /\ UNCHANGED <<prow, pedits, pitems, porder, pentry, pdrain>>

(* Second critical section: another caller may have published an entry in the  *)
(* meantime.  A matching one wins and the backend just built is closed; one of *)
(* another policy is removed; then the new entry is inserted in front and the  *)
(* least recently used ones are evicted.                                       *)
Publish(c) ==
    LET t == pcall[c].tenant
        b == pcall[c].entry
        w == pitems[t]
        cleared == RemoveIfPresent(PoolState, t)
        inserted == [items |-> [cleared.items EXCEPT ![t] = b],
                     order |-> InFront(cleared.order, t), entry |-> cleared.entry]
    IN
    /\ pcall[c].at = "created"
    /\ IF w # None /\ Matches(w, pcall[c].row)
       THEN Hand(c, [items |-> pitems, order |-> MoveToFront(porder, t),
                     entry |-> [pentry EXCEPT ![b] = None]], w)
       ELSE Hand(c, Evict(inserted), b)
    /\ UNCHANGED <<prow, pedits, pdrain>>

(* releaseEntry, once per Acquire: the last user of a retired entry closes it. *)
ReleaseEntry(b) ==
    LET e == [pentry[b] EXCEPT !.refs = pentry[b].refs - 1] IN
    pentry' = [pentry EXCEPT ![b] = IF e.refs = 0 /\ e.retired THEN None ELSE e]

PoolRelease(c) ==
    /\ pcall[c].at = "using"
    /\ ReleaseEntry(pcall[c].entry)
    /\ SetCall(c, PoolIdle)
    /\ UNCHANGED <<prow, pedits, pitems, porder, pdrain>>

(* InvalidateAndWait of a fork cleanup: the entry in the map is removed, and   *)
(* if it is in use the cleanup polls it until its last user released it.       *)
InvalidateAndWait(t) ==
    /\ pdrain = None
    /\ prow[t].status = "deleting"
    /\ SetPool(RemoveIfPresent(PoolState, t))
    /\ pdrain' = [tenant |-> t, entry |-> pitems[t],
                  st |-> IF pitems[t] = None THEN "drained"
                         ELSE IF pentry[pitems[t]].refs = 0 THEN "drained" ELSE "waiting"]
    /\ UNCHANGED <<prow, pedits, pcall>>

(* The poll: retired.refs = 0.  A closed backend has no users.                 *)
RetiredIdle(b) == IF pentry[b] = None THEN TRUE ELSE pentry[b].refs = 0

DrainPoll ==
    /\ pdrain # None
    /\ pdrain.st = "waiting"
    /\ RetiredIdle(pdrain.entry)
    /\ pdrain' = [pdrain EXCEPT !.st = "drained"]
    /\ UNCHANGED <<prow, pedits, pitems, porder, pentry, pcall>>

(* The cleanup returns: at the drain timeout, leaving the branch alone, or     *)
(* after its remaining steps.                                                  *)
DrainReturns ==
    /\ pdrain # None
    /\ pdrain' = None
    /\ UNCHANGED <<prow, pedits, pitems, porder, pentry, pcall>>

(* Close at shutdown removes every entry; the ones in use close on release.    *)
PoolClose ==
    /\ porder # << >>
    /\ SetPool([items |-> [t \in PoolTenants |-> None],
                order |-> << >>,
                entry |-> [b \in PoolBackends |->
                    IF \E t \in PoolTenants : pitems[t] = b
                    THEN IF pentry[b].refs = 0 THEN None ELSE [pentry[b] EXCEPT !.retired = TRUE]
                    ELSE pentry[b]]])
    /\ UNCHANGED <<prow, pedits, pcall, pdrain>>

PoolNext ==
    \/ \E t \in PoolTenants :
          \/ \E p \in PoolPolicies : SetPolicy(t, p)
          \/ MarkDeleting(t)
          \/ InvalidateAndWait(t)
          \/ \E c \in PoolCallers : TenantAuth(c, t) \/ LoadS3Backend(c, t)
    \/ \E c \in PoolCallers :
          \/ PoolLookup(c)
          \/ CreateBackend(c)
          \/ CreateFails(c)
          \/ Publish(c)
          \/ PoolRelease(c)
    \/ DrainPoll
    \/ DrainReturns
    \/ PoolClose

PoolSpec == PoolInit /\ [][PoolNext]_poolVars

-----------------------------------------------------------------------------
(* Properties.                                                                 *)

(* The list and the map of the pool name the same tenants, each once, and      *)
(* there are never more than the limit (Get and Acquire evict).                *)
PoolListed ==
    /\ Listed(porder) = {t \in PoolTenants : pitems[t] # None}
    /\ \A i, j \in 1..Len(porder) : porder[i] = porder[j] => i = j
    /\ Len(porder) <= PoolMaxSize

PoolUsers(b) == {c \in PoolCallers : pcall[c].at = "using" /\ pcall[c].entry = b}

(* A backend a request has pinned stays open until it releases it, whatever    *)
(* evictions, invalidations, policy changes and racing creations do, and its   *)
(* reference count is the number of its users: Acquire, removeLocked and       *)
(* releaseEntry agree on who closes it.                                        *)
PoolPinnedOpen ==
    \A c \in PoolCallers : pcall[c].at = "using" =>
        LET b == pcall[c].entry IN
        /\ pentry[b] # None
        /\ pentry[b].tenant = pcall[c].tenant
        /\ pentry[b].refs = Cardinality(PoolUsers(b))

(* No backend is leaked: one that is open is in the map, or a user will close  *)
(* it on release, or the caller that built it has yet to publish or close it.  *)
PoolNoLeak ==
    \A b \in PoolBackends : pentry[b] # None =>
        \/ \E t \in PoolTenants : pitems[t] = b
        \/ pentry[b].retired /\ PoolUsers(b) # {}
        \/ \E c \in PoolCallers : pcall[c].at = "created" /\ pcall[c].entry = b

(* A request works with a backend of the encryption policy of the tenant row   *)
(* it resolved: a backend of the old policy is never reused after a change.    *)
PoolServesPolicy ==
    \A c \in PoolCallers : pcall[c].at = "using" =>
        pentry[pcall[c].entry].policy = pcall[c].row.policy

(* When InvalidateAndWait reports success the backend it removed is closed:    *)
(* nobody works on the fork's database through it while its branch is deleted. *)
PoolDrained ==
    pdrain # None => (pdrain.st = "drained" => PoolUsers(pdrain.entry) = {})

\* The life of a pooled backend: open while anybody uses it, closed once it is
\* out of the pool and nobody does, handed out only with the policy of the
\* tenant's row, and closed for good when the pool is drained; and the pool
\* stays within its limit.
PoolLifecycle == PoolPinnedOpen /\ PoolNoLeak /\ PoolServesPolicy /\ PoolDrained /\ PoolListed
=============================================================================
