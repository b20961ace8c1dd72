----------------------------- MODULE MCTenants -----------------------------
(* The control plane's work on tenants: the pool of tenant backends, the     *)
(* forks of tenants, the migration of a tenant database to split tables, the *)
(* schema of a tenant database, and the schema of the control plane itself.  *)
(* A behaviour belongs to one of them; the others stay as they started.      *)
EXTENDS TenantPool, TenantForks, SplitTables, TenantSchema, MetaSchema, TLC

VARIABLE tmode

tmvars == <<poolVars, forkVars, splitVars, schemaVars, metaVars, tmode>>

TMInit ==
    /\ tmode \in {"pool", "forks", "split", "schema", "meta"}
    /\ PoolInit /\ ForkInit /\ SplitInit /\ SchemaInit /\ MetaInit
    /\ tmode # "pool" => \A t \in PoolTenants : prow[t].policy = "p"
    /\ tmode # "split" => files = [f \in LegacyFiles |-> None] /\ dnode = [d \in LegacyDirs |-> "absent"]
    /\ tmode # "schema" => tadds = {"required"} /\ tprov = "zero" /\ trec = None
    /\ tmode # "meta" => mschema = {}

TMNext ==
    \/ tmode = "pool" /\ PoolNext /\ UNCHANGED <<forkVars, splitVars, schemaVars, metaVars, tmode>>
    \/ tmode = "forks" /\ ForkNext /\ UNCHANGED <<poolVars, splitVars, schemaVars, metaVars, tmode>>
    \/ tmode = "split" /\ SplitNext /\ UNCHANGED <<poolVars, forkVars, schemaVars, metaVars, tmode>>
    \/ tmode = "schema" /\ SchemaNext /\ UNCHANGED <<poolVars, forkVars, splitVars, metaVars, tmode>>
    \/ tmode = "meta" /\ MetaNext /\ UNCHANGED <<poolVars, forkVars, splitVars, schemaVars, tmode>>

TMSpec == TMInit /\ [][TMNext]_tmvars

\* Tenants and forks share their identifiers, and so do the callers of the pool
\* and the servers, so that one symmetry serves every component.
TenantSymmetry == Permutations(PoolTenants) \cup Permutations(PoolCallers)
=============================================================================
