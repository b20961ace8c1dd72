SPECIFICATION TMSpec
SYMMETRY TenantSymmetry
CONSTANTS
    None = None
    PoolTenants = {x, y}
    PoolCallers = {c1, c2}
    PoolBackends = {1, 2, 3}
    PoolPolicies = {"p", "q"}
    PoolMaxSize = 1
    PoolMaxEdits = 2
    Forks = {x, y}
    Branches = {1, 2}
    Objects = {o1}
    ForkMaxCrashes = 1
    LegacyFiles = {f1}
    LegacyDirs = {"d"}
    Migrators = {c1, c2}
    SplitMaxRev = 2
    SchemaServers = {c1, c2}
    MetaServers = {c1, c2}
INVARIANTS
    PoolLifecycle
    ForksConsistent
    
    OpensRight
    MetaStartsRight
PROPERTIES
    ForkSteps
CHECK_DEADLOCK FALSE
