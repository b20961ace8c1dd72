SPECIFICATION Spec
CONSTANTS
    a = a
    b = b
    c = c
    f1 = f1
    f2 = f2
    r1 = r1
    r2 = r2
    c1 = c1
    c2 = c2
    Paths = {a, b, c}
    Dirs = {"x", "y"}
    DirOf <- TwoDirs
    Files = {f1, f2}
    Refs = {r1, r2}
    Clients = {c1, c2}
    Apart <- Disciplined
    MaxRev = 2
    MaxFaults = 1
SYMMETRY Symmetry
INVARIANTS
    TreeWhole
    ObjectsAccounted
CHECK_DEADLOCK FALSE
