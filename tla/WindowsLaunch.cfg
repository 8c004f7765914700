CONSTANTS
    l1 = l1
    l2 = l2
    t1 = t1
    t2 = t2
    Order <- MCOrder
    Up <- MCUp
    Dirs = {"w", "x", "g", t1, t2}
    Roots = {"w", "x"}
    Protected = {"g"}
    s1 = s1
    s2 = s2
    Policies = {s1, s2}
    Launches = {l1, l2}
    Missing = {"x"}
    Late = {"m"}
    Temps = {t1, t2}
    Temp <- MCTemp
    MaxLost = 1
SYMMETRY MCSymmetry
CONSTRAINT MCWithin
SPECIFICATION Spec
INVARIANTS
    WritableWhileRunning
    ProtectedWhileRunning
    NothingLeftBehind
CHECK_DEADLOCK FALSE
