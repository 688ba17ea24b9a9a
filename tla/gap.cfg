CONSTANTS
    Batch = {1, 2}
    NoBatch = NoBatch
    s1 = s1
    s2 = s2
    Symbol = {s1}
    OrdId = {o1, o2}
    Opening <- Flat
    Docs <- KillDocs
    MaxTime = 5
    Grace = 1
    Settle = 1
    Faults = {"gap"}
SPECIFICATION Spec
SYMMETRY Symmetric
INVARIANT NeverPastTarget
