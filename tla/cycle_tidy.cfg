CONSTANTS
    Batch = {1, 2}
    NoBatch = NoBatch
    s1 = s1
    s2 = s2
    Symbol = {s1}
    OrdId = {o1, o2}
    Opening <- Flat
    Docs <- EditDocs
    MaxTime = 5
    Grace = 1
    Settle = 1
    Faults = {"torn", "manual", "drop"}
SPECIFICATION Spec
SYMMETRY Symmetric
INVARIANTS
    BookIsCurrent
    ExpiredWasCancelled
    RecordBesideBatch
    ForeignIsForeign
    ResidualIsTerminal
    SilentIsSettled
PROPERTIES
    SubmitOnlyInWindow
    CancelsOnlyExpired
