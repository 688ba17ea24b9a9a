CONSTANTS
    GoodId = {"a", "b"}
    GoodSymbol = {"SHSE.1"}
    File = {"a", "b", "x"}
    Docs <- RepoDocs
    Absent = Absent
    Opening <- FirstRepo
    Rank <- Listing
    Edits = 2
    MaxTime = 3
    Faults = {"pull", "copy", "crash"}
SPECIFICATION FairSpec
INVARIANTS
    ConnectorTypeOK
    MirrorIsCurrent
    TradesWellFormed
PROPERTIES
    PushedArrives
