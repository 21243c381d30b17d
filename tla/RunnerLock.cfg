SPECIFICATION FairSpec
CONSTANTS
    Runner = {r1, r2, r3}
    NoFile = NoFile
    Overrun = TRUE
    MaxCrashes = 1
INVARIANTS
    TypeOK
    HolderOwnsFile
    OverlapNeedsVerdict
PROPERTIES
    WorkGoesOn
