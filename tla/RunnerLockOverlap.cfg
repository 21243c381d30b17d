SPECIFICATION Spec
CONSTANTS
    Runner = {r1, r2, r3}
    NoFile = NoFile
    Overrun = FALSE
    MaxCrashes = 0
INVARIANTS
    NoOverlap
