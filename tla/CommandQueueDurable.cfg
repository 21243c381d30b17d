SPECIFICATION CrashSpec
CONSTANTS
    c1 = c1
    c2 = c2
    c3 = c3
    k1 = k1
    k2 = k2
    Command = {c1, c2, c3}
    Key = {k1, k2}
    Proc = {p1, p2}
    NoCommand = NoCommand
    NoProc = NoProc
    keyOf <- MCKeyOf
    rank <- MCRank
    MaxFaults = 1
SYMMETRY ProcSymmetry
INVARIANTS
    DurableHandoff
