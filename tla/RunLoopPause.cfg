SPECIFICATION Spec
CONSTANTS
    d1 = d1
    d2 = d2
    d3 = d3
    lost = lost
    Command = {d1, d2}
    Digest = {d1, d2}
    Hot = {}
    NeedsApproval = {d2}
    Missing = {}
    rank <- MCRankOfCommand
    NoCommand = NoCommand
    Loop = {loop}
    Dispatcher = {}
    Manual = {}
    Watcher = {}
    Owner = {owner}
    Casts = {{loop, owner}}
    Nothing = Nothing
    Empty = Empty
    Garbled = Garbled
    MaxCycles = 1
PROPERTIES
    PauseStops
