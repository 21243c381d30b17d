SPECIFICATION Spec
CONSTANTS
    d1 = d1
    d2 = d2
    d3 = d3
    lost = lost
    Command = {d1, d2}
    Digest = {d1, d2}
    Hot = {}
    NeedsApproval = {d2}
    Missing = {}
    rank <- MCRankOfCommand
    NoCommand = NoCommand
    Loop = {}
    Dispatcher = {disp}
    Manual = {}
    Watcher = {watch, ingest}
    Owner = {}
    Casts = {{disp, watch, ingest}}
    Nothing = Nothing
    Empty = Empty
    Garbled = Garbled
    MaxCycles = 2
INVARIANTS
    ApprovalCoversPayload
