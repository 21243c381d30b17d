SPECIFICATION FairSpec
CONSTANTS
    d1 = d1
    d2 = d2
    d3 = d3
    lost = lost
    Command = {d1, d2, d3, lost}
    Digest = {d1, d2, d3}
    Hot = {d3}
    NeedsApproval = {d2}
    Missing = {lost}
    rank <- MCRankOfCommand
    NoCommand = NoCommand
    Loop = {loop}
    Dispatcher = {disp}
    Manual = {man}
    Watcher = {watch, ingest}
    Owner = {owner}
    Casts = {{loop, disp}, {loop, man}, {loop, watch}, {loop, owner}, {disp, man, watch, ingest}, {disp, watch, owner}}
    Nothing = Nothing
    Empty = Empty
    Garbled = Garbled
    MaxCycles = 2
INVARIANTS
    TypeOK
    NothingHotStaged
    StagedByOneConsumer
    NothingStranded
    StopsAfterOwnBlock
    UnreadableNeedsRace
PROPERTIES
    BlocksItsOwn
    LoopEnds
