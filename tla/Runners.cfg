SPECIFICATION RunnersSpec
CONSTANTS
    Runner = {r1}
    NoRunner = NoRunner
    Text = {a, b}
    NoText = NoText
    UseHash = {TRUE}
    MaxRoundtrips = 1
    MaxChanges = 3
    MaxCrashes = 0
    Unmarked = {b}
    FgRoundtrips = 2
    MaxLaunches = 1
INVARIANTS
    FgRunsHaveCauses
    FgPauseObeyed
    SeenWasHandled
PROPERTIES
    ProcessedWasRead
CHECK_DEADLOCK FALSE
