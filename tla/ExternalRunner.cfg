SPECIFICATION FairSpec
CONSTANTS
    Runner = {r1}
    NoRunner = NoRunner
    Text = {a, b}
    NoText = NoText
    UseHash = {TRUE, FALSE}
    MaxRoundtrips = 2
    MaxChanges = 3
    MaxCrashes = 1
INVARIANTS
    RunsHaveCauses
    PauseObeyed
PROPERTIES
    OverlookedNeedsOverlap
    RunnerStops
CHECK_DEADLOCK FALSE
