SPECIFICATION Spec
CONSTANTS
    MaxDeeds = 2
    MaxTries = 2
    MaxLooks = 2
    MaxClicks = 2
    MaxPastes = 2
    MayOverwrite = TRUE
    Threshold = 5
    Margin = 1
    ShadeMargin = 3
    Screens <- MCScreens
    BusyActions = {"overwrite", "abort"}
    MaxCandidates = 2
    Variants <- MCVariants
INVARIANTS
    SentIsThePrompt
    AnswerNotStopped
    SubmittedWasSent
    AnswerIsNew
    SentinelIsTakenBack
    MarkerLeftIsTold
    DraftsSurvive
    SelectedFocuses
CHECK_DEADLOCK FALSE
