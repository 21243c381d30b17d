SPECIFICATION Spec
CONSTANTS
    MaxAttempts = 2
    MaxDeeds = 1
    Answers <- MCAnswers
    Reports <- MCReports
    Modes = {"stage_only", "stop_for_queue", "artifact", "no_artifact"}
INVARIANTS
    SubmittedWasGated
    AnswerIsFresh
PROPERTIES
    ExtractedIsTheBlock
    SecondHandoverHasCause
CHECK_DEADLOCK FALSE
