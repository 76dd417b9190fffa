SPECIFICATION AppFairSpec
CONSTANTS
    Runs = 3
    Sizes = {small, large}
    FirstSize = small
    NoSize = NoSize
    Keys = {k1, k2}
    NoKey = NoKey
INVARIANTS
    ReportIsOfSelection
    ReportedKeyIsKept
PROPERTIES
    OutcomeStays
    CancelEndsRun
