SPECIFICATION AppFairSpec
CONSTANTS
    Runs = 2
    MaxActivities = 2
    Statements = {"mldsa", "hash"}
    Keys = {k1, k2}
    NoKey = NoKey
INVARIANT
    JobIsShown
PROPERTIES
    NoReportAfterCancel
    CancelEndsRun
    DestroyedActivityStopsProving
CHECK_DEADLOCK FALSE
