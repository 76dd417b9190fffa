SPECIFICATION AppFairSpec
CONSTANTS
    Runs = 1
    MaxActivities = 2
    Statements = {"rsa"}
    Keys = {k1, k2}
    NoKey = NoKey
PROPERTY KeyMadeOnce
CHECK_DEADLOCK FALSE
