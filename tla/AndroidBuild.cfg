SPECIFICATION AndroidSpec
CONSTANTS
    Targets = {"arm64-v8a"}
    Configs = {"ct", "public"}
    First = "ct"
    Returns = FALSE
    MaxRevision = 1
    NoFile = NoFile
    Partial = Partial
INVARIANTS
    AarIsWhole
    SuccessIsCurrent
    PackagedProverIsLinked
