SPECIFICATION IosSpec
CONSTANTS
    Targets = {"ios", "sim"}
    Configs = {"ct", "public"}
    First = "ct"
    Returns = TRUE
    MaxRevision = 0
    NoFile = NoFile
    Partial = Partial
INVARIANTS
    PackagedProverIsLinked
