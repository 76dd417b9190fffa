SPECIFICATION IosSpec
CONSTANTS
    Targets = {"ios", "sim"}
    Configs = {"ct", "public"}
    First = "ct"
    Returns = FALSE
    MaxRevision = 1
    NoFile = NoFile
    Partial = Partial
INVARIANTS
    IosTypeOK
    SuccessIsWhole
    NoSkewedXcframework
    SignedTogether
    PackagedProverIsLinked
