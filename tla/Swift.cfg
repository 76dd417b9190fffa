SPECIFICATION SwiftFairSpec
CONSTANTS
    NoToken = NoToken
    Statements = {"keccak"}
    Calls = {c1, c2}
    Tokens = {c1, c2}
    Hosts = {c1, c2}
    Threads = 1
INVARIANTS
    SwiftTypeOK
PROPERTIES
    AwaitKeepsPromise
    CancelledBeforeCallIsRefused
    CancelStopsRunningProof
    CancelAllReturnsAll
    EveryAwaitReturns
