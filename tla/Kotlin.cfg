SPECIFICATION KotlinFairSpec
CONSTANTS
    NoToken = NoToken
    Statements = {"keccak"}
    Calls = {c1, c2}
    Tokens = {c1, c2}
    Hosts = {c1, c2}
    Inside = {c2}
    Threads = 1
INVARIANTS
    KotlinTypeOK
    RustCancelIsNotThrown
    NoProofBehindCaller
PROPERTIES
    SuspendKeepsPromise
    CancelledBeforeHandlerIsRefused
    CancelStopsRunningProof
    CancelAllReturnsAll
    EveryCallReturns
