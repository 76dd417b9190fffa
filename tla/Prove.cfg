SPECIFICATION ProveFairSpec
CONSTANTS
    Calls = {c1, c2}
    Tokens = {t1}
    NoToken = NoToken
    Hosts = {h1}
    Statements = {"rsa", "mldsa", "keccak", "sha256", "template"}
INVARIANTS
    ProveTypeOK
    CancelledWasRequested
PROPERTIES
    StoppedTokenStopsOthers
    ImplementsPromise
    RequestEndsCall
    NoProofWhenRequestedInTime
