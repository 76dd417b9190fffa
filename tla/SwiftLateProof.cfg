SPECIFICATION SwiftSpec
CONSTANTS
    NoToken = NoToken
    Statements = {"keccak"}
    Calls = {c1}
    Tokens = {c1}
    Hosts = {c1}
    Threads = 1
PROPERTIES
    CancelledAwaitThrows
