SPECIFICATION RoundTripSpec
CONSTANTS
    UsizeBits = 16
    WordSize = 512
    BLOCK_ROWS = 25
    PublicKeyBytes = 1952
    SignatureBytes = 3309
    MESSAGE_BYTES = 32
    KEY_HASH_BYTES = 64
    KeccakLengths = {0, 8, 100, 120, 128, 136, 256, 264, 272, 1344, 1352, 1360, 2712, 2720}
    Sha256Lengths = {0, 64, 100, 128, 960, 1024, 1984, 2048}
    SignedLengths = {32, 56}
    LogRows = {8, 9, 10, 13, 14, 17}
INVARIANTS
    ReturnedProofVerifies
    VerifiedIsProved
    CapacityDrawsTheLine
CHECK_DEADLOCK FALSE
