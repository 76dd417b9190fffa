--------------------------- MODULE Sha256Statement ---------------------------
(***************************************************************************)
(* The SHA-256 statement of examples/prover: the program of a message      *)
(* length and the trace that its prove function writes, block by block.    *)
(* The eight words of a chaining value are one value here, since the code  *)
(* treats them alike; the words of a block are kept apart.                 *)
(***************************************************************************)
EXTENDS TraceGrid

CONSTANT WordSize       \* 2^32, the number of values of a word

ROWS_PER_BLOCK == 16
BLOCK_BYTES == 64
BLOCK_WORDS == 16

Words == 0..(BLOCK_WORDS - 1)

\* The chaining value after b blocks of a message; IV before the first.
IV == <<>>
Chaining(len, b) == IF b = 0 THEN IV ELSE <<len, b>>
-----------------------------------------------------------------------------
Accepts(len) == len % BLOCK_BYTES = 0

Blocks(len) == len \div BLOCK_BYTES + 1

Rows(len) == NumRows(Blocks(len) * ROWS_PER_BLOCK)

\* sha256_capacity
Capacity(log) ==
    LET blocks == PowerOfTwo[log] \div ROWS_PER_BLOCK
    IN  IF ~FitsUsize(log) \/ blocks = 0 \/ ~ProductFits(blocks - 1, BLOCK_BYTES) THEN 0
        ELSE (blocks - 1) * BLOCK_BYTES

\* The first bit of the pad, and the message's bits as a number of two words.
PaddingBlock(len) ==
    [w \in Words |->
        IF w = 0 THEN <<"first">>
        ELSE IF w = BLOCK_WORDS - 2 THEN <<((len * 8) \div WordSize) % WordSize>>
        ELSE IF w = BLOCK_WORDS - 1 THEN <<(len * 8) % WordSize>>
        ELSE <<0>>]

Cadence(count, offsets) == {b * ROWS_PER_BLOCK + o : b \in 0..(count - 1), o \in offsets}
Offsets == 0..(ROWS_PER_BLOCK - 1)

\* What build_program fixes, constrains and publishes.
Program(len) ==
    LET blocks == Blocks(len)
    IN  [ name     |-> "Sha256Preimage",
          rows     |-> Rows(len),
          active   |-> Cadence(blocks, {0}),
          carry    |-> Cadence(blocks, {o \in Offsets : o + 1 < ROWS_PER_BLOCK}),
          chain    |-> Cadence(blocks - 1, {ROWS_PER_BLOCK - 1}),
          padding  |-> PaddingBlock(len),
          finalRow |-> (blocks - 1) * ROWS_PER_BLOCK ]
-----------------------------------------------------------------------------
(***************************************************************************)
(* pad_message of hekate_sha2, and sha256_calls over it.                   *)
(***************************************************************************)
CallCount(len) == len \div BLOCK_BYTES + 1

PaddedBlock(len, b) ==
    IF b < len \div BLOCK_BYTES THEN [w \in Words |-> <<"message", b, w>>]
    ELSE [w \in Words |->
            IF w = 0 THEN <<"first">>
            ELSE IF w = BLOCK_WORDS - 2 THEN <<(len * 8) \div WordSize>>
            ELSE IF w = BLOCK_WORDS - 1 THEN <<(len * 8) % WordSize>>
            ELSE <<0>>]

Digest(len) == Chaining(len, CallCount(len))
-----------------------------------------------------------------------------
(***************************************************************************)
(* build_trace: one turn of the loop per call.                             *)
(***************************************************************************)
ZeroRow == [hIn |-> <<0>>, msg |-> [w \in Words |-> <<0>>], hOut |-> <<0>>]

EmptyTrace(len) ==
    [ rows |-> Rows(len), calls |-> 0,
      block |-> [r \in 0..(Rows(len) - 1) |-> ZeroRow],
      active |-> {}, carry |-> {}, chain |-> {} ]

AllCallsWritten(len, trace) == trace.calls = CallCount(len)

CallFits(trace) == (trace.calls + 1) * ROWS_PER_BLOCK <= trace.rows

WriteCall(len, trace) ==
    LET b == trace.calls
        first == b * ROWS_PER_BLOCK
        last == first + ROWS_PER_BLOCK - 1
    IN  [trace EXCEPT
            !.block = [r \in DOMAIN @ |->
                        IF r \in first..last
                        THEN [hIn |-> Chaining(len, b), msg |-> PaddedBlock(len, b),
                              hOut |-> Chaining(len, b + 1)]
                        ELSE @[r]],
            !.active = @ \cup {first},
            !.carry = @ \cup first..(last - 1),
            !.chain = IF b < CallCount(len) - 1 THEN @ \cup {last} ELSE @,
            !.calls = b + 1]
-----------------------------------------------------------------------------
\* The trace is a witness of the program under this digest.
Satisfies(trace, p, digest) ==
    /\ trace.rows = p.rows
    /\ trace.active = p.active
    /\ trace.carry = p.carry
    /\ trace.chain = p.chain
    /\ trace.block[0].hIn = IV
    /\ \A r \in p.carry : trace.block[r + 1].hOut = trace.block[r].hOut
    /\ \A r \in p.chain : trace.block[r + 1].hIn = trace.block[r].hOut
    /\ trace.block[p.finalRow].msg = p.padding
    /\ trace.block[p.finalRow].hOut = digest
=============================================================================
