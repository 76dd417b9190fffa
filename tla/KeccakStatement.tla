--------------------------- MODULE KeccakStatement ---------------------------
(***************************************************************************)
(* The Keccak-256 statement of examples/prover: the program of a message   *)
(* length and the trace that its prove function writes, block by block.    *)
(*                                                                         *)
(* A lane is the set of symbols whose sum it is, so that + is symmetric    *)
(* difference and zero the empty set.  A cell nobody wrote is zero.        *)
(***************************************************************************)
EXTENDS TraceGrid

CONSTANT BLOCK_ROWS     \* KeccakChiplet::BLOCK_ROWS, rows of one permutation

RATE_BYTES == 136
LANE_BYTES == 8
RATE_LANES == RATE_BYTES \div LANE_BYTES
STATE_LANES == 25
DIGEST_LANES == 4

Lanes == 0..(STATE_LANES - 1)
CapacityLanes == RATE_LANES..(STATE_LANES - 1)

Plus(a, b) == (a \ b) \cup (b \ a)
ZeroState == [i \in Lanes |-> {}]
-----------------------------------------------------------------------------
Accepts(len) == len % LANE_BYTES = 0

Blocks(len) == len \div RATE_BYTES + 1

Rows(len) == NumRows(BLOCK_ROWS * Blocks(len))

\* Mutant of Capacity: room for the pad is not kept.
CapacityOfRate(log) ==
    LET blocks == PowerOfTwo[log] \div BLOCK_ROWS
    IN  IF ~FitsUsize(log) \/ ~ProductFits(blocks, RATE_BYTES) THEN 0
        ELSE blocks * RATE_BYTES

\* keccak_capacity
Capacity(log) ==
    LET blocks == PowerOfTwo[log] \div BLOCK_ROWS
    IN  IF ~FitsUsize(log) \/ ~ProductFits(blocks, RATE_BYTES) \/ blocks = 0 THEN 0
        ELSE blocks * RATE_BYTES - LANE_BYTES

PadSeamRow(blocks) == BLOCK_ROWS * (blocks - 1) - 1

\* Mutant of PadLanes: the zero lanes between the two ends are left free.
PadEnds(len) ==
    [i \in {RATE_LANES - 1} |->
        {"final"} \cup IF (len % RATE_BYTES) \div LANE_BYTES = i THEN {"separator"}
                                                                 ELSE {}]

PadLanes(len) ==
    LET first == (len % RATE_BYTES) \div LANE_BYTES
    IN  [i \in first..(RATE_LANES - 1) |->
            {s \in {"separator", "final"} :
                \/ s = "separator" /\ i = first
                \/ s = "final" /\ i = RATE_LANES - 1}]

\* The row a permutation of block b begins at, and the one it ends at.
InputRow(b) == BLOCK_ROWS * b
OutputRow(b) == InputRow(b) + BLOCK_ROWS - 1

\* What build_program fixes, constrains and publishes.  The pad is a boundary
\* of row 0 if there is one block, and gated at the seam if there are more.
Program(len) ==
    LET blocks == 0..(Blocks(len) - 1)
    IN  [ name      |-> "Keccak256Preimage",
          rows      |-> Rows(len),
          selector  |-> {InputRow(b) : b \in blocks} \cup {OutputRow(b) : b \in blocks},
          emit      |-> {OutputRow(b) : b \in blocks},
          seam      |-> IF Blocks(len) = 1 THEN {} ELSE {PadSeamRow(Blocks(len))},
          pad       |-> PadLanes(len),
          published |-> BLOCK_ROWS * Blocks(len) - 1 ]
-----------------------------------------------------------------------------
(***************************************************************************)
(* KeccakSpongeNative: the states before and after each permutation of a   *)
(* message padded by pad10*1.                                              *)
(***************************************************************************)
CallCount(len) == (len \div LANE_BYTES) \div RATE_LANES + 1

Absorbed(len, b) ==
    [i \in Lanes |->
        LET word == RATE_LANES * b + i
        IN  IF i >= RATE_LANES THEN {}
            ELSE {s \in {<<"message", word>>, <<"separator">>, <<"final">>} :
                    \/ s[1] = "message" /\ word < len \div LANE_BYTES
                    \/ s[1] = "separator" /\ word = len \div LANE_BYTES
                    \/ s[1] = "final" /\ word = RATE_LANES * CallCount(len) - 1}]

Output(b) == [i \in Lanes |-> {<<"output", b, i>>}]

Input(len, b) ==
    [i \in Lanes |->
        Plus(IF b = 0 THEN {} ELSE Output(b - 1)[i], Absorbed(len, b)[i])]

Digest(len) == [i \in 0..(DIGEST_LANES - 1) |-> Output(CallCount(len) - 1)[i]]
-----------------------------------------------------------------------------
(***************************************************************************)
(* build_trace: one turn of the loop per call, then the rest.              *)
(***************************************************************************)
EmptyTrace(len) ==
    [ rows |-> Rows(len), row |-> 0, calls |-> 0,
      state |-> [r \in 0..(Rows(len) - 1) |-> ZeroState],
      selector |-> {}, outGate |-> {}, padSeam |-> {} ]

AllCallsWritten(len, trace) == trace.calls = CallCount(len)

CallFits(trace) == trace.row + BLOCK_ROWS - 1 < trace.rows

WriteCall(len, trace) ==
    LET b == trace.calls
        outputRow == trace.row + BLOCK_ROWS - 1
    IN  [trace EXCEPT
            !.state = [@ EXCEPT ![trace.row] = Input(len, b), ![outputRow] = Output(b)],
            !.selector = @ \cup {trace.row, outputRow},
            !.outGate = @ \cup {outputRow},
            !.row = outputRow + 1,
            !.calls = b + 1]

RestFits(trace) == trace.row < trace.rows

\* Mutant of WriteRest: the capacity lanes end with the last call.
WriteSeamOnly(len, trace) ==
    [trace EXCEPT
        !.padSeam = IF trace.calls > 1 THEN {PadSeamRow(trace.calls)} ELSE {}]

\* The last state's capacity lanes go on to the row after its call.
WriteRest(len, trace) ==
    [trace EXCEPT
        !.state = [@ EXCEPT ![trace.row] =
                        [i \in Lanes |-> IF i \in CapacityLanes
                                         THEN Output(trace.calls - 1)[i] ELSE {}]],
        !.padSeam = IF trace.calls > 1 THEN {PadSeamRow(trace.calls)} ELSE {}]
-----------------------------------------------------------------------------
\* A symbol of the program's pad as a term of a lane.
PadTerm(value) == {<<s>> : s \in value}

\* The trace is a witness of the program under these public values.
Satisfies(trace, p, public) ==
    /\ trace.rows = p.rows
    /\ trace.selector = p.selector
    /\ trace.outGate = p.emit
    /\ trace.padSeam = p.seam
    /\ \A i \in CapacityLanes : trace.state[0][i] = {}
    /\ \A r \in p.emit, i \in CapacityLanes :
            Plus(trace.state[r + 1][i], trace.state[r][i]) = {}
    /\ IF p.seam = {}
       THEN \A i \in DOMAIN p.pad : trace.state[0][i] = PadTerm(p.pad[i])
       ELSE \A r \in p.seam, i \in DOMAIN p.pad :
                Plus(trace.state[r + 1][i], trace.state[r][i]) = PadTerm(p.pad[i])
    /\ \A i \in DOMAIN public : trace.state[p.published][i] = public[i]
=============================================================================
