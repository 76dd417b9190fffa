------------------------------ MODULE TraceGrid ------------------------------
(***************************************************************************)
(* The rows of an execution trace: a power of two, never below the least   *)
(* the prover takes, and the arithmetic of usize that the capacities use.  *)
(***************************************************************************)
EXTENDS Integers

CONSTANT UsizeBits      \* the width of usize

MIN_NUM_VARS == 8

PowerOfTwo[k \in 0..UsizeBits] == IF k = 0 THEN 1 ELSE 2 * PowerOfTwo[k - 1]

NextPowerOfTwo(n) ==
    PowerOfTwo[CHOOSE k \in 0..UsizeBits :
                    PowerOfTwo[k] >= n /\ \A j \in 0..(k - 1) : PowerOfTwo[j] < n]

\* next_power_of_two, then max(1 << MIN_NUM_VARS)
NumRows(used) ==
    IF NextPowerOfTwo(used) > PowerOfTwo[MIN_NUM_VARS]
    THEN NextPowerOfTwo(used)
    ELSE PowerOfTwo[MIN_NUM_VARS]

\* checked_shl, checked_mul: a value that usize does not hold is no value.
FitsUsize(log) == log < UsizeBits
ProductFits(a, b) == a * b < PowerOfTwo[UsizeBits]
=============================================================================
