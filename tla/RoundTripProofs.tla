--------------------------- MODULE RoundTripProofs ---------------------------
(***************************************************************************)
(* Proofs about RoundTrip for messages of every length.                    *)
(*                                                                         *)
(* A verify function takes the program id from its caller.  What ties the  *)
(* verdict to the length that was proved is that no two accepted lengths   *)
(* have the same program: the published row tells the blocks of a Keccak   *)
(* message and the pad its last lanes; the final row of SHA-256 tells the  *)
(* blocks, which an accepted message fills.                                *)
(*                                                                         *)
(* What lets a returned proof verify is that the trace, written block by   *)
(* block, is the witness that the program, written as a whole, asks for.   *)
(* The invariant says what the first b turns of a loop have written; the   *)
(* turn after the last one closes the trace.                               *)
(***************************************************************************)
EXTENDS RoundTrip, WellFoundedInduction, SequenceTheorems, TLAPS

-----------------------------------------------------------------------------
(***************************************************************************)
(* The program of a length.                                                *)
(***************************************************************************)
LEMMA BlockProduct ==
    ASSUME NEW m \in Nat, NEW n \in Nat, BLOCK_ROWS * m = BLOCK_ROWS * n
    PROVE  m = n
  BY BlockRowsAreRows

\* An accepted length is its blocks and the lanes of the last one.
LEMMA KeccakBlocks ==
    ASSUME NEW len \in Nat
    PROVE  /\ Keccak!Blocks(len) \in Nat \ {0}
           /\ (len % 136) \div 8 \in 0..16
           /\ len % 8 = 0 =>
                len = 136 * (Keccak!Blocks(len) - 1) + 8 * ((len % 136) \div 8)
  BY DEF Keccak!Blocks, Keccak!RATE_BYTES

LEMMA KeccakProgramIsOfLength ==
    ASSUME NEW l \in Nat, NEW m \in Nat, Keccak!Accepts(l), Keccak!Accepts(m),
           Keccak!Program(l) = Keccak!Program(m)
    PROVE  l = m
  <1>1. Keccak!Program(l).published = Keccak!Program(m).published
        /\ Keccak!Program(l).pad = Keccak!Program(m).pad
    OBVIOUS
  <1>2. BLOCK_ROWS * Keccak!Blocks(l) - 1 = BLOCK_ROWS * Keccak!Blocks(m) - 1
    BY <1>1 DEF Keccak!Program
  <1>3. Keccak!Blocks(l) = Keccak!Blocks(m)
    <2>1. Keccak!Blocks(l) \in Nat /\ Keccak!Blocks(m) \in Nat
      BY KeccakBlocks
    <2>2. BLOCK_ROWS * Keccak!Blocks(l) = BLOCK_ROWS * Keccak!Blocks(m)
      BY <1>2, <2>1, BlockRowsAreRows
    <2> QED
      BY <2>1, <2>2, BlockProduct
  <1>4. DOMAIN Keccak!PadLanes(l) = DOMAIN Keccak!PadLanes(m)
    BY <1>1 DEF Keccak!Program
  <1>5. ((l % 136) \div 8)..16 = ((m % 136) \div 8)..16
    BY <1>4 DEF Keccak!PadLanes, Keccak!RATE_BYTES, Keccak!LANE_BYTES, Keccak!RATE_LANES
  <1>6. (l % 136) \div 8 = (m % 136) \div 8
    BY <1>5, KeccakBlocks
  <1> QED
    BY <1>3, <1>6, KeccakBlocks DEF Keccak!Accepts, Keccak!LANE_BYTES

LEMMA Sha256ProgramIsOfLength ==
    ASSUME NEW l \in Nat, NEW m \in Nat, Sha256!Accepts(l), Sha256!Accepts(m),
           Sha256!Program(l) = Sha256!Program(m)
    PROVE  l = m
  <1>1. Sha256!Program(l).finalRow = Sha256!Program(m).finalRow
    OBVIOUS
  <1>2. (Sha256!Blocks(l) - 1) * 16 = (Sha256!Blocks(m) - 1) * 16
    BY <1>1 DEF Sha256!Program, Sha256!ROWS_PER_BLOCK
  <1> QED
    BY <1>2 DEF Sha256!Blocks, Sha256!BLOCK_BYTES, Sha256!Accepts

LEMMA HashAccepts ==
    ASSUME NEW len
    PROVE  /\ Accepts("keccak", len) <=> Keccak!Accepts(len)
           /\ Accepts("sha256", len) <=> Sha256!Accepts(len)
  BY Zenon DEF Accepts

LEMMA HashProgram ==
    ASSUME NEW len
    PROVE  /\ Program("keccak", len) = Keccak!Program(len)
           /\ Program("sha256", len) = Sha256!Program(len)
  BY Zenon DEF Program

LEMMA HashLengths ==
    /\ LengthsOf("keccak") = KeccakLengths
    /\ LengthsOf("sha256") = Sha256Lengths
  BY Zenon DEF LengthsOf

\* A program id belongs to one length of a hashed message.
LEMMA ProgramIsOfLength ==
    ASSUME NEW s, IsHash(s), NEW l \in Nat, NEW m \in Nat,
           Accepts(s, l), Accepts(s, m), Program(s, l) = Program(s, m)
    PROVE  l = m
  BY HashAccepts, HashProgram, KeccakProgramIsOfLength, Sha256ProgramIsOfLength DEF IsHash

-----------------------------------------------------------------------------
(***************************************************************************)
(* The verify functions.                                                   *)
(***************************************************************************)
Built == {"witness", "prover", "proved", "verified"}

AcceptedClaim(c) ==
    /\ c \in Claims
    /\ VerifierAccepts(c)
    /\ IsHash(c.statement) => Accepts(c.statement, c.length)

ProofInv ==
    /\ input \in Inputs
    /\ phase \in Built => Accepts(input.statement, input.length)
    /\ phase \in {"proved", "verified"} =>
            /\ proof.id = Program(input.statement, input.length)
            /\ proof.label = input.statement
            /\ proof.public = Public(input)
    /\ phase = "verified" /\ verdict = "Ok" => AcceptedClaim(claim)

LEMMA RoundTripInitInv == RoundTripInit => ProofInv
  BY DEF RoundTripInit, ProofInv, Built

LEMMA RoundTripNextInv == ProofInv /\ [RoundTripNext]_vars => ProofInv'
  <1> SUFFICES ASSUME ProofInv, [RoundTripNext]_vars
               PROVE  ProofInv'
    OBVIOUS
  <1> USE DEF ProofInv, Built, Refuse
  <1>1. CASE BuildStatement
    BY <1>1 DEF BuildStatement
  <1>2. CASE WriteKeccakCall
    BY <1>2 DEF WriteKeccakCall
  <1>3. CASE WriteKeccakRest
    BY <1>3 DEF WriteKeccakRest
  <1>4. CASE WriteSha256Call
    BY <1>4 DEF WriteSha256Call
  <1>5. CASE CheckSignature
    BY <1>5 DEF CheckSignature
  <1>6. CASE TracePipeline
    BY <1>6 DEF TracePipeline
  <1>7. CASE RunProver
    BY <1>7 DEF RunProver
  <1>8. CASE Verify
    <2>1. PICK c \in Claims : claim' = c /\ verdict' = Verdict(c)
      BY <1>8 DEF Verify
    <2>2. /\ phase = "proved" /\ phase' = "verified"
          /\ UNCHANGED <<input, trace, proof>>
      BY <1>8 DEF Verify
    <2>3. verdict' = "Ok" => AcceptedClaim(c)'
      BY <2>1, <2>2
      DEF Verdict, AcceptedClaim, HashRefuses, VerifierAccepts, ProgramId, PublicOf
    <2> QED
      BY <2>1, <2>2, <2>3
  <1>9. CASE UNCHANGED vars
    BY <1>9 DEF vars, AcceptedClaim, VerifierAccepts, ProgramId, PublicOf
  <1> QED
    BY <1>1, <1>2, <1>3, <1>4, <1>5, <1>6, <1>7, <1>8, <1>9 DEF RoundTripNext

LEMMA RoundTripSpecInv == RoundTripSpec => []ProofInv
  BY RoundTripInitInv, RoundTripNextInv, PTL DEF RoundTripSpec

LEMMA HashInputLength ==
    ASSUME NEW i \in Inputs, IsHash(i.statement)
    PROVE  i.length \in Nat
  BY LengthsAreNat DEF Inputs, IsHash

LEMMA HashClaimLength ==
    ASSUME NEW c \in Claims, IsHash(c.statement)
    PROVE  c.length \in Nat
  <1>1. PICK s \in {"keccak", "sha256", "rsa", "mldsa"} :
            c \in [ statement : {s}, length : LengthsOf(s),
                    public : {"own", "other", "misshapen"},
                    id : {"proof's", "pinned", "malformed"}, bytes : BOOLEAN ]
    BY DEF Claims
  <1> QED
    BY <1>1, HashLengths, LengthsAreNat DEF IsHash

\* The verify functions say Ok only of what was proved, for messages of every
\* length, although the program id comes from the caller.
THEOREM VerifiedWasProved == RoundTripSpec => []VerifiedIsProved
  <1>1. ASSUME ProofInv, phase = "verified", verdict = "Ok"
        PROVE  /\ claim.statement = input.statement
               /\ IsHash(input.statement) => claim.length = input.length
               /\ PublicOf(claim) = Public(input)
    <2>1. /\ AcceptedClaim(claim) /\ input \in Inputs
          /\ Accepts(input.statement, input.length)
          /\ proof.id = Program(input.statement, input.length)
          /\ proof.label = input.statement
          /\ proof.public = Public(input)
      BY <1>1 DEF ProofInv, Built
    <2>2. /\ claim.statement = input.statement
          /\ PublicOf(claim) = Public(input)
          /\ Program(input.statement, input.length) = Program(input.statement, claim.length)
      BY <2>1 DEF AcceptedClaim, VerifierAccepts
    <2>3. ASSUME IsHash(input.statement)
          PROVE  claim.length = input.length
      BY <2>1, <2>2, <2>3, HashInputLength, HashClaimLength, ProgramIsOfLength
      DEF AcceptedClaim
    <2> QED
      BY <2>2, <2>3
  <1>2. ProofInv => VerifiedIsProved
    BY <1>1 DEF VerifiedIsProved
  <1> QED
    BY <1>2, RoundTripSpecInv, PTL

-----------------------------------------------------------------------------
(***************************************************************************)
(* The powers of two.  PowerOfTwo is a recursive function: that its        *)
(* equation has a solution, that the powers grow, and that none has an odd *)
(* factor, are inductions over the exponent, each written as a set of      *)
(* numbers that holds 0 and the successor of its members.                  *)
(***************************************************************************)
LEMMA InductionOnSet ==
    ASSUME NEW S, 0 \in S, \A n \in Nat : n \in S => n + 1 \in S
    PROVE  \A n \in Nat : n \in S
  <1> DEFINE T == Nat \ S
  <1> SUFFICES ASSUME T # {}
               PROVE  FALSE
    OBVIOUS
  <1>1. PICK n \in T : \A j \in T : <<j, n>> \notin OpToRel(<, Nat)
    BY NatLessThanWellFounded, WFMin
  <1>2. \A j \in T : ~(j < n)
    BY <1>1 DEF OpToRel
  <1>3. n # 0 /\ n - 1 \in Nat /\ n - 1 < n /\ (n - 1) + 1 = n
    OBVIOUS
  <1>4. n - 1 \in S
    BY <1>2, <1>3
  <1> QED
    BY <1>3, <1>4

\* A solution, up to the exponent n, of the equation of PowerOfTwo.
Doubles(f, n) ==
    /\ f \in [0..n -> Nat]
    /\ f[0] = 1
    /\ \A k \in 0..(n - 1) : f[k + 1] = 2 * f[k]

LEMMA DoublingExists ==
    ASSUME NEW n \in Nat
    PROVE  \E f : Doubles(f, n)
  <1> DEFINE S == {m \in Nat : \E f : Doubles(f, m)}
  <1>1. 0 \in S
    <2>1. Doubles([k \in 0..0 |-> 1], 0)
      BY DEF Doubles
    <2> QED
      BY <2>1
  <1>2. ASSUME NEW m \in Nat, m \in S
        PROVE  m + 1 \in S
    <2>1. PICK f : Doubles(f, m)
      BY <1>2
    <2> DEFINE g == [k \in 0..(m + 1) |-> IF k = m + 1 THEN 2 * f[m] ELSE f[k]]
    <2>2. g \in [0..(m + 1) -> Nat]
      BY <2>1 DEF Doubles
    <2>3. g[0] = 1
      BY <2>1 DEF Doubles
    <2>4. ASSUME NEW k \in 0..((m + 1) - 1)
          PROVE  g[k + 1] = 2 * g[k]
      BY <2>1 DEF Doubles
    <2>5. Doubles(g, m + 1)
      BY <2>2, <2>3, <2>4 DEF Doubles
    <2> QED
      BY <2>5
  <1> HIDE DEF S
  <1>3. n \in S
    BY <1>1, <1>2, InductionOnSet
  <1> QED
    BY <1>3 DEF S

\* The powers of two of the grid, which are the solution for usize.
Pow == Grid!PowerOfTwo

LEMMA PowerOfTwoDoubles == Doubles(Pow, UsizeBits)
  <1> DEFINE Step(f) == [k \in 0..UsizeBits |-> IF k = 0 THEN 1 ELSE 2 * f[k - 1]]
  <1>1. PICK f : Doubles(f, UsizeBits)
    BY DoublingExists, UsizeHoldsMinimum
  <1>2. f = Step(f)
    <2>1. ASSUME NEW k \in 0..UsizeBits
          PROVE  f[k] = IF k = 0 THEN 1 ELSE 2 * f[k - 1]
      <3>1. CASE k = 0
        BY <1>1, <3>1 DEF Doubles
      <3>2. CASE k # 0
        <4>1. k - 1 \in 0..(UsizeBits - 1) /\ (k - 1) + 1 = k
          BY <3>2, UsizeHoldsMinimum
        <4>2. f[(k - 1) + 1] = 2 * f[k - 1]
          BY <1>1, <4>1 DEF Doubles
        <4> QED
          BY <3>2, <4>1, <4>2
      <3> QED
        BY <3>1, <3>2
    <2>2. DOMAIN f = 0..UsizeBits /\ f = [k \in 0..UsizeBits |-> f[k]]
      BY <1>1 DEF Doubles
    <2> QED
      BY <2>1, <2>2
  <1>3. Pow = CHOOSE g : g = Step(g)
    BY DEF Pow, Grid!PowerOfTwo
  <1>4. Pow = Step(Pow)
    BY <1>2, <1>3
  <1>5. \A k \in 0..UsizeBits : Pow[k] = IF k = 0 THEN 1 ELSE 2 * Pow[k - 1]
    BY <1>4
  <1>6. Pow[0] = 1
    BY <1>5, UsizeHoldsMinimum
  <1>7. ASSUME NEW k \in 0..(UsizeBits - 1)
        PROVE  Pow[k + 1] = 2 * Pow[k]
    <2>1. k + 1 \in 0..UsizeBits /\ k + 1 # 0 /\ (k + 1) - 1 = k
      BY UsizeHoldsMinimum
    <2> QED
      BY <1>5, <2>1
  <1>8. \A k \in 0..UsizeBits : Pow[k] \in Nat
    <2> DEFINE S == {k \in Nat : k <= UsizeBits => Pow[k] \in Nat}
    <2>1. 0 \in S
      BY <1>6
    <2>2. ASSUME NEW k \in Nat, k \in S
          PROVE  k + 1 \in S
      <3>1. CASE k + 1 <= UsizeBits
        BY <1>7, <2>2, <3>1, UsizeHoldsMinimum
      <3>2. CASE ~(k + 1 <= UsizeBits)
        BY <3>2
      <3> QED
        BY <3>1, <3>2
    <2> HIDE DEF S
    <2>3. \A k \in Nat : k \in S
      BY <2>1, <2>2, InductionOnSet
    <2> QED
      BY <2>3, UsizeHoldsMinimum DEF S
  <1>9. Pow \in [0..UsizeBits -> Nat]
    BY <1>4, <1>8
  <1> QED
    BY <1>6, <1>7, <1>9 DEF Doubles

LEMMA PowersGrow ==
    ASSUME NEW j \in 0..UsizeBits, NEW k \in 0..UsizeBits
    PROVE  /\ Pow[k] \in Nat \ {0}
           /\ j < k => Pow[j] < Pow[k]
  <1>1. Pow[0] = 1 /\ \A m \in 0..(UsizeBits - 1) : Pow[m + 1] = 2 * Pow[m]
    BY PowerOfTwoDoubles DEF Doubles
  <1>2. ASSUME NEW i \in Nat
        PROVE  i <= UsizeBits =>
                    /\ Pow[i] \in Nat \ {0}
                    /\ \A m \in Nat : m < i => Pow[m] < Pow[i]
    <2> DEFINE S == {n \in Nat : n <= UsizeBits =>
                        /\ Pow[n] \in Nat \ {0}
                        /\ \A m \in Nat : m < n => Pow[m] < Pow[n]}
    <2>1. 0 \in S
      BY <1>1
    <2>2. ASSUME NEW n \in Nat, n \in S
          PROVE  n + 1 \in S
      <3> SUFFICES ASSUME n + 1 <= UsizeBits
                   PROVE  /\ Pow[n + 1] \in Nat \ {0}
                          /\ \A m \in Nat : m < n + 1 => Pow[m] < Pow[n + 1]
        OBVIOUS
      <3>1. n \in 0..(UsizeBits - 1) /\ n <= UsizeBits
        BY UsizeHoldsMinimum
      <3>2. Pow[n] \in Nat \ {0} /\ \A m \in Nat : m < n => Pow[m] < Pow[n]
        BY <2>2, <3>1
      <3>3. Pow[n + 1] = 2 * Pow[n]
        BY <1>1, <3>1
      <3>4. ASSUME NEW m \in Nat, m < n + 1
            PROVE  Pow[m] < Pow[n + 1]
        <4>1. m = n \/ m < n
          BY <3>4
        <4>2. Pow[m] \in Nat
          BY <3>4, <3>1, PowerOfTwoDoubles, UsizeHoldsMinimum DEF Doubles
        <4> QED
          BY <3>2, <3>3, <4>1, <4>2
      <3> QED
        BY <3>2, <3>3, <3>4
    <2> HIDE DEF S
    <2>3. i \in S
      BY <2>1, <2>2, InductionOnSet
    <2> QED
      BY <2>3 DEF S
  <1> QED
    BY <1>2, UsizeHoldsMinimum

LEMMA PowerHasNoOddFactor ==
    ASSUME NEW d \in Nat, d % 2 = 1, d > 1, NEW k \in 0..UsizeBits, NEW m \in Nat
    PROVE  d * m # Pow[k]
  <1> DEFINE S == {n \in Nat : n <= UsizeBits => \A q \in Nat : d * q # Pow[n]}
  <1>1. 0 \in S
    <2>1. ASSUME NEW q \in Nat, d * q = 1
          PROVE  FALSE
      <3>1. q # 0
        BY <2>1
      <3>2. d * q >= d
        BY <3>1
      <3> QED
        BY <2>1, <3>2
    <2>2. Pow[0] = 1
      BY PowerOfTwoDoubles DEF Doubles
    <2> QED
      BY <2>1, <2>2
  <1>2. ASSUME NEW n \in Nat, n \in S
        PROVE  n + 1 \in S
    <2> SUFFICES ASSUME n + 1 <= UsizeBits, NEW q \in Nat, d * q = Pow[n + 1]
                 PROVE  FALSE
      OBVIOUS
    <2>1. n \in 0..(UsizeBits - 1) /\ n <= UsizeBits
      BY UsizeHoldsMinimum
    <2>2. Pow[n + 1] = 2 * Pow[n] /\ Pow[n] \in Nat
      BY <2>1, PowersGrow, PowerOfTwoDoubles DEF Doubles
    <2>3. PICK a \in Nat : d = 2 * a + 1
      <3>1. d \div 2 \in Nat /\ d = 2 * (d \div 2) + 1
        OBVIOUS
      <3> QED
        BY <3>1
    <2> DEFINE h == Pow[n] - a * q
    <2>4. h \in Int /\ q = 2 * h
      <3>1. d * q = 2 * (a * q) + q
        BY <2>3
      <3>2. a * q \in Nat
        BY <2>3
      <3> QED
        BY <2>2, <3>1, <3>2
    <2> HIDE DEF h
    <2>5. h \in Nat
      BY <2>4
    <2>6. d * h = Pow[n]
      <3>1. d * q = 2 * (d * h) /\ d * h \in Nat
        BY <2>4, <2>5
      <3> QED
        BY <2>2, <3>1
    <2> QED
      BY <1>2, <2>1, <2>5, <2>6
  <1> HIDE DEF S
  <1>3. k \in S
    BY <1>1, <1>2, InductionOnSet
  <1> QED
    BY <1>3, UsizeHoldsMinimum DEF S

-----------------------------------------------------------------------------
(***************************************************************************)
(* The rows of a statement: the least grid that holds its blocks.  They do *)
(* not fill it, so that Keccak has a row left for the last state.          *)
(***************************************************************************)
LEMMA LeastExponent ==
    ASSUME NEW n \in Nat, n <= Pow[UsizeBits]
    PROVE  \E k \in 0..UsizeBits : Pow[k] >= n /\ \A j \in 0..(k - 1) : Pow[j] < n
  <1> DEFINE T == {k \in Nat : k <= UsizeBits /\ Pow[k] >= n}
  <1>1. T \subseteq Nat /\ T # {}
    BY UsizeHoldsMinimum
  <1>2. PICK k \in T : \A j \in T : <<j, k>> \notin OpToRel(<, Nat)
    BY <1>1, NatLessThanWellFounded, WFMin
  <1>3. \A j \in T : ~(j < k)
    BY <1>2 DEF OpToRel
  <1>4. \A j \in 0..UsizeBits : Pow[j] \in Nat
    BY PowersGrow
  <1> QED
    BY <1>3, <1>4, UsizeHoldsMinimum

\* The next power of two holds n, and every power that does is no less.
LEMMA NextPowerHolds ==
    ASSUME NEW n \in Nat, n <= Pow[UsizeBits]
    PROVE  /\ Grid!NextPowerOfTwo(n) >= n
           /\ \E e \in 0..UsizeBits :
                /\ Grid!NextPowerOfTwo(n) = Pow[e]
                /\ \A k \in 0..UsizeBits : n <= Pow[k] => Pow[e] <= Pow[k]
  <1> DEFINE P(k) == Pow[k] >= n /\ \A j \in 0..(k - 1) : Pow[j] < n
             e == CHOOSE k \in 0..UsizeBits : P(k)
  <1>1. \E k \in 0..UsizeBits : P(k)
    BY LeastExponent
  <1>2. e \in 0..UsizeBits /\ P(e)
    BY <1>1
  <1>3. Grid!NextPowerOfTwo(n) = Pow[e]
    BY DEF Grid!NextPowerOfTwo, Pow
  <1> HIDE DEF e
  <1>4. ASSUME NEW k \in 0..UsizeBits, n <= Pow[k]
        PROVE  Pow[e] <= Pow[k]
    <2>1. Pow[e] \in Nat /\ Pow[k] \in Nat
      BY <1>2, PowersGrow
    <2>2. ~(k < e)
      <3>1. SUFFICES ASSUME k < e
                     PROVE  FALSE
        OBVIOUS
      <3>2. k \in 0..(e - 1)
        BY <1>2, <3>1
      <3> QED
        BY <1>2, <1>4, <2>1, <3>2
    <2>3. k = e \/ e < k
      BY <1>2, <2>2, UsizeHoldsMinimum
    <2> QED
      BY <1>2, <2>1, <2>3, PowersGrow
  <1> QED
    BY <1>2, <1>3, <1>4

LEMMA NumRowsHold ==
    ASSUME NEW n \in Nat, n <= Pow[UsizeBits]
    PROVE  /\ Grid!NumRows(n) \in Nat /\ Grid!NumRows(n) >= n
           /\ \E k \in 0..UsizeBits : Grid!NumRows(n) = Pow[k]
           /\ \A log \in 8..UsizeBits : Grid!NumRows(n) <= Pow[log] <=> n <= Pow[log]
  <1>1. PICK e \in 0..UsizeBits :
            /\ Grid!NextPowerOfTwo(n) = Pow[e]
            /\ \A k \in 0..UsizeBits : n <= Pow[k] => Pow[e] <= Pow[k]
    BY NextPowerHolds
  <1>2. Pow[e] >= n
    BY <1>1, NextPowerHolds
  <1>3. 8 \in 0..UsizeBits
    BY UsizeHoldsMinimum DEF Grid!MIN_NUM_VARS
  <1>4. Grid!NumRows(n) = IF Pow[e] > Pow[8] THEN Pow[e] ELSE Pow[8]
    BY <1>1 DEF Grid!NumRows, Grid!MIN_NUM_VARS, Pow
  <1>5. Pow[e] \in Nat /\ Pow[8] \in Nat
    BY <1>3, PowersGrow
  <1>6. /\ Grid!NumRows(n) \in Nat /\ Grid!NumRows(n) >= n
        /\ \E k \in 0..UsizeBits : Grid!NumRows(n) = Pow[k]
    BY <1>2, <1>3, <1>4, <1>5
  <1>7. ASSUME NEW log \in 8..UsizeBits
        PROVE  Grid!NumRows(n) <= Pow[log] <=> n <= Pow[log]
    <2>1. log \in 0..UsizeBits /\ (log = 8 \/ 8 < log)
      OBVIOUS
    <2>2. Pow[log] \in Nat /\ Pow[8] <= Pow[log]
      BY <1>3, <2>1, PowersGrow
    <2>3. n <= Pow[log] => Pow[e] <= Pow[log]
      BY <1>1, <2>1
    <2> QED
      BY <1>2, <1>4, <1>5, <2>2, <2>3
  <1> QED
    BY <1>6, <1>7

\* The statements count on one grid.
LEMMA OneGrid ==
    /\ Keccak!PowerOfTwo = Pow /\ Sha256!PowerOfTwo = Pow /\ MlDsa!PowerOfTwo = Pow
    /\ \A n : /\ Keccak!NumRows(n) = Grid!NumRows(n)
              /\ Sha256!NumRows(n) = Grid!NumRows(n)
              /\ MlDsa!NextPowerOfTwo(n) = Grid!NextPowerOfTwo(n)
  BY DEF Pow, Keccak!PowerOfTwo, Sha256!PowerOfTwo, MlDsa!PowerOfTwo, Grid!PowerOfTwo,
         Keccak!NumRows, Sha256!NumRows, Grid!NumRows, Keccak!NextPowerOfTwo,
         Sha256!NextPowerOfTwo, MlDsa!NextPowerOfTwo, Grid!NextPowerOfTwo,
         Keccak!MIN_NUM_VARS, Sha256!MIN_NUM_VARS, Grid!MIN_NUM_VARS

\* No number of blocks fills a grid.
LEMMA BlocksFillNoGrid ==
    ASSUME NEW b \in Nat, NEW k \in 0..UsizeBits
    PROVE  BLOCK_ROWS * b # Pow[k]
  <1>1. PICK d \in 2..BLOCK_ROWS : d % 2 = 1 /\ BLOCK_ROWS % d = 0
    BY BlockRowsHaveOddFactor
  <1> DEFINE q == BLOCK_ROWS \div d
  <1>2. d \in Nat /\ d > 1 /\ BLOCK_ROWS \in Nat
    BY <1>1, BlockRowsAreRows
  <1>3. q \in Nat /\ BLOCK_ROWS = d * q
    BY <1>1, <1>2
  <1> HIDE DEF q
  <1>4. q * b \in Nat /\ BLOCK_ROWS * b = d * (q * b)
    BY <1>2, <1>3
  <1> QED
    BY <1>1, <1>2, <1>4, PowerHasNoOddFactor

LEMMA BlocksApart ==
    ASSUME NEW b \in Nat, NEW c \in Nat
    PROVE  /\ BLOCK_ROWS * b \in Nat
           /\ BLOCK_ROWS * (b + 1) = BLOCK_ROWS * b + BLOCK_ROWS
           /\ c < b => BLOCK_ROWS * c + BLOCK_ROWS <= BLOCK_ROWS * b
  <1>1. BLOCK_ROWS \in Nat
    BY BlockRowsAreRows
  <1>2. BLOCK_ROWS * b \in Nat /\ BLOCK_ROWS * (b + 1) = BLOCK_ROWS * b + BLOCK_ROWS
    BY <1>1
  <1>3. ASSUME c < b
        PROVE  BLOCK_ROWS * c + BLOCK_ROWS <= BLOCK_ROWS * b
    <2>1. PICK d \in Nat : b = c + 1 + d
      <3>1. b - c - 1 \in Nat /\ b = c + 1 + (b - c - 1)
        BY <1>3
      <3> QED
        BY <3>1
    <2>2. BLOCK_ROWS * b = BLOCK_ROWS * c + BLOCK_ROWS + BLOCK_ROWS * d
      BY <1>1, <2>1
    <2>3. BLOCK_ROWS * d \in Nat /\ BLOCK_ROWS * c \in Nat
      BY <1>1, <2>1
    <2> QED
      BY <1>1, <2>2, <2>3
  <1> QED
    BY <1>2, <1>3

-----------------------------------------------------------------------------
(***************************************************************************)
(* The trace of Keccak: what b turns of the loop have written, and what is *)
(* left to write when they are through.                                    *)
(***************************************************************************)
LEMMA KeccakCounts ==
    ASSUME NEW len \in KeccakLengths
    PROVE  /\ len \in Nat
           /\ Keccak!Blocks(len) \in Nat \ {0}
           /\ Keccak!CallCount(len) = Keccak!Blocks(len)
           /\ Keccak!Rows(len) \in Nat
           /\ BLOCK_ROWS * Keccak!Blocks(len) < Keccak!Rows(len)
  <1>1. len \in Nat
    BY LengthsAreNat
  <1>2. Keccak!Blocks(len) \in Nat \ {0}
    BY <1>1, KeccakBlocks
  <1>3. Keccak!CallCount(len) = Keccak!Blocks(len)
    BY <1>1 DEF Keccak!CallCount, Keccak!Blocks, Keccak!RATE_BYTES, Keccak!LANE_BYTES,
                Keccak!RATE_LANES
  <1> DEFINE n == BLOCK_ROWS * Keccak!Blocks(len)
  <1>4. n \in Nat /\ n <= Pow[UsizeBits]
    BY <1>2, BlocksApart, UsizeHoldsRows DEF Pow
  <1> HIDE DEF n
  <1>5. /\ Grid!NumRows(n) \in Nat /\ Grid!NumRows(n) >= n
        /\ \E k \in 0..UsizeBits : Grid!NumRows(n) = Pow[k]
    BY <1>4, NumRowsHold
  <1>6. \A k \in 0..UsizeBits : n # Pow[k]
    BY <1>2, BlocksFillNoGrid DEF n
  <1>7. Keccak!Rows(len) = Grid!NumRows(n)
    BY OneGrid DEF Keccak!Rows, n
  <1>8. n < Keccak!Rows(len)
    BY <1>4, <1>5, <1>6, <1>7
  <1> QED
    BY <1>1, <1>2, <1>3, <1>5, <1>7, <1>8 DEF n

KeccakTraceFields ==
    {"rows", "row", "calls", "state", "selector", "outGate", "padSeam"}

\* The first b calls of a message are in the trace.
KeccakWritten(len, tr, b) ==
    /\ DOMAIN tr = KeccakTraceFields
    /\ tr.rows = Keccak!Rows(len)
    /\ tr.row = BLOCK_ROWS * b
    /\ tr.calls = b
    /\ DOMAIN tr.state = 0..(Keccak!Rows(len) - 1)
    /\ \A c \in 0..(b - 1) :
            /\ tr.state[Keccak!InputRow(c)] = Keccak!Input(len, c)
            /\ tr.state[Keccak!OutputRow(c)] = Keccak!Output(c)
    /\ tr.selector = {Keccak!InputRow(c) : c \in 0..(b - 1)}
                        \cup {Keccak!OutputRow(c) : c \in 0..(b - 1)}
    /\ tr.outGate = {Keccak!OutputRow(c) : c \in 0..(b - 1)}
    /\ tr.padSeam = {}

LEMMA KeccakEmpty ==
    ASSUME NEW len \in KeccakLengths
    PROVE  KeccakWritten(len, Keccak!EmptyTrace(len), 0)
  <1>1. BLOCK_ROWS * 0 = 0
    BY BlockRowsAreRows
  <1>2. 0..(0 - 1) = {}
    OBVIOUS
  <1> QED
    BY <1>1, <1>2 DEF KeccakWritten, Keccak!EmptyTrace, KeccakTraceFields

LEMMA KeccakRowsApart ==
    ASSUME NEW b \in Nat, NEW c \in 0..(b - 1)
    PROVE  /\ Keccak!InputRow(c) \in Nat /\ Keccak!OutputRow(c) \in Nat
           /\ Keccak!InputRow(c) < BLOCK_ROWS * b
           /\ Keccak!OutputRow(c) < BLOCK_ROWS * b
           /\ Keccak!InputRow(c) # Keccak!OutputRow(c)
  BY BlocksApart, BlockRowsAreRows DEF Keccak!InputRow, Keccak!OutputRow

LEMMA KeccakCallFits ==
    ASSUME NEW len \in KeccakLengths, NEW tr, NEW b \in Nat, b < Keccak!Blocks(len),
           KeccakWritten(len, tr, b)
    PROVE  Keccak!CallFits(tr)
  <1>1. BLOCK_ROWS * b + BLOCK_ROWS <= BLOCK_ROWS * Keccak!Blocks(len)
    BY BlocksApart, KeccakCounts
  <1> QED
    BY <1>1, KeccakCounts, BlocksApart, BlockRowsAreRows DEF KeccakWritten, Keccak!CallFits

LEMMA KeccakCallKeeps ==
    ASSUME NEW len \in KeccakLengths, NEW tr, NEW b \in Nat, b < Keccak!Blocks(len),
           KeccakWritten(len, tr, b)
    PROVE  KeccakWritten(len, Keccak!WriteCall(len, tr), b + 1)
  <1> DEFINE new == Keccak!WriteCall(len, tr)
             first == BLOCK_ROWS * b
             last == BLOCK_ROWS * b + BLOCK_ROWS - 1
  <1>1. /\ DOMAIN new = KeccakTraceFields
        /\ new.rows = Keccak!Rows(len)
        /\ new.row = last + 1
        /\ new.calls = b + 1
        /\ new.state = [tr.state EXCEPT ![first] = Keccak!Input(len, b),
                                        ![last] = Keccak!Output(b)]
        /\ new.selector = tr.selector \cup {first, last}
        /\ new.outGate = tr.outGate \cup {last}
        /\ new.padSeam = {}
    <2>1. /\ DOMAIN tr = KeccakTraceFields /\ tr.rows = Keccak!Rows(len) /\ tr.padSeam = {}
          /\ tr.row = first /\ tr.calls = b
      BY DEF KeccakWritten
    <2>2. new = [tr EXCEPT !.state = [tr.state EXCEPT ![first] = Keccak!Input(len, b),
                                                      ![last] = Keccak!Output(b)],
                           !.selector = tr.selector \cup {first, last},
                           !.outGate = tr.outGate \cup {last},
                           !.row = last + 1,
                           !.calls = b + 1]
      BY <2>1, Zenon DEF Keccak!WriteCall
    <2> QED
      BY <2>1, <2>2 DEF KeccakTraceFields
  <1> HIDE DEF new
  <1>2. /\ first \in Nat /\ last \in Nat /\ first # last
        /\ last < BLOCK_ROWS * Keccak!Blocks(len)
        /\ last + 1 = BLOCK_ROWS * (b + 1)
        /\ Keccak!InputRow(b) = first /\ Keccak!OutputRow(b) = last
    BY BlocksApart, BlockRowsAreRows, KeccakCounts DEF Keccak!InputRow, Keccak!OutputRow
  <1>3. first \in DOMAIN tr.state /\ last \in DOMAIN tr.state
    BY <1>2, KeccakCounts, BlockRowsAreRows, BlocksApart DEF KeccakWritten
  <1> HIDE DEF first, last
  <1>4. DOMAIN new.state = 0..(Keccak!Rows(len) - 1)
    BY <1>1 DEF KeccakWritten
  <1>5. ASSUME NEW c \in 0..((b + 1) - 1)
        PROVE  /\ new.state[Keccak!InputRow(c)] = Keccak!Input(len, c)
               /\ new.state[Keccak!OutputRow(c)] = Keccak!Output(c)
    <2>1. CASE c = b
      BY <1>1, <1>2, <1>3, <2>1
    <2>2. CASE c # b
      <3>1. c \in 0..(b - 1)
        BY <2>2
      <3>2. /\ tr.state[Keccak!InputRow(c)] = Keccak!Input(len, c)
            /\ tr.state[Keccak!OutputRow(c)] = Keccak!Output(c)
        BY <3>1 DEF KeccakWritten
      <3>3. /\ Keccak!InputRow(c) \notin {first, last}
            /\ Keccak!OutputRow(c) \notin {first, last}
        <4>1. Keccak!InputRow(c) < first /\ Keccak!OutputRow(c) < first
          BY <3>1, KeccakRowsApart DEF first
        <4>2. first <= last
          BY BlocksApart, BlockRowsAreRows DEF first, last
        <4> QED
          BY <3>1, <4>1, <4>2, <1>2, KeccakRowsApart
      <3>4. /\ Keccak!InputRow(c) \in DOMAIN tr.state
            /\ Keccak!OutputRow(c) \in DOMAIN tr.state
        BY <3>1, KeccakRowsApart, <1>2, KeccakCounts, BlockRowsAreRows, BlocksApart
        DEF KeccakWritten, first, last
      <3> QED
        BY <1>1, <3>2, <3>3, <3>4
    <2> QED
      BY <2>1, <2>2
  <1>6. new.outGate = {Keccak!OutputRow(c) : c \in 0..((b + 1) - 1)}
    <2>1. 0..((b + 1) - 1) = 0..(b - 1) \cup {b}
      OBVIOUS
    <2> QED
      BY <2>1, <1>1, <1>2 DEF KeccakWritten
  <1>7. new.selector = {Keccak!InputRow(c) : c \in 0..((b + 1) - 1)}
                        \cup {Keccak!OutputRow(c) : c \in 0..((b + 1) - 1)}
    <2>1. 0..((b + 1) - 1) = 0..(b - 1) \cup {b}
      OBVIOUS
    <2> QED
      BY <2>1, <1>1, <1>2 DEF KeccakWritten
  <1> QED
    BY <1>1, <1>2, <1>4, <1>5, <1>6, <1>7 DEF KeccakWritten, new

\* The pad of the program is what the last block absorbs into its lanes.
LEMMA KeccakPadIsAbsorbed ==
    ASSUME NEW len \in KeccakLengths, NEW i \in DOMAIN Keccak!PadLanes(len)
    PROVE  /\ i \in 0..16
           /\ Keccak!Absorbed(len, Keccak!Blocks(len) - 1)[i]
                = Keccak!PadTerm(Keccak!PadLanes(len)[i])
  <1> DEFINE n == Keccak!Blocks(len)
             first == (len % 136) \div 8
             word == 17 * (n - 1) + i
             absorbed == Keccak!Absorbed(len, n - 1)[i]
             pad == Keccak!PadLanes(len)[i]
  <1>1. len \in Nat /\ n \in Nat \ {0} /\ Keccak!CallCount(len) = n /\ first \in 0..16
    BY KeccakCounts, KeccakBlocks
  <1>2. len \div 8 = 17 * (n - 1) + first
    BY <1>1 DEF Keccak!Blocks, Keccak!RATE_BYTES
  <1>3. i \in first..16
    BY DEF Keccak!PadLanes, Keccak!RATE_BYTES, Keccak!LANE_BYTES, Keccak!RATE_LANES
  <1>4. /\ ~(word < len \div 8)
        /\ word = len \div 8 <=> i = first
        /\ word = 17 * n - 1 <=> i = 16
    BY <1>1, <1>2, <1>3
  <1>5. pad = {s \in {"separator", "final"} : \/ s = "separator" /\ i = first
                                              \/ s = "final" /\ i = 16}
    BY <1>3 DEF Keccak!PadLanes, Keccak!RATE_BYTES, Keccak!LANE_BYTES, Keccak!RATE_LANES
  <1>6. absorbed = {s \in {<<"message", word>>, <<"separator">>, <<"final">>} :
                        \/ s[1] = "message" /\ word < len \div 8
                        \/ s[1] = "separator" /\ word = len \div 8
                        \/ s[1] = "final" /\ word = 17 * n - 1}
    BY <1>1, <1>3 DEF Keccak!Absorbed, Keccak!Lanes, Keccak!STATE_LANES, Keccak!RATE_BYTES,
                      Keccak!LANE_BYTES, Keccak!RATE_LANES
  <1> HIDE DEF absorbed, pad, word, n, first
  <1>7. absorbed = {s \in {<<"separator">>, <<"final">>} :
                        \/ s = <<"separator">> /\ i = first
                        \/ s = <<"final">> /\ i = 16}
    BY <1>4, <1>6
  <1>8. absorbed = {<<s>> : s \in pad}
    BY <1>5, <1>7
  <1> QED
    BY <1>1, <1>3, <1>8 DEF absorbed, pad, n, Keccak!PadTerm

LEMMA KeccakCapacityIsFree ==
    ASSUME NEW len, NEW b, NEW i \in Keccak!CapacityLanes
    PROVE  /\ i \in Keccak!Lanes
           /\ Keccak!Absorbed(len, b)[i] = {}
           /\ Keccak!Input(len, b)[i] = IF b = 0 THEN {} ELSE Keccak!Output(b - 1)[i]
  <1>1. i \in 17..24 /\ i \in Keccak!Lanes
    BY DEF Keccak!CapacityLanes, Keccak!Lanes, Keccak!STATE_LANES, Keccak!RATE_BYTES,
           Keccak!LANE_BYTES, Keccak!RATE_LANES
  <1>2. Keccak!Absorbed(len, b)[i] = {}
    BY <1>1 DEF Keccak!Absorbed, Keccak!RATE_BYTES, Keccak!LANE_BYTES, Keccak!RATE_LANES
  <1>3. Keccak!Input(len, b)[i] =
            Keccak!Plus(IF b = 0 THEN {} ELSE Keccak!Output(b - 1)[i], {})
    BY <1>1, <1>2 DEF Keccak!Input
  <1> QED
    BY <1>1, <1>2, <1>3 DEF Keccak!Plus

LEMMA PlusCancels ==
    ASSUME NEW x, NEW y
    PROVE  /\ Keccak!Plus(x, x) = {}
           /\ Keccak!Plus({}, y) = y
           /\ Keccak!Plus(Keccak!Plus(x, y), x) = y
  BY DEF Keccak!Plus

LEMMA KeccakRestFits ==
    ASSUME NEW len \in KeccakLengths, NEW tr, KeccakWritten(len, tr, Keccak!Blocks(len))
    PROVE  Keccak!RestFits(tr)
  BY KeccakCounts DEF KeccakWritten, Keccak!RestFits

LEMMA KeccakWhole ==
    ASSUME NEW len \in KeccakLengths, NEW tr, KeccakWritten(len, tr, Keccak!Blocks(len))
    PROVE  Keccak!Satisfies(Keccak!WriteRest(len, tr), Keccak!Program(len),
                            Keccak!Digest(len))
  <1> DEFINE n == Keccak!Blocks(len)
             end == BLOCK_ROWS * n
             rest == [i \in Keccak!Lanes |-> IF i \in Keccak!CapacityLanes
                                             THEN Keccak!Output(n - 1)[i] ELSE {}]
             new == Keccak!WriteRest(len, tr)
             p == Keccak!Program(len)
  <1>1. /\ n \in Nat \ {0} /\ end \in Nat /\ end < Keccak!Rows(len)
        /\ Keccak!CallCount(len) = n /\ Keccak!Rows(len) \in Nat
    BY KeccakCounts, BlocksApart
  <1>2. /\ DOMAIN tr = KeccakTraceFields /\ tr.rows = Keccak!Rows(len)
        /\ tr.row = end /\ tr.calls = n
        /\ DOMAIN tr.state = 0..(Keccak!Rows(len) - 1)
    BY DEF KeccakWritten
  <1>3. new = [tr EXCEPT !.state = [tr.state EXCEPT ![end] = rest],
                         !.padSeam = IF n > 1 THEN {Keccak!PadSeamRow(n)} ELSE {}]
    BY <1>2, Zenon DEF Keccak!WriteRest
  <1>4. /\ p.rows = Keccak!Rows(len)
        /\ p.selector = {Keccak!InputRow(c) : c \in 0..(n - 1)}
                            \cup {Keccak!OutputRow(c) : c \in 0..(n - 1)}
        /\ p.emit = {Keccak!OutputRow(c) : c \in 0..(n - 1)}
        /\ p.seam = IF n = 1 THEN {} ELSE {Keccak!PadSeamRow(n)}
        /\ p.pad = Keccak!PadLanes(len)
        /\ p.published = end - 1
    BY DEF Keccak!Program
  <1> HIDE DEF n, end, rest, new, p
  <1>5. /\ new.rows = tr.rows
        /\ new.selector = tr.selector
        /\ new.outGate = tr.outGate
        /\ new.state = [tr.state EXCEPT ![end] = rest]
        /\ new.padSeam = IF n > 1 THEN {Keccak!PadSeamRow(n)} ELSE {}
    BY <1>2, <1>3 DEF KeccakTraceFields
  <1>6. new.state[end] = rest
    BY <1>1, <1>2, <1>5
  <1>7. ASSUME NEW c \in 0..(n - 1)
        PROVE  /\ new.state[Keccak!InputRow(c)] = Keccak!Input(len, c)
               /\ new.state[Keccak!OutputRow(c)] = Keccak!Output(c)
    <2>1. /\ tr.state[Keccak!InputRow(c)] = Keccak!Input(len, c)
          /\ tr.state[Keccak!OutputRow(c)] = Keccak!Output(c)
      BY DEF KeccakWritten, n
    <2>2. /\ Keccak!InputRow(c) \in 0..(end - 1)
          /\ Keccak!OutputRow(c) \in 0..(end - 1)
      BY <1>1, KeccakRowsApart DEF end
    <2> QED
      BY <1>1, <1>2, <1>5, <2>1, <2>2
  <1>8. ASSUME NEW c \in 0..(n - 1)
        PROVE  Keccak!OutputRow(c) + 1 = IF c = n - 1 THEN end ELSE Keccak!InputRow(c + 1)
    BY <1>1, BlocksApart, BlockRowsAreRows DEF Keccak!InputRow, Keccak!OutputRow, end
  <1>9. Keccak!InputRow(0) = 0 /\ Keccak!OutputRow(n - 1) = end - 1
    <2>1. BLOCK_ROWS * 0 = 0
      BY BlockRowsAreRows
    <2>2. Keccak!OutputRow(n - 1) + 1 = end
      BY <1>1, <1>8
    <2>3. Keccak!OutputRow(n - 1) \in Nat
      BY <1>1, KeccakRowsApart
    <2> QED
      BY <1>1, <2>1, <2>2, <2>3 DEF Keccak!InputRow
  <1>10. \A i \in Keccak!CapacityLanes : new.state[0][i] = {}
    BY <1>1, <1>7, <1>9, KeccakCapacityIsFree
  <1>11. \A r \in p.emit, i \in Keccak!CapacityLanes :
            Keccak!Plus(new.state[r + 1][i], new.state[r][i]) = {}
    <2> SUFFICES ASSUME NEW c \in 0..(n - 1), NEW i \in Keccak!CapacityLanes
                 PROVE  Keccak!Plus(new.state[Keccak!OutputRow(c) + 1][i],
                                    new.state[Keccak!OutputRow(c)][i]) = {}
      BY <1>4
    <2>1. new.state[Keccak!OutputRow(c) + 1][i] = Keccak!Output(c)[i]
      <3>1. CASE c = n - 1
        BY <1>6, <1>8, <3>1, KeccakCapacityIsFree DEF rest
      <3>2. CASE c # n - 1
        <4>1. c + 1 \in 0..(n - 1) /\ c + 1 # 0 /\ (c + 1) - 1 = c
          BY <1>1, <3>2
        <4> QED
          BY <1>7, <1>8, <3>2, <4>1, KeccakCapacityIsFree
      <3> QED
        BY <3>1, <3>2
    <2> QED
      BY <1>7, <2>1, PlusCancels
  <1>12. IF p.seam = {}
         THEN \A i \in DOMAIN p.pad : new.state[0][i] = Keccak!PadTerm(p.pad[i])
         ELSE \A r \in p.seam, i \in DOMAIN p.pad :
                  Keccak!Plus(new.state[r + 1][i], new.state[r][i])
                    = Keccak!PadTerm(p.pad[i])
    <2>1. ASSUME NEW i \in DOMAIN p.pad, NEW c \in {n - 1}
          PROVE  /\ i \in Keccak!Lanes
                 /\ Keccak!Absorbed(len, c)[i] = Keccak!PadTerm(p.pad[i])
      BY <1>4, KeccakPadIsAbsorbed DEF n, Keccak!Lanes, Keccak!STATE_LANES
    <2>2. ASSUME NEW i \in DOMAIN p.pad
          PROVE  new.state[Keccak!InputRow(n - 1)][i] =
                    Keccak!Plus(IF n - 1 = 0 THEN {} ELSE Keccak!Output((n - 1) - 1)[i],
                                Keccak!PadTerm(p.pad[i]))
      <3>1. n - 1 \in 0..(n - 1)
        BY <1>1
      <3>2. new.state[Keccak!InputRow(n - 1)] = Keccak!Input(len, n - 1)
        BY <1>7, <3>1
      <3>3. Keccak!Input(len, n - 1)[i] =
                Keccak!Plus(IF n - 1 = 0 THEN {} ELSE Keccak!Output((n - 1) - 1)[i],
                            Keccak!Absorbed(len, n - 1)[i])
        BY <2>1 DEF Keccak!Input
      <3> QED
        BY <2>1, <3>2, <3>3
    <2>3. CASE n = 1
      BY <1>4, <1>9, <2>2, <2>3, PlusCancels
    <2>4. CASE n # 1
      <3>1. n - 2 \in 0..(n - 1) /\ n - 2 # n - 1 /\ (n - 2) + 1 = n - 1
            /\ (n - 1) - 1 = n - 2 /\ n - 1 # 0
        BY <1>1, <2>4
      <3>2. Keccak!OutputRow(n - 2) + 1 = Keccak!InputRow(n - 1)
        BY <1>8, <3>1
      <3>3. Keccak!PadSeamRow(n) = Keccak!OutputRow(n - 2)
        <4>1. Keccak!PadSeamRow(n) = Keccak!InputRow(n - 1) - 1
          BY DEF Keccak!PadSeamRow, Keccak!InputRow
        <4> QED
          BY <1>1, <3>1, <3>2, <4>1, KeccakRowsApart
      <3> QED
        BY <1>4, <1>7, <2>2, <2>4, <3>1, <3>2, <3>3, PlusCancels
    <2> QED
      BY <2>3, <2>4
  <1>13. \A i \in DOMAIN Keccak!Digest(len) :
            new.state[p.published][i] = Keccak!Digest(len)[i]
    BY <1>1, <1>4, <1>7, <1>9 DEF Keccak!Digest
  <1>14. /\ new.rows = p.rows /\ new.selector = p.selector
         /\ new.outGate = p.emit /\ new.padSeam = p.seam
    <2>1. /\ tr.selector = {Keccak!InputRow(c) : c \in 0..(n - 1)}
                                \cup {Keccak!OutputRow(c) : c \in 0..(n - 1)}
          /\ tr.outGate = {Keccak!OutputRow(c) : c \in 0..(n - 1)}
      BY DEF KeccakWritten, n
    <2> QED
      BY <1>1, <1>2, <1>4, <1>5, <2>1
  <1>15. Keccak!Satisfies(new, p, Keccak!Digest(len))
    BY <1>10, <1>11, <1>12, <1>13, <1>14 DEF Keccak!Satisfies
  <1> QED
    BY <1>15 DEF new, p

-----------------------------------------------------------------------------
(***************************************************************************)
(* The trace of SHA-256: each row holds what its block has.                *)
(***************************************************************************)
LEMMA Sha256Counts ==
    ASSUME NEW len \in Sha256Lengths
    PROVE  /\ len \in Nat
           /\ Sha256!Blocks(len) \in Nat \ {0}
           /\ Sha256!Blocks(len) - 1 = len \div 64
           /\ Sha256!CallCount(len) = Sha256!Blocks(len)
           /\ Sha256!Rows(len) \in Nat
           /\ 16 * Sha256!Blocks(len) <= Sha256!Rows(len)
  <1>1. len \in Nat
    BY LengthsAreNat
  <1> DEFINE n == Sha256!Blocks(len) * 16
  <1>2. /\ Sha256!Blocks(len) \in Nat \ {0}
        /\ Sha256!Blocks(len) - 1 = len \div 64
        /\ Sha256!CallCount(len) = Sha256!Blocks(len)
        /\ n = 16 * Sha256!Blocks(len)
    BY <1>1 DEF Sha256!CallCount, Sha256!Blocks, Sha256!BLOCK_BYTES
  <1>3. n \in Nat /\ n <= Pow[UsizeBits]
    BY <1>2, UsizeHoldsRows DEF Sha256!ROWS_PER_BLOCK, Pow
  <1>4. Sha256!Rows(len) = Grid!NumRows(n)
    BY OneGrid DEF Sha256!Rows, Sha256!ROWS_PER_BLOCK
  <1> HIDE DEF n
  <1> QED
    BY <1>1, <1>2, <1>3, <1>4, NumRowsHold

LEMMA CadenceGrows ==
    ASSUME NEW b \in Nat, NEW offsets
    PROVE  Sha256!Cadence(b + 1, offsets)
                = Sha256!Cadence(b, offsets) \cup {b * 16 + o : o \in offsets}
  <1>1. 0..((b + 1) - 1) = 0..(b - 1) \cup {b}
    OBVIOUS
  <1> QED
    BY <1>1 DEF Sha256!Cadence, Sha256!ROWS_PER_BLOCK

Sha256TraceFields == {"rows", "calls", "block", "active", "carry", "chain"}

\* A row of the trace: its block's.
Sha256RowOf(len, r) ==
    [ hIn |-> Sha256!Chaining(len, r \div 16), msg |-> Sha256!PaddedBlock(len, r \div 16),
      hOut |-> Sha256!Chaining(len, r \div 16 + 1) ]

CarryOffsets == {o \in Sha256!Offsets : o + 1 < Sha256!ROWS_PER_BLOCK}

\* The first b blocks of a message are in the trace.
Sha256Written(len, tr, b) ==
    /\ DOMAIN tr = Sha256TraceFields
    /\ tr.rows = Sha256!Rows(len)
    /\ tr.calls = b
    /\ DOMAIN tr.block = 0..(Sha256!Rows(len) - 1)
    /\ \A r \in 0..(16 * b - 1) : tr.block[r] = Sha256RowOf(len, r)
    /\ tr.active = Sha256!Cadence(b, {0})
    /\ tr.carry = Sha256!Cadence(b, CarryOffsets)
    /\ tr.chain = Sha256!Cadence(IF b < Sha256!Blocks(len) THEN b
                                 ELSE Sha256!Blocks(len) - 1, {15})

LEMMA Sha256Empty ==
    ASSUME NEW len \in Sha256Lengths
    PROVE  Sha256Written(len, Sha256!EmptyTrace(len), 0)
  <1>1. 0..(0 - 1) = {} /\ 0..(16 * 0 - 1) = {} /\ 0 < Sha256!Blocks(len)
    BY Sha256Counts
  <1>2. \A offsets : Sha256!Cadence(0, offsets) = {}
    BY <1>1 DEF Sha256!Cadence
  <1> QED
    BY <1>1, <1>2 DEF Sha256Written, Sha256!EmptyTrace, Sha256TraceFields

LEMMA Sha256CallFits ==
    ASSUME NEW len \in Sha256Lengths, NEW tr, NEW b \in Nat, b < Sha256!Blocks(len),
           Sha256Written(len, tr, b)
    PROVE  Sha256!CallFits(tr)
  BY Sha256Counts DEF Sha256Written, Sha256!CallFits, Sha256!ROWS_PER_BLOCK

LEMMA Sha256CallKeeps ==
    ASSUME NEW len \in Sha256Lengths, NEW tr, NEW b \in Nat, b < Sha256!Blocks(len),
           Sha256Written(len, tr, b)
    PROVE  /\ Sha256Written(len, Sha256!WriteCall(len, tr), b + 1)
           /\ Sha256!AllCallsWritten(len, Sha256!WriteCall(len, tr))
                <=> b + 1 = Sha256!Blocks(len)
  <1> DEFINE n == Sha256!Blocks(len)
             new == Sha256!WriteCall(len, tr)
             first == b * 16
             last == first + 15
             row == [hIn |-> Sha256!Chaining(len, b), msg |-> Sha256!PaddedBlock(len, b),
                     hOut |-> Sha256!Chaining(len, b + 1)]
  <1>1. /\ DOMAIN tr = Sha256TraceFields /\ tr.rows = Sha256!Rows(len) /\ tr.calls = b
        /\ DOMAIN tr.block = 0..(Sha256!Rows(len) - 1)
        /\ tr.active = Sha256!Cadence(b, {0}) /\ tr.carry = Sha256!Cadence(b, CarryOffsets)
        /\ tr.chain = Sha256!Cadence(b, {15})
    BY DEF Sha256Written
  <1>2. /\ n \in Nat \ {0} /\ Sha256!CallCount(len) = n /\ Sha256!Rows(len) \in Nat
        /\ 16 * n <= Sha256!Rows(len)
    BY Sha256Counts
  <1>3. b * 16 + 16 - 1 = last
    OBVIOUS
  <1> HIDE DEF last
  <1>4. new = [tr EXCEPT
                  !.block = [r \in DOMAIN tr.block |->
                                IF r \in first..last THEN row ELSE tr.block[r]],
                  !.active = tr.active \cup {first},
                  !.carry = tr.carry \cup first..(last - 1),
                  !.chain = IF b < n - 1 THEN tr.chain \cup {last} ELSE tr.chain,
                  !.calls = b + 1]
    BY <1>1, <1>2, <1>3, Zenon DEF Sha256!WriteCall, Sha256!ROWS_PER_BLOCK
  <1> HIDE DEF new, n, first, row
  <1>5. /\ DOMAIN new = Sha256TraceFields
        /\ new.rows = tr.rows
        /\ new.calls = b + 1
        /\ new.block = [r \in DOMAIN tr.block |->
                            IF r \in first..last THEN row ELSE tr.block[r]]
        /\ new.active = tr.active \cup {first}
        /\ new.carry = tr.carry \cup first..(last - 1)
        /\ new.chain = IF b < n - 1 THEN tr.chain \cup {last} ELSE tr.chain
    BY <1>1, <1>4 DEF Sha256TraceFields
  <1>6. ASSUME NEW r \in 0..(16 * (b + 1) - 1)
        PROVE  new.block[r] = Sha256RowOf(len, r)
    <2>1. r \in DOMAIN tr.block
      BY <1>1, <1>2 DEF n
    <2>2. CASE r \in first..last
      <3>1. r \div 16 = b
        BY <2>2 DEF first, last
      <3> QED
        BY <1>5, <2>1, <2>2, <3>1 DEF row, Sha256RowOf
    <2>3. CASE r \notin first..last
      <3>1. r \in 0..(16 * b - 1)
        BY <2>3 DEF first, last
      <3>2. tr.block[r] = Sha256RowOf(len, r)
        BY <3>1 DEF Sha256Written
      <3> QED
        BY <1>5, <2>1, <2>3, <3>2
    <2> QED
      BY <2>2, <2>3
  <1>7. new.active = Sha256!Cadence(b + 1, {0})
    <2>1. {b * 16 + o : o \in {0}} = {first}
      BY DEF first
    <2> QED
      BY <1>1, <1>5, <2>1, CadenceGrows
  <1>8. new.carry = Sha256!Cadence(b + 1, CarryOffsets)
    <2>1. {b * 16 + o : o \in CarryOffsets} = first..(last - 1)
      <3>1. CarryOffsets = 0..14
        BY DEF CarryOffsets, Sha256!Offsets, Sha256!ROWS_PER_BLOCK
      <3>2. ASSUME NEW x \in first..(last - 1)
            PROVE  x - first \in CarryOffsets /\ x = b * 16 + (x - first)
        BY <3>1 DEF first, last
      <3>3. ASSUME NEW o \in CarryOffsets
            PROVE  b * 16 + o \in first..(last - 1)
        BY <3>1 DEF first, last
      <3> QED
        BY <3>2, <3>3
    <2> QED
      BY <1>1, <1>5, <2>1, CadenceGrows
  <1>9. new.chain = Sha256!Cadence(IF b + 1 < n THEN b + 1 ELSE n - 1, {15})
    <2>1. {b * 16 + o : o \in {15}} = {last}
      BY DEF first, last
    <2>2. CASE b < n - 1
      <3>1. b + 1 < n /\ b < n
        BY <1>2, <2>2
      <3>2. Sha256!Cadence(b + 1, {15}) = Sha256!Cadence(b, {15}) \cup {last}
        BY <2>1, CadenceGrows
      <3> QED
        BY <1>1, <1>5, <2>2, <3>1, <3>2
    <2>3. CASE ~(b < n - 1)
      <3>1. b = n - 1 /\ ~(b + 1 < n)
        BY <1>2, <2>3 DEF n
      <3> QED
        BY <1>1, <1>5, <2>3, <3>1
    <2> QED
      BY <2>2, <2>3
  <1> QED
    BY <1>1, <1>2, <1>5, <1>6, <1>7, <1>8, <1>9
    DEF Sha256Written, Sha256!AllCallsWritten, new, n

\* An accepted message fills its blocks: the last one is the pad.
LEMMA Sha256PadIsLast ==
    ASSUME NEW len \in Sha256Lengths
    PROVE  Sha256!PaddedBlock(len, Sha256!Blocks(len) - 1) = Sha256!PaddingBlock(len)
  <1>1. ~(Sha256!Blocks(len) - 1 < len \div 64)
    BY Sha256Counts
  <1>2. ((len * 8) \div WordSize) % WordSize = (len * 8) \div WordSize
    <2>1. (len * 8) \div WordSize \in Nat
      BY Sha256Counts, BitsFitTwoWords
    <2>2. ASSUME NEW x \in Nat, x < WordSize
          PROVE  x % WordSize = x
      BY <2>2, BitsFitTwoWords
    <2> QED
      BY <2>1, <2>2, BitsFitTwoWords
  <1> QED
    BY <1>1, <1>2 DEF Sha256!PaddedBlock, Sha256!PaddingBlock, Sha256!BLOCK_BYTES

LEMMA Sha256Whole ==
    ASSUME NEW len \in Sha256Lengths, NEW tr, Sha256Written(len, tr, Sha256!Blocks(len))
    PROVE  Sha256!Satisfies(tr, Sha256!Program(len), Sha256!Digest(len))
  <1> DEFINE n == Sha256!Blocks(len)
             p == Sha256!Program(len)
  <1>1. /\ n \in Nat \ {0} /\ Sha256!CallCount(len) = n
    BY Sha256Counts
  <1>2. /\ p.rows = Sha256!Rows(len)
        /\ p.active = Sha256!Cadence(n, {0})
        /\ p.carry = Sha256!Cadence(n, CarryOffsets)
        /\ p.chain = Sha256!Cadence(n - 1, {15})
        /\ p.padding = Sha256!PaddingBlock(len)
        /\ p.finalRow = (n - 1) * 16
    BY DEF Sha256!Program, Sha256!ROWS_PER_BLOCK, CarryOffsets
  <1> HIDE DEF n, p
  <1>3. /\ tr.rows = p.rows /\ tr.active = p.active
        /\ tr.carry = p.carry /\ tr.chain = p.chain
    BY <1>1, <1>2 DEF Sha256Written, n
  <1>4. ASSUME NEW r \in 0..(16 * n - 1), NEW c, r \div 16 = c
        PROVE  /\ tr.block[r].hIn = Sha256!Chaining(len, c)
               /\ tr.block[r].msg = Sha256!PaddedBlock(len, c)
               /\ tr.block[r].hOut = Sha256!Chaining(len, c + 1)
    <2>1. tr.block[r] = Sha256RowOf(len, r)
      BY DEF Sha256Written, n
    <2> QED
      BY <1>4, <2>1 DEF Sha256RowOf
  <1>5. tr.block[0].hIn = Sha256!IV
    <2>1. 0 \in 0..(16 * n - 1) /\ 0 \div 16 = 0
      BY <1>1
    <2>2. tr.block[0].hIn = Sha256!Chaining(len, 0)
      BY <1>4, <2>1
    <2> QED
      BY <2>2 DEF Sha256!Chaining
  <1>6. \A r \in p.carry : tr.block[r + 1].hOut = tr.block[r].hOut
    <2> SUFFICES ASSUME NEW c \in 0..(n - 1), NEW o \in CarryOffsets
                 PROVE  tr.block[c * 16 + o + 1].hOut = tr.block[c * 16 + o].hOut
      BY <1>2 DEF Sha256!Cadence, Sha256!ROWS_PER_BLOCK
    <2>1. o \in 0..14
      BY DEF CarryOffsets, Sha256!Offsets, Sha256!ROWS_PER_BLOCK
    <2>2. /\ c * 16 + o + 1 \in 0..(16 * n - 1) /\ c * 16 + o \in 0..(16 * n - 1)
          /\ (c * 16 + o + 1) \div 16 = c /\ (c * 16 + o) \div 16 = c
      BY <1>1, <2>1
    <2> QED
      BY <1>4, <2>2
  <1>7. \A r \in p.chain : tr.block[r + 1].hIn = tr.block[r].hOut
    <2> SUFFICES ASSUME NEW c \in 0..((n - 1) - 1)
                 PROVE  tr.block[c * 16 + 15 + 1].hIn = tr.block[c * 16 + 15].hOut
      BY <1>2 DEF Sha256!Cadence, Sha256!ROWS_PER_BLOCK
    <2>1. /\ c * 16 + 15 + 1 \in 0..(16 * n - 1) /\ c * 16 + 15 \in 0..(16 * n - 1)
          /\ (c * 16 + 15 + 1) \div 16 = c + 1 /\ (c * 16 + 15) \div 16 = c
      BY <1>1
    <2> QED
      BY <1>4, <2>1
  <1>8. /\ tr.block[p.finalRow].msg = p.padding
        /\ tr.block[p.finalRow].hOut = Sha256!Digest(len)
    <2>1. (n - 1) * 16 \in 0..(16 * n - 1) /\ ((n - 1) * 16) \div 16 = n - 1
          /\ (n - 1) + 1 = n
      BY <1>1
    <2>2. Sha256!PaddedBlock(len, n - 1) = p.padding
      BY <1>2, Sha256PadIsLast DEF n
    <2>3. /\ tr.block[(n - 1) * 16].msg = Sha256!PaddedBlock(len, n - 1)
          /\ tr.block[(n - 1) * 16].hOut = Sha256!Chaining(len, (n - 1) + 1)
      BY <1>4, <2>1
    <2> QED
      BY <1>1, <1>2, <2>1, <2>2, <2>3 DEF Sha256!Digest
  <1>9. Sha256!Satisfies(tr, p, Sha256!Digest(len))
    BY <1>3, <1>5, <1>6, <1>7, <1>8 DEF Sha256!Satisfies
  <1> QED
    BY <1>9 DEF p

-----------------------------------------------------------------------------
(***************************************************************************)
(* The host trace of ML-DSA: the words fit in whichever order they come, and *)
(* what ensure_published looks at is what the program publishes.           *)
(***************************************************************************)
MlDsaParts == {"pk", "m_prime", "sig", "tr", "mu"}
MlDsaTerms == MlDsaParts \X Nat

LEMMA LeWordsAre ==
    ASSUME NEW value \in MlDsaParts, NEW bytes \in Nat
    PROVE  /\ MlDsa!LeWords(value, bytes) \in Seq(MlDsaTerms)
           /\ Len(MlDsa!LeWords(value, bytes)) = MlDsa!WordCount(bytes)
           /\ MlDsa!WordCount(bytes) \in Nat
  <1>1. MlDsa!WordCount(bytes) \in Nat
    BY DEF MlDsa!WordCount
  <1> DEFINE n == MlDsa!WordCount(bytes)
             words == [i \in 1..n |-> <<value, i>>]
  <1>2. n \in Nat /\ MlDsa!LeWords(value, bytes) = words
    BY <1>1 DEF MlDsa!LeWords
  <1> HIDE DEF n
  <1>3. \A i \in 1..n : <<value, i>> \in MlDsaTerms
    <2>1. \A i \in 1..n : i \in Nat
      BY <1>2
    <2> QED
      BY <2>1 DEF MlDsaTerms
  <1>4. words \in Seq(MlDsaTerms)
    <2>1. words \in [1..n -> MlDsaTerms]
      BY <1>3
    <2> QED
      <3> HIDE DEF words
      <3> QED
        BY <1>2, <2>1, SeqDef
  <1>5. Len(words) = n
    <2>1. DOMAIN words = 1..n
      OBVIOUS
    <2>2. Len(words) \in Nat /\ DOMAIN words = 1..Len(words)
      BY <1>4, LenProperties
    <2> QED
      BY <1>2, <2>1, <2>2
  <1> QED
    BY <1>1, <1>2, <1>4, <1>5 DEF n

\* The words of the pipeline fit the rows whichever their order.
LEMMA HostWordsFit ==
    ASSUME NEW layout \in MlDsa!Layouts
    PROVE  /\ MlDsa!HostWords(layout) \in Seq(MlDsaTerms)
           /\ Len(MlDsa!HostWords(layout)) \in Nat
           /\ Len(MlDsa!HostWords(layout)) <= MlDsa!HostWordCount
  <1> DEFINE Words(part) == MlDsa!LeWords(part, MlDsa!PartBytes[part])
  <1>1. /\ MlDsa!PartBytes["pk"] = PublicKeyBytes
        /\ MlDsa!PartBytes["m_prime"] = 2 + MESSAGE_BYTES
        /\ MlDsa!PartBytes["sig"] = SignatureBytes
        /\ MlDsa!PartBytes["tr"] = KEY_HASH_BYTES
        /\ MlDsa!PartBytes["mu"] = KEY_HASH_BYTES
    BY DEF MlDsa!PartBytes, MlDsa!M_PRIME_BYTES
  <1>2. ASSUME NEW part \in MlDsaParts
        PROVE  /\ Words(part) \in Seq(MlDsaTerms)
               /\ Len(Words(part)) = MlDsa!WordCount(MlDsa!PartBytes[part])
               /\ Len(Words(part)) \in Nat
    <2>1. MlDsa!PartBytes[part] \in Nat
      <3>1. 2 + MESSAGE_BYTES \in Nat
        BY MlDsaSizesAreNat
      <3> QED
        BY <1>1, <3>1, MlDsaSizesAreNat DEF MlDsaParts
    <2> QED
      BY <2>1, LeWordsAre
  <1>3. /\ Len(Words("pk")) = MlDsa!PublicKeyWords
        /\ Len(Words("m_prime")) = MlDsa!MPrimeWords
        /\ Len(Words("sig")) = MlDsa!SignatureWords
    BY <1>1, <1>2 DEF MlDsa!PublicKeyWords, MlDsa!MPrimeWords, MlDsa!SignatureWords,
                      MlDsa!M_PRIME_BYTES, MlDsaParts
  <1>4. Len(Words("tr")) = MlDsa!DigestWords /\ Len(Words("mu")) = MlDsa!DigestWords
    <2>1. MlDsa!WordCount(KEY_HASH_BYTES) = MlDsa!DigestWords
      BY MlDsaSizesAreNat DEF MlDsa!DigestWords, MlDsa!WordCount
    <2> QED
      BY <1>1, <1>2, <2>1 DEF MlDsaParts
  <1> HIDE DEF Words
  <1>5. PICK two : /\ two = Words("pk") \o Words("m_prime")
                   /\ two \in Seq(MlDsaTerms)
                   /\ Len(two) = MlDsa!PublicKeyWords + MlDsa!MPrimeWords
    BY <1>2, <1>3, ConcatProperties DEF MlDsaParts
  <1>6. /\ two \o Words("sig") \in Seq(MlDsaTerms)
        /\ Len(two \o Words("sig")) = Len(two) + Len(Words("sig"))
    <2>1. Words("sig") \in Seq(MlDsaTerms)
      BY <1>2 DEF MlDsaParts
    <2> QED
      BY <1>5, <2>1, ConcatProperties
  <1>7. PICK head : /\ head = two \o Words("sig")
                    /\ head \in Seq(MlDsaTerms)
                    /\ Len(head) = MlDsa!PublicKeyWords + MlDsa!MPrimeWords
                                        + MlDsa!SignatureWords
    BY <1>3, <1>5, <1>6
  <1>8. \/ MlDsa!HostWords(layout) = head \o Words("tr") \o Words("mu")
        \/ MlDsa!HostWords(layout) = head \o Words("mu") \o Words("tr")
        \/ MlDsa!HostWords(layout) = head \o Words("tr") \o <<>>
    <2> DEFINE Part(i) == IF i \in DOMAIN layout THEN Words(layout[i]) ELSE <<>>
    <2>1. MlDsa!HostWords(layout)
            = Part(1) \o Part(2) \o Part(3) \o Part(4) \o Part(5)
      BY Zenon DEF MlDsa!HostWords, Words
    <2>2. /\ 1 \in DOMAIN layout /\ 2 \in DOMAIN layout /\ 3 \in DOMAIN layout
          /\ layout[1] = "pk" /\ layout[2] = "m_prime" /\ layout[3] = "sig"
      BY DEF MlDsa!Layouts
    <2>3. 4 \in DOMAIN layout /\ layout[4] \in {"tr", "mu"}
      BY DEF MlDsa!Layouts
    <2>4. \/ 5 \in DOMAIN layout /\ layout[4] = "tr" /\ layout[5] = "mu"
          \/ 5 \in DOMAIN layout /\ layout[4] = "mu" /\ layout[5] = "tr"
          \/ 5 \notin DOMAIN layout /\ layout[4] = "tr"
      BY DEF MlDsa!Layouts
    <2>5. MlDsa!HostWords(layout) = head \o Part(4) \o Part(5)
      BY <1>5, <1>7, <2>1, <2>2
    <2> QED
      BY <2>3, <2>4, <2>5
  <1>9. /\ MlDsa!DigestWords \in Nat /\ MlDsa!PublicKeyWords \in Nat
        /\ MlDsa!MPrimeWords \in Nat /\ MlDsa!SignatureWords \in Nat
    BY <1>2, <1>3, <1>4 DEF MlDsaParts
  <1>10. ASSUME NEW x \in Seq(MlDsaTerms), NEW y \in Seq(MlDsaTerms)
         PROVE  /\ head \o x \o y \in Seq(MlDsaTerms)
                /\ Len(head \o x \o y) = Len(head) + Len(x) + Len(y)
    <2>1. head \o x \in Seq(MlDsaTerms) /\ Len(head \o x) = Len(head) + Len(x)
      BY <1>7, ConcatProperties
    <2> QED
      BY <2>1, ConcatProperties
  <1>11. <<>> \in Seq(MlDsaTerms) /\ Len(<<>>) = 0
    BY EmptySeq
  <1>12. /\ Words("tr") \in Seq(MlDsaTerms) /\ Words("mu") \in Seq(MlDsaTerms)
    BY <1>2 DEF MlDsaParts
  <1>13. MlDsa!HostWordCount = Len(head) + MlDsa!DigestWords + MlDsa!DigestWords
    <2>1. MlDsa!HostWordCount = MlDsa!PublicKeyWords + MlDsa!MPrimeWords
                                    + MlDsa!SignatureWords + 2 * MlDsa!DigestWords
      BY DEF MlDsa!HostWordCount
    <2>2. Len(head) = MlDsa!PublicKeyWords + MlDsa!MPrimeWords + MlDsa!SignatureWords
      BY <1>7
    <2>3. \A a, b, c, d \in Nat : a + b + c + 2 * d = a + b + c + d + d
      OBVIOUS
    <2> QED
      BY <1>9, <2>1, <2>2, <2>3
  <1>14. Len(head) \in Nat
    BY <1>7, LenProperties
  <1>15. /\ head \o Words("tr") \o Words("mu") \in Seq(MlDsaTerms)
         /\ Len(head \o Words("tr") \o Words("mu"))
                = Len(head) + MlDsa!DigestWords + MlDsa!DigestWords
    BY <1>4, <1>10, <1>12
  <1>16. /\ head \o Words("mu") \o Words("tr") \in Seq(MlDsaTerms)
         /\ Len(head \o Words("mu") \o Words("tr"))
                = Len(head) + MlDsa!DigestWords + MlDsa!DigestWords
    BY <1>4, <1>10, <1>12
  <1>17. /\ head \o Words("tr") \o <<>> \in Seq(MlDsaTerms)
         /\ Len(head \o Words("tr") \o <<>>) = Len(head) + MlDsa!DigestWords + 0
    BY <1>4, <1>10, <1>11, <1>12
  <1>18. \A h, d \in Nat : /\ h + d + d \in Nat /\ h + d + d <= h + d + d
                            /\ h + d + 0 \in Nat /\ h + d + 0 <= h + d + d
    OBVIOUS
  <1> QED
    BY <1>8, <1>9, <1>13, <1>14, <1>15, <1>16, <1>17, <1>18

LEMMA HostTraceIsWitness ==
    ASSUME NEW layout \in MlDsa!Layouts
    PROVE  /\ MlDsa!HostTraceFits(MlDsa!HostWords(layout))
           /\ MlDsa!EnsurePublished(MlDsa!HostWords(layout)) =>
                MlDsa!Satisfies(MlDsa!HostTrace(MlDsa!HostWords(layout)), MlDsa!Program,
                                MlDsa!PublicWords("m_prime", "tr"))
  <1> DEFINE words == MlDsa!HostWords(layout)
             n == MlDsa!HostWordCount
             public == MlDsa!PublicWords("m_prime", "tr")
  <1>1. words \in Seq(MlDsaTerms) /\ Len(words) \in Nat /\ Len(words) <= n
    BY HostWordsFit
  <1>2. MlDsa!HostTraceFits(words)
    <2>1. n \in Nat /\ n <= Pow[UsizeBits]
      BY <1>1, MlDsaSizesAreNat
         DEF Pow, MlDsa!HostWordCount, MlDsa!PublicKeyWords, MlDsa!MPrimeWords,
             MlDsa!SignatureWords, MlDsa!DigestWords, MlDsa!WordCount, MlDsa!M_PRIME_BYTES
    <2> HIDE DEF n
    <2>2. MlDsa!NextPowerOfTwo(n) = Grid!NextPowerOfTwo(n)
      BY OneGrid
    <2>3. MlDsa!NextPowerOfTwo(n) \in Int /\ MlDsa!NextPowerOfTwo(n) >= n
      BY <2>1, <2>2, NextPowerHolds, PowersGrow
    <2> QED
      BY <1>1, <2>1, <2>3 DEF MlDsa!HostTraceFits, n
  <1> HIDE DEF words, n, public
  <1>3. ASSUME MlDsa!EnsurePublished(words)
        PROVE  MlDsa!Satisfies(MlDsa!HostTrace(words), MlDsa!Program, public)
    <2> DEFINE rows == MlDsa!PublishedRows
               tr == MlDsa!HostTrace(words)
               p == MlDsa!Program
    <2>1. Len(words) = n /\ [i \in DOMAIN rows |-> words[rows[i] + 1]] = public
      BY <1>3 DEF MlDsa!EnsurePublished, n, public
    <2>2. /\ p.rows = tr.rows /\ p.sel = 0..(n - 1) /\ p.published = rows
          /\ tr.sel = 0..(n - 1) /\ tr.word = words
      BY <2>1 DEF MlDsa!HostTrace, MlDsa!Program, n
    <2> HIDE DEF rows, tr, p
    <2>3. DOMAIN words \subseteq {r + 1 : r \in 0..(n - 1)}
      <3>1. DOMAIN words = 1..n
        BY <1>1, <2>1, LenProperties
      <3>2. ASSUME NEW j \in 1..n
            PROVE  j - 1 \in 0..(n - 1) /\ j = (j - 1) + 1
        BY <1>1, <2>1
      <3> QED
        BY <3>1, <3>2
    <2>4. \A i \in DOMAIN public : words[rows[i] + 1] = public[i]
      BY <2>1
    <2> QED
      BY <2>2, <2>3, <2>4 DEF MlDsa!Satisfies, tr, p
  <1> QED
    BY <1>2, <1>3 DEF words, public

-----------------------------------------------------------------------------
(***************************************************************************)
(* From the trace to the verdict.                                          *)
(***************************************************************************)
LEMMA HashPublic ==
    ASSUME NEW i
    PROVE  /\ i.statement = "keccak" => Public(i) = Keccak!Digest(i.length)
           /\ i.statement = "sha256" => Public(i) = Sha256!Digest(i.length)
           /\ i.statement = "mldsa" => Public(i) = MlDsa!PublicWords("m_prime", "tr")
  BY Zenon DEF Public

LEMMA MlDsaAccepts ==
    ASSUME NEW len
    PROVE  Accepts("mldsa", len) <=> MlDsa!Accepts(len)
  BY Zenon DEF Accepts

LEMMA MlDsaProgram ==
    ASSUME NEW len
    PROVE  Program("mldsa", len) = MlDsa!Program
  BY Zenon DEF Program

SatisfiedBy(tr) ==
    LET p == Program(input.statement, input.length)
    IN  \/ input.statement = "keccak" /\ Keccak!Satisfies(tr, p, Public(input))
        \/ input.statement = "sha256" /\ Sha256!Satisfies(tr, p, Public(input))
        \/ input.statement = "mldsa" /\ MlDsa!Satisfies(tr, p, Public(input))
        \/ input.statement = "rsa" /\ input.valid

LEMMA SatisfiedByTrace ==
    ASSUME SatisfiedBy(trace)
    PROVE  Satisfied
  <1>1. CASE input.statement = "keccak"
    BY <1>1, Zenon DEF SatisfiedBy, Satisfied
  <1>2. CASE input.statement = "sha256"
    BY <1>2, Zenon DEF SatisfiedBy, Satisfied
  <1>3. CASE input.statement = "mldsa"
    BY <1>3, Zenon DEF SatisfiedBy, Satisfied
  <1>4. CASE input.statement = "rsa"
    BY <1>4, Zenon DEF SatisfiedBy, Satisfied
  <1> QED
    BY <1>1, <1>2, <1>3, <1>4 DEF SatisfiedBy

WrittenSoFar(i, tr) ==
    /\ i.statement = "keccak" =>
            \E b \in 0..Keccak!Blocks(i.length) : KeccakWritten(i.length, tr, b)
    /\ i.statement = "sha256" =>
            \E b \in 0..(Sha256!Blocks(i.length) - 1) : Sha256Written(i.length, tr, b)

\* The trace is a witness when it comes to the prover, and the proof is sound.
WitnessInv ==
    /\ ProofInv
    /\ phase = "witness" => WrittenSoFar(input, trace)
    /\ phase = "prover" => SatisfiedBy(trace)
    /\ phase \in {"proved", "verified"} => proof.sound
    /\ phase = "refused" /\ input.valid => verdict # "Witness"
    /\ phase = "verified" /\ claim = OwnClaim => verdict = "Ok"

LEMMA WitnessInitInv == RoundTripInit => WitnessInv
  BY RoundTripInitInv DEF RoundTripInit, WitnessInv

LEMMA InputIs ==
    ASSUME NEW i \in Inputs
    PROVE  /\ i.statement = "keccak" => i.length \in KeccakLengths /\ i.valid
           /\ i.statement = "sha256" => i.length \in Sha256Lengths /\ i.valid
           /\ i.statement \in {"keccak", "sha256", "rsa", "mldsa"}
  BY DEF Inputs

LEMMA BuiltTrace ==
    ASSUME NEW i \in Inputs, NEW tr,
           tr = CASE i.statement = "keccak" -> Keccak!EmptyTrace(i.length)
                  [] i.statement = "sha256" -> Sha256!EmptyTrace(i.length)
                  [] OTHER -> <<>>
    PROVE  WrittenSoFar(i, tr)
  <1>1. ASSUME i.statement = "keccak"
        PROVE  \E b \in 0..Keccak!Blocks(i.length) : KeccakWritten(i.length, tr, b)
    <2>1. i.length \in KeccakLengths /\ tr = Keccak!EmptyTrace(i.length)
      BY <1>1, InputIs, Zenon
    <2>2. 0 \in 0..Keccak!Blocks(i.length)
      BY <2>1, KeccakCounts
    <2> QED
      BY <2>1, <2>2, KeccakEmpty
  <1>2. ASSUME i.statement = "sha256"
        PROVE  \E b \in 0..(Sha256!Blocks(i.length) - 1) : Sha256Written(i.length, tr, b)
    <2>1. i.length \in Sha256Lengths /\ tr = Sha256!EmptyTrace(i.length)
      BY <1>2, InputIs, Zenon
    <2>2. 0 \in 0..(Sha256!Blocks(i.length) - 1)
      BY <2>1, Sha256Counts
    <2> QED
      BY <2>1, <2>2, Sha256Empty
  <1> QED
    BY <1>1, <1>2 DEF WrittenSoFar

LEMMA WitnessNextInv == WitnessInv /\ [RoundTripNext]_vars => WitnessInv'
  <1> SUFFICES ASSUME WitnessInv, [RoundTripNext]_vars
               PROVE  WitnessInv'
    OBVIOUS
  <1>0. ProofInv' /\ ProofInv /\ input \in Inputs
    BY RoundTripNextInv DEF WitnessInv, ProofInv
  <1>1. CASE BuildStatement
    <2>1. CASE Accepts(input.statement, input.length)
      <3>1. /\ phase' = "witness" /\ input' = input
            /\ trace' = CASE input.statement = "keccak" -> Keccak!EmptyTrace(input.length)
                          [] input.statement = "sha256" -> Sha256!EmptyTrace(input.length)
                          [] OTHER -> <<>>
        BY <1>1, <2>1, Zenon DEF BuildStatement
      <3>2. PICK tr : tr = trace'
        OBVIOUS
      <3>3. WrittenSoFar(input, tr)
        BY <1>0, <3>1, <3>2, BuiltTrace, Zenon
      <3> QED
        BY <1>0, <3>1, <3>2, <3>3 DEF WitnessInv
    <2>2. CASE ~Accepts(input.statement, input.length)
      <3>1. phase' = "refused" /\ verdict' = "InvalidInput"
        BY <1>1, <2>2, Zenon DEF BuildStatement, Refuse
      <3> QED
        BY <1>0, <3>1 DEF WitnessInv
    <2> QED
      BY <2>1, <2>2
  <1>2. CASE WriteKeccakCall
    <2> DEFINE len == input.length
    <2>1. /\ phase = "witness" /\ input.statement = "keccak" /\ len \in KeccakLengths
          /\ ~Keccak!AllCallsWritten(len, trace)
      BY <1>0, <1>2, InputIs DEF WriteKeccakCall
    <2>2. PICK b \in 0..Keccak!Blocks(len) : KeccakWritten(len, trace, b)
      BY <2>1 DEF WitnessInv, WrittenSoFar
    <2>3. b \in Nat /\ b < Keccak!Blocks(len)
      BY <2>1, <2>2, KeccakCounts DEF KeccakWritten, Keccak!AllCallsWritten
    <2>4. Keccak!CallFits(trace) /\ KeccakWritten(len, Keccak!WriteCall(len, trace), b + 1)
      BY <2>1, <2>2, <2>3, KeccakCallFits, KeccakCallKeeps
    <2>5. /\ trace' = Keccak!WriteCall(len, trace)
          /\ UNCHANGED <<input, phase, proof, claim, verdict>>
      BY <1>2, <2>4 DEF WriteKeccakCall
    <2>6. b + 1 \in 0..Keccak!Blocks(len)
      BY <2>1, <2>3, KeccakCounts
    <2> QED
      BY <1>0, <2>1, <2>4, <2>5, <2>6 DEF WitnessInv, WrittenSoFar
  <1>3. CASE WriteKeccakRest
    <2> DEFINE len == input.length
    <2>1. /\ phase = "witness" /\ input.statement = "keccak" /\ len \in KeccakLengths
          /\ Keccak!AllCallsWritten(len, trace)
      BY <1>0, <1>3, InputIs DEF WriteKeccakRest
    <2>2. PICK b \in 0..Keccak!Blocks(len) : KeccakWritten(len, trace, b)
      BY <2>1 DEF WitnessInv, WrittenSoFar
    <2>3. KeccakWritten(len, trace, Keccak!Blocks(len))
      BY <2>1, <2>2, KeccakCounts DEF KeccakWritten, Keccak!AllCallsWritten
    <2>4. /\ Keccak!RestFits(trace)
          /\ Keccak!Satisfies(Keccak!WriteRest(len, trace), Keccak!Program(len),
                              Keccak!Digest(len))
      BY <2>1, <2>3, KeccakRestFits, KeccakWhole
    <2>5. /\ trace' = Keccak!WriteRest(len, trace) /\ phase' = "prover"
          /\ UNCHANGED <<input, proof, claim, verdict>>
      BY <1>3, <2>4 DEF WriteKeccakRest
    <2>6. SatisfiedBy(trace')
      BY <2>1, <2>4, <2>5, HashProgram, HashPublic DEF SatisfiedBy
    <2> QED
      BY <1>0, <2>5, <2>6 DEF WitnessInv, SatisfiedBy
  <1>4. CASE WriteSha256Call
    <2> DEFINE len == input.length
    <2>1. phase = "witness" /\ input.statement = "sha256" /\ len \in Sha256Lengths
      BY <1>0, <1>4, InputIs DEF WriteSha256Call
    <2>2. PICK b \in 0..(Sha256!Blocks(len) - 1) : Sha256Written(len, trace, b)
      BY <2>1 DEF WitnessInv, WrittenSoFar
    <2>3. b \in Nat /\ b < Sha256!Blocks(len)
      BY <2>1, <2>2, Sha256Counts
    <2>4. /\ Sha256!CallFits(trace)
          /\ Sha256Written(len, Sha256!WriteCall(len, trace), b + 1)
          /\ Sha256!AllCallsWritten(len, Sha256!WriteCall(len, trace))
                <=> b + 1 = Sha256!Blocks(len)
      BY <2>1, <2>2, <2>3, Sha256CallFits, Sha256CallKeeps
    <2>5. /\ trace' = Sha256!WriteCall(len, trace)
          /\ phase' = IF b + 1 = Sha256!Blocks(len) THEN "prover" ELSE phase
          /\ UNCHANGED <<input, proof, claim, verdict>>
      BY <1>4, <2>4 DEF WriteSha256Call
    <2>6. CASE b + 1 = Sha256!Blocks(len)
      <3>1. Sha256!Satisfies(trace', Sha256!Program(len), Sha256!Digest(len))
        BY <2>1, <2>4, <2>5, <2>6, Sha256Whole
      <3>2. SatisfiedBy(trace')
        BY <2>1, <3>1, HashProgram, HashPublic DEF SatisfiedBy
      <3> QED
        BY <1>0, <2>5, <2>6, <3>2 DEF WitnessInv, SatisfiedBy
    <2>7. CASE b + 1 # Sha256!Blocks(len)
      <3>1. b + 1 \in 0..(Sha256!Blocks(len) - 1)
        BY <2>1, <2>3, <2>7, Sha256Counts
      <3> QED
        BY <1>0, <2>1, <2>4, <2>5, <2>7, <3>1 DEF WitnessInv, WrittenSoFar
    <2> QED
      BY <2>6, <2>7
  <1>5. CASE CheckSignature
    <2>1. /\ input' = input /\ input.statement = "rsa"
          /\ \/ ~input.valid /\ phase' = "refused"
             \/ input.valid /\ phase' = "prover"
      BY <1>5 DEF CheckSignature, Refuse
    <2>2. phase' = "prover" => SatisfiedBy(trace)'
      BY <2>1 DEF SatisfiedBy
    <2> QED
      BY <1>0, <2>1, <2>2 DEF WitnessInv
  <1>6. CASE TracePipeline
    <2>1. input' = input /\ input.statement = "mldsa"
      BY <1>6 DEF TracePipeline, Refuse
    <2>2. CASE ~input.valid
      <3>1. phase' = "refused"
        BY <1>6, <2>2 DEF TracePipeline, Refuse
      <3> QED
        BY <1>0, <2>1, <2>2, <3>1 DEF WitnessInv
    <2>3. CASE input.valid
      <3>1. PICK layout \in MlDsa!Layouts :
                LET words == MlDsa!HostWords(layout)
                IN  \/ ~MlDsa!HostTraceFits(words) /\ Refuse("Witness")
                    \/ /\ MlDsa!HostTraceFits(words)
                       /\ ~MlDsa!EnsurePublished(words)
                       /\ Refuse("Prover")
                    \/ /\ MlDsa!HostTraceFits(words)
                       /\ MlDsa!EnsurePublished(words)
                       /\ trace' = MlDsa!HostTrace(words)
                       /\ phase' = "prover"
                       /\ UNCHANGED <<input, proof, claim, verdict>>
        BY <1>6, <2>3 DEF TracePipeline
      <3>2. \/ phase' = "refused" /\ verdict' = "Prover"
            \/ /\ MlDsa!EnsurePublished(MlDsa!HostWords(layout))
               /\ trace' = MlDsa!HostTrace(MlDsa!HostWords(layout))
               /\ phase' = "prover"
        BY <3>1, HostTraceIsWitness DEF Refuse
      <3>3. phase' = "prover" => SatisfiedBy(trace')
        BY <2>1, <3>2, HostTraceIsWitness, MlDsaProgram, HashPublic DEF SatisfiedBy
      <3> QED
        BY <1>0, <2>1, <3>2, <3>3 DEF WitnessInv, SatisfiedBy
    <2> QED
      BY <2>2, <2>3
  <1>7. CASE RunProver
    <2>1. phase = "prover" /\ phase' = "proved" /\ proof'.sound = Satisfied
      BY <1>7 DEF RunProver
    <2>2. Satisfied
      BY <2>1, SatisfiedByTrace DEF WitnessInv
    <2> QED
      BY <1>0, <2>1, <2>2 DEF WitnessInv
  <1>8. CASE Verify
    <2>1. PICK c \in Claims : claim' = c /\ verdict' = Verdict(c)
      BY <1>8 DEF Verify
    <2>2. /\ phase = "proved" /\ phase' = "verified"
          /\ UNCHANGED <<input, trace, proof>>
      BY <1>8 DEF Verify
    <2>3. /\ proof.sound
          /\ proof.id = Program(input.statement, input.length)
          /\ proof.label = input.statement
          /\ Accepts(input.statement, input.length)
      BY <2>2 DEF WitnessInv, ProofInv, Built
    <2>4. ASSUME c = OwnClaim
          PROVE  Verdict(c) = "Ok"
      <3>1. /\ c.statement = input.statement /\ c.length = input.length
            /\ c.public = "own" /\ c.id = "proof's" /\ c.bytes = TRUE
        BY <2>4 DEF OwnClaim
      <3>2. VerifierAccepts(c)
        BY <2>3, <3>1 DEF VerifierAccepts, ProgramId, PublicOf
      <3>3. ~HashRefuses(c) /\ ~RsaRefuses(c)
        BY <2>3, <3>1 DEF HashRefuses, RsaRefuses
      <3>4. c.statement = "mldsa" => ~MlDsaRefuses(c)
        BY <2>3, <3>1, MlDsaAccepts DEF MlDsaRefuses
      <3> QED
        BY <3>1, <3>2, <3>3, <3>4 DEF Verdict
    <2> QED
      BY <1>0, <2>1, <2>2, <2>3, <2>4 DEF WitnessInv, OwnClaim
  <1>9. CASE UNCHANGED vars
    BY <1>0, <1>9 DEF vars, WitnessInv, WrittenSoFar, SatisfiedBy, OwnClaim
  <1> QED
    BY <1>1, <1>2, <1>3, <1>4, <1>5, <1>6, <1>7, <1>8, <1>9 DEF RoundTripNext

\* A proof that a prove function returned is accepted by its own verify function,
\* and an honest input never lacks room for its trace: for messages of every
\* length, and for the words of ML-DSA in every order.
THEOREM ReturnedProofIsVerified == RoundTripSpec => []ReturnedProofVerifies
  <1>1. WitnessInv => ReturnedProofVerifies
    BY DEF WitnessInv, ReturnedProofVerifies
  <1> QED
    BY <1>1, WitnessInitInv, WitnessNextInv, PTL DEF RoundTripSpec
-----------------------------------------------------------------------------
(***************************************************************************)
(* The capacity of a grid.                                                 *)
(***************************************************************************)
\* d times b is at most p where b is at most the whole part of p over d.
LEMMA FitsQuotient ==
    ASSUME NEW d \in Nat, d > 0, NEW b \in Nat, NEW p \in Nat
    PROVE  /\ p \div d \in Nat
           /\ d * b <= p <=> b <= p \div d
  <1> DEFINE q == p \div d
             r == p % d
  <1>1. q \in Nat /\ r \in 0..(d - 1) /\ p = d * q + r
    OBVIOUS
  <1> HIDE DEF q, r
  <1>2. d * b \in Nat /\ d * q \in Nat
    BY <1>1
  <1>3. ASSUME b <= q
        PROVE  d * b <= p
    <2>1. PICK e \in Nat : q = b + e
      <3>1. q - b \in Nat /\ q = b + (q - b)
        BY <1>1, <1>3
      <3> QED
        BY <3>1
    <2>2. d * q = d * b + d * e /\ d * e \in Nat
      BY <1>1, <2>1
    <2> QED
      BY <1>1, <1>2, <2>2
  <1>4. ASSUME b > q
        PROVE  d * b > p
    <2>1. PICK e \in Nat : b = q + 1 + e
      <3>1. b - q - 1 \in Nat /\ b = q + 1 + (b - q - 1)
        BY <1>1, <1>4
      <3> QED
        BY <3>1
    <2>2. d * b = d * q + d + d * e /\ d * e \in Nat
      BY <1>1, <2>1
    <2> QED
      BY <1>1, <1>2, <2>2
  <1> QED
    BY <1>1, <1>2, <1>3, <1>4 DEF q

\* A grid that a capacity is given for.
LEMMA GridOfCapacity ==
    ASSUME NEW log \in LogRows, log < UsizeBits
    PROVE  log \in 8..UsizeBits /\ Pow[log] \in Nat /\ Grid!PowerOfTwo[log] = Pow[log]
  <1>1. log \in 8..UsizeBits /\ log \in 0..UsizeBits
    BY LogsAreOfGrids, UsizeHoldsMinimum DEF Grid!MIN_NUM_VARS
  <1> QED
    BY <1>1, PowersGrow DEF Pow

LEMMA KeccakCapacityLine ==
    ASSUME NEW len \in KeccakLengths, NEW log \in LogRows,
           Keccak!Accepts(len), Keccak!Capacity(log) # 0
    PROVE  Keccak!Rows(len) <= Grid!PowerOfTwo[log] <=> len <= Keccak!Capacity(log)
  <1> DEFINE n == Keccak!Blocks(len)
             p == Pow[log]
             q == p \div BLOCK_ROWS
  <1>1. log < UsizeBits /\ q # 0 /\ Keccak!Capacity(log) = q * 136 - 8
    BY OneGrid DEF Keccak!Capacity, Keccak!FitsUsize, Keccak!RATE_BYTES, Keccak!LANE_BYTES
  <1>2. log \in 8..UsizeBits /\ p \in Nat /\ Grid!PowerOfTwo[log] = p
    BY <1>1, GridOfCapacity
  <1>3. len \in Nat /\ n \in Nat /\ BLOCK_ROWS * n \in Nat /\ BLOCK_ROWS * n <= Pow[UsizeBits]
    BY KeccakCounts, BlocksApart, UsizeHoldsRows DEF Pow
  <1>4. Keccak!Rows(len) <= p <=> BLOCK_ROWS * n <= p
    BY <1>2, <1>3, NumRowsHold, OneGrid DEF Keccak!Rows
  <1> HIDE DEF p
  <1>5. q \in Nat /\ (BLOCK_ROWS * n <= p <=> n <= q)
    BY <1>2, <1>3, BlockRowsAreRows, FitsQuotient
  <1> HIDE DEF q
  <1>6. n <= q <=> len <= q * 136 - 8
    BY <1>1, <1>3, <1>5 DEF Keccak!Blocks, Keccak!RATE_BYTES, Keccak!Accepts, Keccak!LANE_BYTES
  <1> QED
    BY <1>1, <1>2, <1>4, <1>5, <1>6

LEMMA Sha256CapacityLine ==
    ASSUME NEW len \in Sha256Lengths, NEW log \in LogRows,
           Sha256!Accepts(len), Sha256!Capacity(log) # 0
    PROVE  Sha256!Rows(len) <= Grid!PowerOfTwo[log] <=> len <= Sha256!Capacity(log)
  <1> DEFINE n == Sha256!Blocks(len)
             p == Pow[log]
             q == p \div 16
  <1>1. log < UsizeBits /\ q # 0 /\ Sha256!Capacity(log) = (q - 1) * 64
    BY OneGrid DEF Sha256!Capacity, Sha256!FitsUsize, Sha256!ROWS_PER_BLOCK,
                   Sha256!BLOCK_BYTES
  <1>2. log \in 8..UsizeBits /\ p \in Nat /\ Grid!PowerOfTwo[log] = p
    BY <1>1, GridOfCapacity
  <1>3. len \in Nat /\ n \in Nat /\ n * 16 \in Nat /\ n * 16 <= Pow[UsizeBits]
    BY Sha256Counts, UsizeHoldsRows DEF Pow, Sha256!ROWS_PER_BLOCK
  <1>4. Sha256!Rows(len) <= p <=> n * 16 <= p
    BY <1>2, <1>3, NumRowsHold, OneGrid DEF Sha256!Rows, Sha256!ROWS_PER_BLOCK
  <1> HIDE DEF p
  <1>5. q \in Nat /\ (n * 16 <= p <=> n <= q)
    BY <1>2, <1>3
  <1> HIDE DEF q
  <1>6. n <= q <=> len <= (q - 1) * 64
    BY <1>1, <1>3, <1>5 DEF Sha256!Blocks, Sha256!Accepts, Sha256!BLOCK_BYTES
  <1> QED
    BY <1>1, <1>2, <1>4, <1>5, <1>6

\* The capacities of keccak.rs and sha256.rs are exact, on every grid and for
\* messages of every length: the rows of an accepted message fit a grid up to
\* the capacity that the code says, and never past it.
THEOREM CapacityIsExact == RoundTripSpec => []CapacityDrawsTheLine
  <1>1. ASSUME input \in Inputs
        PROVE  CapacityDrawsTheLine
    <2>1. /\ input.statement = "keccak" => input.length \in KeccakLengths
          /\ input.statement = "sha256" => input.length \in Sha256Lengths
      BY <1>1 DEF Inputs
    <2> QED
      BY <2>1, KeccakCapacityLine, Sha256CapacityLine DEF CapacityDrawsTheLine
  <1>2. ProofInv => CapacityDrawsTheLine
    BY <1>1 DEF ProofInv
  <1> QED
    BY <1>2, RoundTripSpecInv, PTL
=============================================================================
