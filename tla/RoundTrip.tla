------------------------------ MODULE RoundTrip ------------------------------
(***************************************************************************)
(* From the inputs of a prove function of examples/prover to the verdict   *)
(* of the verify function on its proof: the statement is built from the    *)
(* length of the message, the trace is written in the turns of its loop,   *)
(* and the verify function builds the statement again, from what its own   *)
(* caller says.                                                            *)
(*                                                                         *)
(* The prover and the verifier are external.  The prover does not check a  *)
(* witness; the verifier accepts a proof of a satisfied program, under the *)
(* public values and the transcript label it is asked about, if the id it  *)
(* is given is that program's.  An id is the program it is the hash of.    *)
(***************************************************************************)
EXTENDS Integers, Sequences

CONSTANTS
    UsizeBits, WordSize,                    \* scaled widths
    BLOCK_ROWS,                             \* of KeccakChiplet
    PublicKeyBytes, SignatureBytes,         \* of ML-DSA-65
    MESSAGE_BYTES, KEY_HASH_BYTES,
    KeccakLengths, Sha256Lengths,           \* lengths of message handed over
    SignedLengths,
    LogRows                                 \* grids a capacity is asked for

VARIABLES
    input,      \* [statement, length, valid]: what prove_* is called with
    phase,      \* how far the call, and then the verification, has come
    trace,      \* the trace, as its statement's module keeps it
    proof,      \* the proof that was returned
    claim,      \* what verify_* is called with
    verdict     \* the last result that is not a proof

vars == <<input, phase, trace, proof, claim, verdict>>

Keccak == INSTANCE KeccakStatement
Sha256 == INSTANCE Sha256Statement
MlDsa == INSTANCE MlDsaStatement

Grid == INSTANCE TraceGrid

\* The lengths are of type usize, and so are the rows of their blocks.  The rows
\* of a permutation (25) have an odd factor, as no power of two has.  No message
\* has 2^61 bytes, so its bits are counted in two words.  The capacities are asked
\* of grids that the prover takes; no statement has a smaller one.
ASSUME LengthsAreNat == KeccakLengths \cup Sha256Lengths \subseteq Nat
ASSUME UsizeHoldsMinimum == UsizeBits \in Nat /\ UsizeBits >= Grid!MIN_NUM_VARS
ASSUME BlockRowsAreRows == BLOCK_ROWS \in Nat /\ BLOCK_ROWS > 1
ASSUME BlockRowsHaveOddFactor == \E d \in 2..BLOCK_ROWS : d % 2 = 1 /\ BLOCK_ROWS % d = 0
ASSUME UsizeHoldsRows ==
    /\ \A len \in KeccakLengths :
            BLOCK_ROWS * Keccak!Blocks(len) <= Grid!PowerOfTwo[UsizeBits]
    /\ \A len \in Sha256Lengths :
            Sha256!Blocks(len) * Sha256!ROWS_PER_BLOCK <= Grid!PowerOfTwo[UsizeBits]
ASSUME BitsFitTwoWords ==
    /\ WordSize \in Nat \ {0}
    /\ \A len \in Sha256Lengths : (len * 8) \div WordSize < WordSize
ASSUME LogsAreOfGrids == \A log \in LogRows : log \in Nat /\ log >= Grid!MIN_NUM_VARS

\* The sizes of ML-DSA are in bytes, and a key hash fills its words.
ASSUME MlDsaSizesAreNat ==
    /\ PublicKeyBytes \in Nat /\ SignatureBytes \in Nat
    /\ MESSAGE_BYTES \in Nat /\ KEY_HASH_BYTES \in Nat
    /\ KEY_HASH_BYTES % 4 = 0
    /\ MlDsa!HostWordCount <= Grid!PowerOfTwo[UsizeBits]

MODULUS_BYTES == 256
MESSAGE_BLOCKS == 1
-----------------------------------------------------------------------------
\* The hash statements accept a length, the signature ones a message.
Inputs ==
    [statement : {"keccak"}, length : KeccakLengths, valid : {TRUE}]
        \cup [statement : {"sha256"}, length : Sha256Lengths, valid : {TRUE}]
        \cup [statement : {"rsa", "mldsa"}, length : SignedLengths, valid : BOOLEAN]

\* pad_message: a bit and the length follow the message.
PaddedBlocks(len) == (len + 8) \div 64 + 1

Accepts(s, len) ==
    CASE s = "keccak" -> Keccak!Accepts(len)
      [] s = "sha256" -> Sha256!Accepts(len)
      [] s = "mldsa"  -> MlDsa!Accepts(len)
      [] s = "rsa"    -> PaddedBlocks(len) = MESSAGE_BLOCKS

Program(s, len) ==
    CASE s = "keccak" -> Keccak!Program(len)
      [] s = "sha256" -> Sha256!Program(len)
      [] s = "mldsa"  -> MlDsa!Program
      [] s = "rsa"    -> [name |-> "Pkcs1", blocks |-> MESSAGE_BLOCKS]

\* limbs: the least word of a big-endian number comes first.
Limbs(number) ==
    [j \in 0..(MODULUS_BYTES \div 4 - 1) |->
        <<number, (MODULUS_BYTES - 4 * (j + 1)) \div 4>>]

\* The public values of an honest call.
Public(i) ==
    CASE i.statement = "keccak" -> Keccak!Digest(i.length)
      [] i.statement = "sha256" -> Sha256!Digest(i.length)
      [] i.statement = "mldsa"  -> MlDsa!PublicWords("m_prime", "tr")
      [] i.statement = "rsa"    -> Limbs("modulus")

\* Does the trace satisfy the program that prove_* hands to the prover?  The
\* witness of RSA is external: it satisfies if the signature verifies.
Satisfied ==
    LET p == Program(input.statement, input.length)
    IN  CASE input.statement = "keccak" -> Keccak!Satisfies(trace, p, Public(input))
          [] input.statement = "sha256" -> Sha256!Satisfies(trace, p, Public(input))
          [] input.statement = "mldsa"  -> MlDsa!Satisfies(trace, p, Public(input))
          [] input.statement = "rsa"    -> input.valid
-----------------------------------------------------------------------------
RoundTripInit ==
    /\ input \in Inputs
    /\ phase = "called"
    /\ trace = <<>>
    /\ proof = <<>>
    /\ claim = <<>>
    /\ verdict = "none"

Refuse(error) ==
    /\ phase' = "refused"
    /\ verdict' = error
    /\ UNCHANGED <<input, trace, proof, claim>>

IsHash(s) == s \in {"keccak", "sha256"}

\* The checks of the input and Statement::new.
BuildStatement ==
    /\ phase = "called"
    /\ \/ /\ ~Accepts(input.statement, input.length)
          /\ Refuse("InvalidInput")
       \/ /\ Accepts(input.statement, input.length)
          /\ phase' = "witness"
          /\ trace' = CASE input.statement = "keccak" -> Keccak!EmptyTrace(input.length)
                        [] input.statement = "sha256" -> Sha256!EmptyTrace(input.length)
                        [] OTHER -> <<>>
          /\ UNCHANGED <<input, proof, claim, verdict>>

\* One turn of the loop of Keccak's build_trace; a write past the last row is
\* an error of the trace builder.
WriteKeccakCall ==
    /\ phase = "witness" /\ input.statement = "keccak"
    /\ ~Keccak!AllCallsWritten(input.length, trace)
    /\ \/ ~Keccak!CallFits(trace) /\ Refuse("Witness")
       \/ /\ Keccak!CallFits(trace)
          /\ trace' = Keccak!WriteCall(input.length, trace)
          /\ UNCHANGED <<input, phase, proof, claim, verdict>>

WriteKeccakRest ==
    /\ phase = "witness" /\ input.statement = "keccak"
    /\ Keccak!AllCallsWritten(input.length, trace)
    /\ \/ ~Keccak!RestFits(trace) /\ Refuse("Witness")
       \/ /\ Keccak!RestFits(trace)
          /\ trace' = Keccak!WriteRest(input.length, trace)
          /\ phase' = "prover"
          /\ UNCHANGED <<input, proof, claim, verdict>>

WriteSha256Call ==
    /\ phase = "witness" /\ input.statement = "sha256"
    /\ \/ ~Sha256!CallFits(trace) /\ Refuse("Witness")
       \/ /\ Sha256!CallFits(trace)
          /\ trace' = Sha256!WriteCall(input.length, trace)
          /\ phase' = IF Sha256!AllCallsWritten(input.length, trace') THEN "prover"
                                                                     ELSE phase
          /\ UNCHANGED <<input, proof, claim, verdict>>

\* check_signature of RSA, and the witness of its gadget; a signature that is
\* no number below the modulus is an input error.
CheckSignature ==
    /\ phase = "witness" /\ input.statement = "rsa"
    /\ \/ ~input.valid /\ (Refuse("Witness") \/ Refuse("InvalidInput"))
       \/ /\ input.valid
          /\ phase' = "prover"
          /\ UNCHANGED <<input, trace, proof, claim, verdict>>

\* The pipeline of ML-DSA finds no witness of a signature that does not
\* verify; its words are written down and the published ones looked at.
TracePipeline ==
    /\ phase = "witness" /\ input.statement = "mldsa"
    /\ \/ ~input.valid /\ Refuse("Witness")
       \/ /\ input.valid
          /\ \E layout \in MlDsa!Layouts :
                LET words == MlDsa!HostWords(layout)
                IN  \/ ~MlDsa!HostTraceFits(words) /\ Refuse("Witness")
                    \/ /\ MlDsa!HostTraceFits(words)
                       /\ ~MlDsa!EnsurePublished(words)
                       /\ Refuse("Prover")
                    \/ /\ MlDsa!HostTraceFits(words)
                       /\ MlDsa!EnsurePublished(words)
                       /\ trace' = MlDsa!HostTrace(words)
                       /\ phase' = "prover"
                       /\ UNCHANGED <<input, proof, claim, verdict>>

\* run_prover: the id is of the program, not of the witness.
RunProver ==
    /\ phase = "prover"
    /\ proof' = [ id      |-> Program(input.statement, input.length),
                  label   |-> input.statement,
                  public  |-> Public(input),
                  sound   |-> Satisfied ]
    /\ trace' = <<>>
    /\ phase' = "proved"
    /\ UNCHANGED <<input, claim, verdict>>
-----------------------------------------------------------------------------
(***************************************************************************)
(* The verify functions.                                                   *)
(***************************************************************************)
LengthsOf(s) ==
    CASE s = "keccak" -> KeccakLengths
      [] s = "sha256" -> Sha256Lengths
      [] OTHER -> SignedLengths

\* A caller may take any verify function, say another length or other public
\* values, pin an id of its own, and hand over bytes that are no proof.  Only
\* ML-DSA's message and the digests of a hash come with a length.
Claims ==
    UNION { [ statement : {s}, length : LengthsOf(s),
              public : {"own", "other", "misshapen"},
              id : {"proof's", "pinned", "malformed"}, bytes : BOOLEAN ] :
            s \in {"keccak", "sha256", "rsa", "mldsa"} }

OwnClaim ==
    [ statement |-> input.statement, length |-> input.length,
      public |-> "own", id |-> "proof's", bytes |-> TRUE ]

PublicOf(c) == IF c.public = "own" THEN proof.public ELSE <<"other">>

\* decode_program_id, then the id itself
ProgramId(c) == IF c.id = "proof's" THEN proof.id ELSE Program(c.statement, c.length)

\* HekateVerifier::verify; what is not accepted is Ok(false) or an error.
VerifierAccepts(c) ==
    /\ proof.sound
    /\ proof.label = c.statement
    /\ proof.id = Program(c.statement, c.length)
    /\ ProgramId(c) = Program(c.statement, c.length)
    /\ PublicOf(c) = proof.public

\* What the verify functions refuse before they come to run_verifier: public
\* values that are no digest, no modulus, no key hash, and a length without a
\* statement.
HashRefuses(c) == c.public = "misshapen" \/ ~Accepts(c.statement, c.length)
RsaRefuses(c) == c.public = "misshapen"
MlDsaRefuses(c) == ~MlDsa!Accepts(c.length) \/ c.public = "misshapen"

\* run_verifier: the id, the bytes, then the verifier, whose two ways to say no
\* are both Rejected.
Verdict(c) ==
    IF \/ IsHash(c.statement) /\ HashRefuses(c)
       \/ c.statement = "rsa" /\ RsaRefuses(c)
       \/ c.statement = "mldsa" /\ MlDsaRefuses(c)
       \/ c.id = "malformed"
       \/ ~c.bytes
    THEN "InvalidInput"
    ELSE IF VerifierAccepts(c) THEN "Ok" ELSE "Rejected"

Verify ==
    /\ phase = "proved"
    /\ \E c \in Claims :
        /\ claim' = c
        /\ verdict' = Verdict(c)
    /\ phase' = "verified"
    /\ UNCHANGED <<input, trace, proof>>

RoundTripNext ==
    \/ BuildStatement
    \/ WriteKeccakCall \/ WriteKeccakRest
    \/ WriteSha256Call
    \/ CheckSignature
    \/ TracePipeline
    \/ RunProver
    \/ Verify

RoundTripSpec == RoundTripInit /\ [][RoundTripNext]_vars
-----------------------------------------------------------------------------
(***************************************************************************)
(* Properties.                                                             *)
(***************************************************************************)

\* A call with an honest input of an accepted length always gets its trace
\* into the rows of its statement, and a proof that a prove function returned
\* is accepted by its own verify function: the trace written block by block
\* satisfies what the program, written as a whole, fixes and publishes.
ReturnedProofVerifies ==
    /\ phase = "refused" /\ input.valid => verdict # "Witness"
    /\ phase = "verified" /\ claim = OwnClaim => verdict = "Ok"

\* A verify function says Ok only of the statement, the length and the public
\* values that were proved, although it takes the program id from its caller:
\* each length of a message is a program of its own.
VerifiedIsProved ==
    phase = "verified" /\ verdict = "Ok" =>
        /\ claim.statement = input.statement
        /\ IsHash(input.statement) => claim.length = input.length
        /\ PublicOf(claim) = Public(input)

\* The capacity of a grid is where its lengths end: no accepted message up to
\* it needs more rows, every longer one does.  Zero is no answer.
CapacityDrawsTheLine ==
    \A log \in LogRows :
        /\ input.statement = "keccak" /\ Keccak!Accepts(input.length)
                /\ Keccak!Capacity(log) # 0 =>
            (Keccak!Rows(input.length) <= Grid!PowerOfTwo[log]
                <=> input.length <= Keccak!Capacity(log))
        /\ input.statement = "sha256" /\ Sha256!Accepts(input.length)
                /\ Sha256!Capacity(log) # 0 =>
            (Sha256!Rows(input.length) <= Grid!PowerOfTwo[log]
                <=> input.length <= Sha256!Capacity(log))
=============================================================================
