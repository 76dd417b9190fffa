--------------------------- MODULE MlDsaStatement ----------------------------
(***************************************************************************)
(* The ML-DSA statement of examples/prover: the host trace, one word of    *)
(* the pipeline's inputs to a row, and the rows of it that are published.  *)
(*                                                                         *)
(* The rows are read off the lengths of the parts, in the order the code   *)
(* expects of the pipeline; the pipeline itself is external.               *)
(***************************************************************************)
EXTENDS TraceGrid, Sequences

CONSTANTS
    PublicKeyBytes,     \* MlDsaParams::pk_bytes
    SignatureBytes,     \* MlDsaParams::sig_bytes
    MESSAGE_BYTES,
    KEY_HASH_BYTES

M_PRIME_BYTES == 2 + MESSAGE_BYTES

WordCount(bytes) == (bytes + 3) \div 4

PublicKeyWords == WordCount(PublicKeyBytes)
MPrimeWords == WordCount(M_PRIME_BYTES)
SignatureWords == WordCount(SignatureBytes)
DigestWords == KEY_HASH_BYTES \div 4

HostWordCount == PublicKeyWords + MPrimeWords + SignatureWords + 2 * DigestWords

\* m_prime_rows, then key_hash_rows
PublishedRows ==
    [i \in 1..MPrimeWords |-> PublicKeyWords + i - 1]
        \o [i \in 1..DigestWords |-> HostWordCount - 2 * DigestWords + i - 1]

Accepts(message_len) == message_len = MESSAGE_BYTES

\* Statement::new: sel is fixed, word is zero where sel is, M' and tr are
\* published in the order of their rows.
Program ==
    [ name      |-> "MlDsaVerify",
      rows      |-> NextPowerOfTwo(HostWordCount),
      sel       |-> 0..(HostWordCount - 1),
      published |-> PublishedRows ]

\* le_words of a value of so many bytes; the last word is filled with zeros.
LeWords(value, bytes) == [i \in 1..WordCount(bytes) |-> <<value, i>>]

PublicWords(m_prime, key_hash) ==
    LeWords(m_prime, M_PRIME_BYTES) \o LeWords(key_hash, KEY_HASH_BYTES)
-----------------------------------------------------------------------------
(***************************************************************************)
(* The pipeline's host words, in an order it is free to choose as far as   *)
(* the types tell.                                                         *)
(***************************************************************************)
PartBytes ==
    [ pk |-> PublicKeyBytes, m_prime |-> M_PRIME_BYTES, sig |-> SignatureBytes,
      tr |-> KEY_HASH_BYTES, mu |-> KEY_HASH_BYTES ]

Layouts == { <<"pk", "m_prime", "sig", "tr", "mu">>,
             <<"pk", "m_prime", "sig", "mu", "tr">>,
             <<"pk", "m_prime", "sig", "tr">> }

HostWords(layout) ==
    LET Part(p) == IF p \in DOMAIN layout THEN LeWords(layout[p], PartBytes[layout[p]])
                                          ELSE <<>>
    IN  Part(1) \o Part(2) \o Part(3) \o Part(4) \o Part(5)

\* ensure_published
EnsurePublished(words) ==
    /\ Len(words) = HostWordCount
    /\ [i \in DOMAIN PublishedRows |-> words[PublishedRows[i] + 1]]
         = PublicWords("m_prime", "tr")

\* host_trace: word and sel of the rows that the words reach.
HostTrace(words) ==
    [ rows |-> NextPowerOfTwo(HostWordCount),
      sel  |-> 0..(Len(words) - 1),
      word |-> words ]

HostTraceFits(words) == Len(words) <= NextPowerOfTwo(HostWordCount)

\* The trace is a witness of the program under these public words.
Satisfies(trace, p, public) ==
    /\ trace.rows = p.rows
    /\ trace.sel = p.sel
    /\ DOMAIN trace.word \subseteq {r + 1 : r \in p.sel}
    /\ \A i \in DOMAIN public : trace.word[p.published[i] + 1] = public[i]
=============================================================================
