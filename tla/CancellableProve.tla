-------------------------- MODULE CancellableProve --------------------------
(***************************************************************************)
(* What a cancellable proof promises its caller, whatever runs below: the  *)
(* Rust call of examples/prover, the async function of the Swift package   *)
(* and the suspend function of the Kotlin library each implement it.  A    *)
(* call begins once, ends once, and reports a cancel only when somebody    *)
(* asked for one.                                                          *)
(***************************************************************************)
CONSTANTS
    Calls,          \* the calls the host makes
    LateProof       \* TRUE: a proof that wins the race with the cancel is
                    \* delivered.  FALSE: once asked, no proof is delivered.

VARIABLES
    outcome,        \* [Calls -> what the caller has of the call]
    asked           \* the calls whose cancel has been asked for

absVars == <<outcome, asked>>

Failures == {"InvalidInput", "Witness", "Prover", "Panic"}
Outcomes == Failures \cup {"Proof", "Cancelled"}

AbsTypeOK ==
    /\ outcome \in [Calls -> Outcomes \cup {"idle", "pending"}]
    /\ asked \subseteq Calls

AbsInit ==
    /\ outcome = [c \in Calls |-> "idle"]
    /\ asked = {}

\* A call may begin with a cancel that was asked for before it began.
Begin(c) ==
    /\ outcome[c] = "idle"
    /\ outcome' = [outcome EXCEPT ![c] = "pending"]
    /\ asked' \in {asked, asked \cup {c}}

\* A call that was asked to stop before it began may not begin at all.
Decline(c) ==
    /\ outcome[c] = "idle"
    /\ c \in asked
    /\ outcome' = [outcome EXCEPT ![c] = "Cancelled"]
    /\ UNCHANGED asked

\* One request reaches every call that holds its token.
Ask(S) ==
    /\ asked' = asked \cup S
    /\ UNCHANGED outcome

End(c, o) ==
    /\ outcome[c] = "pending"
    /\ o = "Cancelled" => c \in asked
    /\ o = "Proof" => LateProof \/ c \notin asked
    /\ outcome' = [outcome EXCEPT ![c] = o]
    /\ UNCHANGED asked

AbsNext ==
    \/ \E c \in Calls : Begin(c) \/ Decline(c)
    \/ \E S \in SUBSET Calls : Ask(S)
    \/ \E c \in Calls, o \in Outcomes : End(c, o)

AbsSpec == AbsInit /\ [][AbsNext]_absVars

\* A call that was asked to stop is not left pending; one that nobody asks to
\* stop may run for as long as its proof takes.
AskedEnds ==
    \A c \in Calls : (outcome[c] = "pending" /\ c \in asked)
                        ~> (outcome[c] \in Outcomes)
=============================================================================
