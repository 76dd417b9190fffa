----------------------------- MODULE ProveCall ------------------------------
(***************************************************************************)
(* The prove functions of examples/prover: prove_rsa, prove_mldsa,         *)
(* prove_keccak and prove_sha256 on the host's threads, the prove function *)
(* of a crate generated from template/, and the CancelToken they share     *)
(* with the threads that call request().                                   *)
(*                                                                         *)
(* A call walks the stages of its statement in order.  A stage may refuse  *)
(* (return one of the errors the code maps it to) or panic (guard turns    *)
(* the unwinding into ProveError::Panic); a "check" stage reads the        *)
(* token's own flag, and the prover, which is external, polls the inner    *)
(* one.  request() writes the two flags one after the other.  The          *)
(* template's token has the inner flag only and its prove function checks  *)
(* nothing: there, requested is the entry of request(), read by no one.    *)
(***************************************************************************)
EXTENDS Naturals, Sequences

CONSTANTS
    Calls,          \* prove calls, each made at most once
    Tokens,         \* CancelToken objects; several calls may hold the same one
    NoToken,        \* cancel = None
    Hosts,          \* threads that call request()
    Statements      \* the statements proved, a subset of DOMAIN Stages

VARIABLES
    statement,      \* [Calls -> the statement of the call]
    token,          \* [Calls -> Tokens \cup {NoToken}]
    at,             \* [Calls -> index of the stage it is in, 0 before the call]
    result,         \* [Calls -> what the call returned, NoResult until then]
    requested,      \* [Tokens -> CancelToken.requested]
    inner,          \* [Tokens -> CancelToken.inner, the prover's own token]
    requesting      \* [Hosts -> the token between its two stores, or NoToken]

callVars == <<statement, token, at, result>>
tokenVars == <<requested, inner, requesting>>
proveVars == <<statement, token, at, result, requested, inner, requesting>>
-----------------------------------------------------------------------------
NoResult == "none"

\* Mutant of RunProver: no second look at the token.
RunProverUnchecked == <<"id", "seed", "prover">>

\* run_prover, the tail that every statement shares.
RunProver == <<"check", "id", "seed", "prover">>

\* The body of each prove function up to its call of run_prover.
RsaStages ==
    <<"check", "inputs", "statement", "signature", "witness">> \o RunProver
MlDsaStages ==
    <<"check", "inputs", "statement", "trace", "host", "output", "publish">>
        \o RunProver
KeccakStages == <<"check", "inputs", "trace">> \o RunProver
Sha256Stages == <<"check", "inputs", "trace">> \o RunProver

\* prove_inner of the template: no look at the token but the prover's.
TemplateStages == <<"program", "witness", "id", "seed", "prover">>

Stages == [ rsa      |-> RsaStages,
            mldsa    |-> MlDsaStages,
            keccak   |-> KeccakStages,
            sha256   |-> Sha256Stages,
            template |-> TemplateStages ]

\* The errors a stage returns.  A check refuses through Check alone.
Refusals ==
    [ inputs    |-> {"InvalidInput"},
      program   |-> {"InvalidInput"},
      statement |-> {"Prover"},
      signature |-> {"InvalidInput", "Witness"},
      witness   |-> {"Witness"},
      trace     |-> {"Witness"},
      host      |-> {"Witness"},
      output    |-> {"Prover"},
      publish   |-> {"Prover"},
      id        |-> {"Prover"},
      seed      |-> {"Prover"},
      prover    |-> {"Prover"},
      check     |-> {} ]

Errors == {"InvalidInput", "Witness", "Prover", "Cancelled", "Panic"}
Results == Errors \cup {"Proof"}

ASSUME StatementsKnown == Statements \subseteq DOMAIN Stages
ASSUME NoTokenIsNone == NoToken \notin Tokens
-----------------------------------------------------------------------------
Running(c) == at[c] > 0 /\ result[c] = NoResult
Stage(c) == Stages[statement[c]][at[c]]
InStage(c, stages) == Running(c) /\ Stage(c) \in stages

\* is_some_and: a call without a token is never cancelled.
IsRequested(c) == token[c] # NoToken /\ requested[token[c]]

\* Mutant of IsInnerRequested: is_none_or in place of is_some_and.
NoneIsInnerRequested(c) == token[c] = NoToken \/ inner[token[c]]

IsInnerRequested(c) == token[c] # NoToken /\ inner[token[c]]

ProveTypeOK ==
    /\ statement \in [Calls -> Statements]
    /\ token \in [Calls -> Tokens \cup {NoToken}]
    /\ at \in [Calls -> Nat]
    /\ result \in [Calls -> Results \cup {NoResult}]
    /\ requested \in [Tokens -> BOOLEAN]
    /\ inner \in [Tokens -> BOOLEAN]
    /\ requesting \in [Hosts -> Tokens \cup {NoToken}]
    /\ \A c \in Calls : at[c] = 0 => result[c] = NoResult
    /\ \A c \in Calls : at[c] > 0 => at[c] \in DOMAIN Stages[statement[c]]

\* A token is of the crate whose calls take it.
TokenFits(c, d) ==
    token[c] = NoToken \/ (statement[c] = "template" <=> statement[d] = "template")

ProveInit ==
    /\ statement \in [Calls -> Statements]
    /\ token \in [Calls -> Tokens \cup {NoToken}]
    /\ \A c, d \in Calls : token[c] = token[d] => TokenFits(c, d)
    /\ at = [c \in Calls |-> 0]
    /\ result = [c \in Calls |-> NoResult]
    /\ requested = [t \in Tokens |-> FALSE]
    /\ inner = [t \in Tokens |-> FALSE]
    /\ requesting = [h \in Hosts |-> NoToken]
-----------------------------------------------------------------------------
(***************************************************************************)
(* The call.                                                               *)
(***************************************************************************)
Return(c, r) ==
    /\ result' = [result EXCEPT ![c] = r]
    /\ UNCHANGED <<statement, token, at>>

Advance(c) ==
    /\ at' = [at EXCEPT ![c] = @ + 1]
    /\ UNCHANGED <<statement, token, result>>

Call(c) ==
    /\ at[c] = 0
    /\ Advance(c)
    /\ UNCHANGED tokenVars

\* ensure_not_cancelled
Check(c) ==
    /\ InStage(c, {"check"})
    /\ IF IsRequested(c) THEN Return(c, "Cancelled") ELSE Advance(c)
    /\ UNCHANGED tokenVars

\* Mutant of Work: the prover is a stage like the others.
WorkPastProver(c) ==
    /\ Running(c)
    /\ ~InStage(c, {"check"})
    /\ Advance(c)
    /\ UNCHANGED tokenVars

\* A stage that succeeds, between two looks at the token.
Work(c) ==
    /\ Running(c)
    /\ ~InStage(c, {"check", "prover"})
    /\ Advance(c)
    /\ UNCHANGED tokenVars

Refuse(c) ==
    /\ Running(c)
    /\ \E e \in Refusals[Stage(c)] : Return(c, e)
    /\ UNCHANGED tokenVars

\* guard: catch_unwind around the whole body.
Panic(c) ==
    /\ Running(c)
    /\ ~InStage(c, {"check"})
    /\ Return(c, "Panic")
    /\ UNCHANGED tokenVars

\* Mutant of Poll: map_prover_error takes every prover error for a cancel.
PollOfAnyError(c) ==
    /\ InStage(c, {"prover"})
    /\ Return(c, "Cancelled")
    /\ UNCHANGED tokenVars

\* The prover sees its token at a poll; map_prover_error keeps the code.
Poll(c) ==
    /\ InStage(c, {"prover"})
    /\ IsInnerRequested(c)
    /\ Return(c, "Cancelled")
    /\ UNCHANGED tokenVars

\* The prover ends with a proof, also when it was asked to stop after its
\* last poll.
Finish(c) ==
    /\ InStage(c, {"prover"})
    /\ Return(c, "Proof")
    /\ UNCHANGED tokenVars

CallStep(c) == Check(c) \/ Work(c) \/ Refuse(c) \/ Panic(c) \/ Poll(c) \/ Finish(c)
-----------------------------------------------------------------------------
(***************************************************************************)
(* CancelToken::request, from any thread and any number of times.          *)
(***************************************************************************)

\* Mutant of SetRequested: only the prover's own flag is written.
SetOnlyInner(h, t) ==
    /\ requesting[h] = NoToken
    /\ inner' = [inner EXCEPT ![t] = TRUE]
    /\ requesting' = [requesting EXCEPT ![h] = t]
    /\ UNCHANGED <<requested, callVars>>

SetRequested(h, t) ==
    /\ requesting[h] = NoToken
    /\ requested' = [requested EXCEPT ![t] = TRUE]
    /\ requesting' = [requesting EXCEPT ![h] = t]
    /\ UNCHANGED <<inner, callVars>>

\* Mutant of SetInner: the request stops at the crate's own flag.
SetInnerForgotten(h) ==
    /\ requesting[h] # NoToken
    /\ requesting' = [requesting EXCEPT ![h] = NoToken]
    /\ UNCHANGED <<requested, inner, callVars>>

SetInner(h) ==
    /\ requesting[h] # NoToken
    /\ inner' = [inner EXCEPT ![requesting[h]] = TRUE]
    /\ requesting' = [requesting EXCEPT ![h] = NoToken]
    /\ UNCHANGED <<requested, callVars>>

ProveNext ==
    \/ \E c \in Calls : Call(c) \/ CallStep(c)
    \/ \E h \in Hosts, t \in Tokens : SetRequested(h, t)
    \/ \E h \in Hosts : SetInner(h)

ProveSpec == ProveInit /\ [][ProveNext]_proveVars

\* A running thread is scheduled: its stages end and the prover reaches its
\* next poll; a request() that began ends.  Nobody has to call, to request, or
\* to finish a proof.
ProveFairness ==
    /\ \A c \in Calls : WF_proveVars(Check(c) \/ Work(c))
    /\ \A c \in Calls : WF_proveVars(Poll(c))
    /\ \A h \in Hosts : WF_proveVars(SetInner(h))

ProveFairSpec == ProveSpec /\ ProveFairness
-----------------------------------------------------------------------------
(***************************************************************************)
(* Properties.                                                             *)
(***************************************************************************)

\* A call returns ProveError::Cancelled only when its caller handed it a token
\* and some thread entered request() on it: neither a poll of the inner flag
\* nor a failure of another kind is ever reported as a cancel of the host.
CancelledWasRequested ==
    \A c \in Calls : result[c] = "Cancelled" => IsRequested(c)

\* Once a token has stopped one call, every later look at it by another call
\* finds it stopped: no call that shares the token walks past a check.  A
\* request() that wrote the inner flag first would let a second call build its
\* witness after the first one was already cancelled.
StoppedTokenStopsOthers ==
    [][ \A c, d \in Calls :
            /\ result[d] = "Cancelled"
            /\ token[c] = token[d]
            /\ InStage(c, {"check"})
            => at'[c] = at[c] ]_proveVars

\* A request made before run_prover goes to work, at the entry of the function
\* or during the witness build, keeps that call from ever returning a proof,
\* however the stages and the two stores interleave.  The template, which has
\* no check before the prover, does not promise it.
BeforeProver(c) ==
    /\ Running(c)
    /\ statement[c] # "template"
    /\ ~InStage(c, {"id", "seed", "prover"})

NoProofWhenRequestedInTime ==
    \A c \in Calls :
        [](BeforeProver(c) /\ IsRequested(c) => [](result[c] # "Proof"))

\* The call keeps the promise of CancellableProve: it begins and ends once, and
\* reports a cancel only when asked.
Promise ==
    INSTANCE CancellableProve WITH
        LateProof <- TRUE,
        outcome <- [c \in Calls |-> IF at[c] = 0 THEN "idle"
                                    ELSE IF result[c] = NoResult THEN "pending"
                                    ELSE result[c]],
        asked <- {c \in Calls : IsRequested(c)}

ImplementsPromise == Promise!AbsSpec

\* A call whose token is requested returns, in whichever stage the request
\* finds it, although nothing makes an unrequested proof end.
RequestEndsCall == Promise!AskedEnds
=============================================================================
