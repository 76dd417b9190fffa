---------------------------- MODULE KotlinProve -----------------------------
(***************************************************************************)
(* The Kotlin library: HekateProver.prove(inputs, dispatcher) over the     *)
(* Rust call of ProveCall.  withContext runs the block on a thread of the  *)
(* dispatcher; the block makes a token, opens a cancellable continuation   *)
(* whose cancellation handler requests the token, and makes the blocking   *)
(* Rust call before it looks at the continuation's result.                 *)
(*                                                                         *)
(* kotlinx.coroutines is external: Job.cancel() marks the caller's job,    *)
(* then the job of the withContext block, then the continuation, whose     *)
(* handler it runs, all on the thread that cancels.  The block's thread    *)
(* reads each of the three at its own moments.                             *)
(***************************************************************************)
EXTENDS ProveCall, FiniteSets

CONSTANTS
    Threads,        \* threads of the dispatcher
    Inside          \* calls made by a coroutine that already runs on the
                    \* dispatcher, as the Android benchmark's are: withContext
                    \* neither dispatches their block nor their return

ASSUME ThreadsIsPositive == Threads \in Nat \ {0}
ASSUME TokenPerCall == Tokens = Calls   \* named for the block that makes it
ASSUME HandlerPerCall == Hosts = Calls  \* the thread that runs its handler
ASSUME InsideAreCalls == Inside \subseteq Calls

VARIABLES
    phase,          \* [Calls -> where the withContext block is]
    job,            \* [Calls -> the caller's job]
    scope,          \* [Calls -> the job of the withContext block]
    cont,           \* [Calls -> the cancellable continuation]
    handler,        \* [Calls -> its cancellation handler]
    value,          \* [Calls -> what the block completed with]
    outcome         \* [Calls -> what prove returned to the coroutine, or threw]

kotlinVars == <<phase, job, scope, cont, handler, value, outcome>>
vars == <<proveVars, kotlinVars>>

\* CancellationException, which is not ProveError.Cancelled.
Ends == Results \cup {"CancellationException"}
OnThreadPhases == {"started", "opened", "handling", "ready", "proving", "resumed"}

KotlinTypeOK ==
    /\ ProveTypeOK
    /\ phase \in [Calls -> OnThreadPhases \cup
                            {"created", "dispatched", "completed", "returned"}]
    /\ job \in [Calls -> {"active", "cancelling"}]
    /\ scope \in [Calls -> {"none", "active", "cancelling"}]
    /\ cont \in [Calls -> {"none", "open", "resumed", "cancelled"}]
    /\ handler \in [Calls -> {"absent", "armed", "due", "running", "ran"}]
    /\ value \in [Calls -> Ends \cup {NoResult}]
    /\ outcome \in [Calls -> Ends \cup {NoResult}]

\* makeCancelToken: each block has a token of its own.
MakeCancelToken == [c \in Calls |-> c]

KotlinInit ==
    /\ ProveInit
    /\ token = MakeCancelToken
    /\ phase = [c \in Calls |-> "created"]
    /\ job = [c \in Calls |-> "active"]
    /\ scope = [c \in Calls |-> "none"]
    /\ cont = [c \in Calls |-> "none"]
    /\ handler = [c \in Calls |-> "absent"]
    /\ value = [c \in Calls |-> NoResult]
    /\ outcome = [c \in Calls |-> NoResult]
-----------------------------------------------------------------------------
\* Mutant of OnThread: a block that waits in the queue counts against the pool.
OnThreadWhileQueued(c) == phase[c] \in OnThreadPhases \cup {"dispatched"}

OnThread(c) == phase[c] \in OnThreadPhases
ThreadFree == Cardinality({c \in Calls : OnThread(c)}) < Threads

Goto(c, p) == phase' = [phase EXCEPT ![c] = p]
ReturnToCaller(c, v) == Goto(c, "returned") /\ outcome' = [outcome EXCEPT ![c] = v]

\* withContext: ensureActive, then the block's own job, a child of the caller's.
Enter(c) ==
    /\ phase[c] = "created"
    /\ c \in Inside => ThreadFree
    /\ \/ /\ job[c] = "cancelling"
          /\ ReturnToCaller(c, "CancellationException")
          /\ UNCHANGED scope
       \/ /\ job[c] = "active"
          /\ Goto(c, IF c \in Inside THEN "started" ELSE "dispatched")
          /\ scope' = [scope EXCEPT ![c] = "active"]
          /\ UNCHANGED outcome
    /\ UNCHANGED <<job, cont, handler, value, proveVars>>

\* A thread of the dispatcher takes the block; one whose job was cancelled in
\* the queue is not run.  makeCancelToken is the block's first line.
Start(c) ==
    /\ phase[c] = "dispatched"
    /\ ThreadFree
    /\ \/ /\ scope[c] = "cancelling"
          /\ Goto(c, "completed")
          /\ value' = [value EXCEPT ![c] = "CancellationException"]
       \/ /\ scope[c] = "active"
          /\ Goto(c, "started")
          /\ UNCHANGED value
    /\ UNCHANGED <<job, scope, cont, handler, outcome, proveVars>>

\* suspendCancellableCoroutine: the continuation is born cancelled when the
\* block's job is cancelled already.
OpenContinuation(c) ==
    /\ phase[c] = "started"
    /\ cont' = [cont EXCEPT ![c] = IF scope[c] = "cancelling" THEN "cancelled"
                                                               ELSE "open"]
    /\ Goto(c, "opened")
    /\ UNCHANGED <<job, scope, handler, value, outcome, proveVars>>

\* Mutant of RegisterHandler: the handler hears of later cancels only.
RegisterForLaterCancels(c) ==
    /\ phase[c] = "opened"
    /\ Goto(c, "ready")
    /\ handler' = [handler EXCEPT ![c] = "armed"]
    /\ UNCHANGED <<job, scope, cont, value, outcome, proveVars>>

\* invokeOnCancellation: a continuation that is cancelled already runs the
\* handler here, on the block's thread, before the next line.
RegisterHandler(c) ==
    /\ phase[c] = "opened"
    /\ \/ /\ cont[c] = "cancelled"
          /\ Goto(c, "handling")
          /\ handler' = [handler EXCEPT ![c] = "due"]
       \/ /\ cont[c] = "open"
          /\ Goto(c, "ready")
          /\ handler' = [handler EXCEPT ![c] = "armed"]
    /\ UNCHANGED <<job, scope, cont, value, outcome, proveVars>>

\* Mutant of StartProof: the call is made before the handler is registered.
StartProofFirst(c) ==
    /\ \/ phase[c] \in {"opened", "ready"}
       \/ phase[c] = "handling" /\ handler[c] = "ran"
    /\ Goto(c, "proving")
    /\ Call(c)
    /\ UNCHANGED <<job, scope, cont, handler, value, outcome>>

\* prove(inputs, token) is called whatever became of the continuation.
StartProof(c) ==
    /\ \/ phase[c] = "ready"
       \/ phase[c] = "handling" /\ handler[c] = "ran"
    /\ Goto(c, "proving")
    /\ Call(c)
    /\ UNCHANGED <<job, scope, cont, handler, value, outcome>>

ProofStep(c) == CallStep(c) /\ UNCHANGED kotlinVars

\* Mutant of ResumeWith: the answer of the Rust call replaces the cancel.
ResumeCancelled(c) ==
    /\ phase[c] = "proving"
    /\ result[c] # NoResult
    /\ cont' = [cont EXCEPT ![c] = "resumed"]
    /\ Goto(c, "resumed")
    /\ UNCHANGED <<job, scope, handler, value, outcome, proveVars>>

\* cont.resumeWith(runCatching { ... }): a cancelled continuation ignores it.
ResumeWith(c) ==
    /\ phase[c] = "proving"
    /\ result[c] # NoResult
    /\ cont' = [cont EXCEPT ![c] = IF @ = "open" THEN "resumed" ELSE @]
    /\ Goto(c, "resumed")
    /\ UNCHANGED <<job, scope, handler, value, outcome, proveVars>>

\* Mutant of BlockValue: suspendCoroutine's rule, which does not look at the job.
BlockValueUnchecked(c) ==
    IF cont[c] = "cancelled" THEN "CancellationException" ELSE result[c]

\* What the block ends with: a cancelled continuation throws, an error is
\* thrown as it is, and a proof is dropped when the block's job is cancelled by
\* the time the suspension and then the block complete.
BlockValue(c) ==
    IF \/ cont[c] = "cancelled"
       \/ scope[c] = "cancelling" /\ result[c] = "Proof"
    THEN "CancellationException" ELSE result[c]

\* Mutant of Complete: the block ends with its continuation, whether or not the
\* blocking call has returned.
CompleteOnCancel(c) ==
    /\ phase[c] = "resumed" \/ (phase[c] = "proving" /\ cont[c] = "cancelled")
    /\ \/ /\ c \in Inside
          /\ ReturnToCaller(c, BlockValue(c))
          /\ UNCHANGED value
       \/ /\ c \notin Inside
          /\ value' = [value EXCEPT ![c] = BlockValue(c)]
          /\ Goto(c, "completed")
          /\ UNCHANGED outcome
    /\ UNCHANGED <<job, scope, cont, handler, proveVars>>

Complete(c) ==
    /\ phase[c] = "resumed"
    /\ \/ /\ c \in Inside
          /\ ReturnToCaller(c, BlockValue(c))
          /\ UNCHANGED value
       \/ /\ c \notin Inside
          /\ value' = [value EXCEPT ![c] = BlockValue(c)]
          /\ Goto(c, "completed")
          /\ UNCHANGED outcome
    /\ UNCHANGED <<job, scope, cont, handler, proveVars>>

\* The caller is dispatched again, on its own dispatcher: a value is dropped
\* when its job was cancelled in the meantime, an exception is not.
Resume(c) ==
    /\ phase[c] = "completed"
    /\ ReturnToCaller(c, IF job[c] = "cancelling" /\ value[c] = "Proof"
                         THEN "CancellationException" ELSE value[c])
    /\ UNCHANGED <<job, scope, cont, handler, value, proveVars>>
-----------------------------------------------------------------------------
(***************************************************************************)
(* Job.cancel(), on any thread: the caller's job, the block's, the         *)
(* continuation, the handler.                                              *)
(***************************************************************************)
Cancel(c) ==
    /\ job[c] = "active"
    /\ job' = [job EXCEPT ![c] = "cancelling"]
    /\ UNCHANGED <<phase, scope, cont, handler, value, outcome, proveVars>>

CancelScope(c) ==
    /\ job[c] = "cancelling"
    /\ scope[c] = "active"
    /\ phase[c] \notin {"completed", "returned"}
    /\ scope' = [scope EXCEPT ![c] = "cancelling"]
    /\ UNCHANGED <<phase, job, cont, handler, value, outcome, proveVars>>

\* Mutant of CancelContinuation: told of the terminal state of the job, not of
\* the request to cancel it.
CancelOnTermination(c) ==
    /\ scope[c] = "cancelling"
    /\ cont[c] = "open"
    /\ ~OnThread(c)
    /\ cont' = [cont EXCEPT ![c] = "cancelled"]
    /\ handler' = [handler EXCEPT ![c] = IF @ = "armed" THEN "due" ELSE @]
    /\ UNCHANGED <<phase, job, scope, value, outcome, proveVars>>

CancelContinuation(c) ==
    /\ scope[c] = "cancelling"
    /\ cont[c] = "open"
    /\ cont' = [cont EXCEPT ![c] = "cancelled"]
    /\ handler' = [handler EXCEPT ![c] = IF @ = "armed" THEN "due" ELSE @]
    /\ UNCHANGED <<phase, job, scope, value, outcome, proveVars>>

HandlerRequests(c) ==
    /\ handler[c] = "due"
    /\ SetRequested(c, token[c])
    /\ handler' = [handler EXCEPT ![c] = "running"]
    /\ UNCHANGED <<phase, job, scope, cont, value, outcome>>

HandlerReturns(c) ==
    /\ handler[c] = "running"
    /\ SetInner(c)
    /\ handler' = [handler EXCEPT ![c] = "ran"]
    /\ UNCHANGED <<phase, job, scope, cont, value, outcome>>

BlockStep(c) ==
    \/ Start(c) \/ OpenContinuation(c) \/ RegisterHandler(c) \/ StartProof(c)
    \/ ProofStep(c) \/ ResumeWith(c) \/ Complete(c) \/ Resume(c)
CancelStep(c) ==
    \/ CancelScope(c) \/ CancelContinuation(c)
    \/ HandlerRequests(c) \/ HandlerReturns(c)

\* Every call has returned, and every cancel that will come has come.
Terminated ==
    /\ \A c \in Calls : phase[c] = "returned" /\ job[c] = "cancelling"
    /\ UNCHANGED vars

KotlinNext ==
    \/ \E c \in Calls : Enter(c) \/ BlockStep(c) \/ Cancel(c) \/ CancelStep(c)
    \/ Terminated

KotlinSpec == KotlinInit /\ [][KotlinNext]_vars

\* A dispatched block starts when a thread stays free, a thread runs what it
\* holds, and a cancel() that began goes on to the handler.  Nobody has to call
\* or to cancel, and no proof has to end by itself.
KotlinFairness ==
    \A c \in Calls :
        /\ WF_vars(Start(c)) /\ WF_vars(OpenContinuation(c))
        /\ WF_vars(RegisterHandler(c)) /\ WF_vars(StartProof(c))
        /\ WF_vars((Check(c) \/ Work(c)) /\ UNCHANGED kotlinVars)
        /\ WF_vars(Poll(c) /\ UNCHANGED kotlinVars)
        /\ WF_vars(ResumeWith(c)) /\ WF_vars(Complete(c)) /\ WF_vars(Resume(c))
        /\ WF_vars(CancelScope(c)) /\ WF_vars(CancelContinuation(c))
        /\ WF_vars(HandlerRequests(c)) /\ WF_vars(HandlerReturns(c))

KotlinFairSpec == KotlinSpec /\ KotlinFairness

-----------------------------------------------------------------------------
(***************************************************************************)
(* Properties.                                                             *)
(***************************************************************************)

\* The suspend call keeps the strict promise of CancellableProve: it ends once,
\* throws CancellationException only when its own job was cancelled, and gives
\* no proof to a coroutine that was cancelled before the call returned.  A call
\* from inside the dispatcher is not dispatched on its return, so for it the
\* promise starts when cancel() has reached the block's job.
Asked(c) == job[c] = "cancelling" /\ (c \in Inside => scope[c] # "active")

Suspend ==
    INSTANCE CancellableProve WITH
        LateProof <- FALSE,
        outcome <- [c \in Calls |->
                        IF phase[c] = "created" THEN "idle"
                        ELSE IF phase[c] # "returned" THEN "pending"
                        ELSE IF outcome[c] = "CancellationException" THEN "Cancelled"
                        ELSE outcome[c]],
        asked <- {c \in Calls : Asked(c)}

SuspendKeepsPromise == Suspend!AbsSpec

\* A cancel reaches the coroutine as CancellationException, which its scope
\* understands: the ProveError.Cancelled with which the Rust call answers the
\* request is never what the suspend function throws.
RustCancelIsNotThrown ==
    \A c \in Calls : outcome[c] # "Cancelled" /\ value[c] # "Cancelled"

\* No proof runs on behind the back of a coroutine that was told it is over: a
\* cancelled call returns when its prover has stopped, not when its
\* continuation was cancelled.
NoProofBehindCaller ==
    \A c \in Calls : phase[c] = "returned" => ~Running(c)

\* The block makes its Rust call without looking at its job.  So a cancel that
\* comes when the block runs but has no handler yet has only the handler to go
\* by: registered late, it requests the token before the next line makes the
\* call, whose first check then finds it, and no input is looked at.  (The
\* template's prove function has no such check.)
CancelledBeforeHandler(c) ==
    /\ statement[c] # "template"
    /\ \/ phase[c] = "started" /\ scope[c] = "cancelling"
       \/ phase[c] = "opened" /\ cont[c] = "cancelled"

CancelledBeforeHandlerIsRefused ==
    \A c \in Calls : [](CancelledBeforeHandler(c) => [](at[c] <= 1))

\* Job.cancel() stops a running proof when it is requested, not when the job
\* reaches its terminal state, which the blocked thread keeps it from reaching.
CancelStopsRunningProof ==
    \A c \in Calls :
        (job[c] = "cancelling" /\ Running(c)) ~> (result[c] # NoResult)

\* Cancelling every job frees the dispatcher: all calls return, those whose
\* block still waits for a thread too, although no proof ends by itself.
CancelAllReturnsAll ==
    \A c \in Calls :
        ((\A d \in Calls : job[d] = "cancelling") /\ phase[c] # "created")
            ~> (phase[c] = "returned")

\* If the prover ends every proof, every call returns without any cancel.
ProofsEnd == \A c \in Calls : WF_vars(Finish(c) /\ UNCHANGED kotlinVars)

EveryCallReturns ==
    ProofsEnd => \A c \in Calls : (phase[c] # "created") ~> (phase[c] = "returned")
=============================================================================
