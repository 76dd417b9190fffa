----------------------------- MODULE SwiftProve -----------------------------
(***************************************************************************)
(* The Swift package: HekateProver.prove(inputs:priority:) over the Rust   *)
(* call of ProveCall.  Every await makes its own token, runs the proof in  *)
(* a detached task on a thread of the cooperative pool, and requests the   *)
(* token from the cancellation handler of the awaiting task.               *)
(*                                                                         *)
(* A proof keeps its pool thread until the Rust call returns.  An        *)
(* awaiting task holds one only while it runs: before the detached task is *)
(* made and after its value is there.  The cancellation handler runs on    *)
(* the thread that cancels, which is not one of the pool's.                *)
(***************************************************************************)
EXTENDS ProveCall, FiniteSets

CONSTANT Threads    \* threads of the cooperative pool

ASSUME ThreadsIsPositive == Threads \in Nat \ {0}
ASSUME TokenPerCall == Tokens = Calls   \* named for the await that makes it
ASSUME HandlerPerCall == Hosts = Calls  \* the thread that runs its handler

VARIABLES
    task,           \* [Calls -> where the awaiting task is]
    cancelled,      \* [Calls -> Task.isCancelled of the awaiting task]
    handler,        \* [Calls -> what the cancellation handler has done]
    outcome         \* [Calls -> what the await returned or threw]

swiftVars == <<task, cancelled, handler, outcome>>
vars == <<proveVars, swiftVars>>

TaskStates == {"created", "entered", "handling", "awaiting", "returned"}
HandlerStates == {"absent", "armed", "due", "running", "ran"}

SwiftTypeOK ==
    /\ ProveTypeOK
    /\ task \in [Calls -> TaskStates]
    /\ cancelled \in [Calls -> BOOLEAN]
    /\ handler \in [Calls -> HandlerStates]
    /\ outcome \in [Calls -> Results \cup {NoResult}]

\* Mutant of MakeCancelToken: one token for all awaits.
SharedToken == [c \in Calls |-> CHOOSE d \in Calls : TRUE]

\* makeCancelToken: each await has a token of its own.
MakeCancelToken == [c \in Calls |-> c]

SwiftInit ==
    /\ ProveInit
    /\ token = MakeCancelToken
    /\ task = [c \in Calls |-> "created"]
    /\ cancelled = [c \in Calls |-> FALSE]
    /\ handler = [c \in Calls |-> "absent"]
    /\ outcome = [c \in Calls |-> NoResult]
-----------------------------------------------------------------------------
\* Mutant of OnThread: the await blocks its thread.
OnThreadWhileAwaiting(c) ==
    Running(c) \/ task[c] \in {"entered", "handling", "awaiting"}

\* The pool's threads in use, and the guard of every step that needs one more.
OnThread(c) == Running(c) \/ task[c] \in {"entered", "handling"}
ThreadFree == Cardinality({c \in Calls : OnThread(c)}) < Threads

\* makeCancelToken and withTaskCancellationHandler.  The handler of a task that
\* is cancelled already is invoked here, on this thread, before the operation.
Enter(c) ==
    /\ task[c] = "created"
    /\ ThreadFree
    /\ \/ ~cancelled[c] /\ task' = [task EXCEPT ![c] = "entered"]
                        /\ handler' = [handler EXCEPT ![c] = "armed"]
       \/ cancelled[c]  /\ task' = [task EXCEPT ![c] = "handling"]
                        /\ handler' = [handler EXCEPT ![c] = "due"]
    /\ UNCHANGED <<cancelled, outcome, proveVars>>

\* Mutant of Detach: the operation does not wait for the handler of a task that
\* is cancelled already.
DetachAtOnce(c) ==
    /\ task[c] \in {"entered", "handling"}
    /\ task' = [task EXCEPT ![c] = "awaiting"]
    /\ UNCHANGED <<cancelled, handler, outcome, proveVars>>

\* The operation: Task.detached, then the suspension at .value.
Detach(c) ==
    /\ \/ task[c] = "entered"
       \/ task[c] = "handling" /\ handler[c] = "ran"
    /\ task' = [task EXCEPT ![c] = "awaiting"]
    /\ UNCHANGED <<cancelled, handler, outcome, proveVars>>

\* Mutant of StartProof: a child task, which a cancel keeps from starting.
StartUnlessCancelled(c) ==
    /\ task[c] = "awaiting"
    /\ ~cancelled[c]
    /\ ThreadFree
    /\ Call(c)
    /\ UNCHANGED swiftVars

\* The detached task gets a thread and calls Self.prove(inputs:cancel:).  It is
\* not cancelled with the task that awaits it.
StartProof(c) ==
    /\ task[c] = "awaiting"
    /\ ThreadFree
    /\ Call(c)
    /\ UNCHANGED swiftVars

ProofStep(c) == CallStep(c) /\ UNCHANGED swiftVars

\* The await ends with what the detached task returned or threw.
Resume(c) ==
    /\ task[c] = "awaiting"
    /\ result[c] # NoResult
    /\ ThreadFree
    /\ task' = [task EXCEPT ![c] = "returned"]
    /\ outcome' = [outcome EXCEPT ![c] = result[c]]
    /\ handler' = [handler EXCEPT ![c] = IF @ = "armed" THEN "absent" ELSE @]
    /\ UNCHANGED <<cancelled, proveVars>>
-----------------------------------------------------------------------------
\* Task.cancel(), at any moment of the awaiting task's life.
Cancel(c) ==
    /\ ~cancelled[c]
    /\ cancelled' = [cancelled EXCEPT ![c] = TRUE]
    /\ handler' = [handler EXCEPT ![c] = IF @ = "armed" THEN "due" ELSE @]
    /\ UNCHANGED <<task, outcome, proveVars>>

\* Mutant of HandlerRequests: onCancel hops to the pool, Task { token.request() }.
HandlerAsTask(c) ==
    /\ handler[c] = "due"
    /\ ThreadFree
    /\ SetRequested(c, token[c])
    /\ handler' = [handler EXCEPT ![c] = "running"]
    /\ UNCHANGED <<task, cancelled, outcome>>

\* onCancel: token.request(), in its two stores.
HandlerRequests(c) ==
    /\ handler[c] = "due"
    /\ SetRequested(c, token[c])
    /\ handler' = [handler EXCEPT ![c] = "running"]
    /\ UNCHANGED <<task, cancelled, outcome>>

HandlerReturns(c) ==
    /\ handler[c] = "running"
    /\ SetInner(c)
    /\ handler' = [handler EXCEPT ![c] = "ran"]
    /\ UNCHANGED <<task, cancelled, outcome>>

SwiftStep(c) ==
    \/ Enter(c) \/ Detach(c) \/ StartProof(c) \/ ProofStep(c) \/ Resume(c)
    \/ Cancel(c) \/ HandlerRequests(c) \/ HandlerReturns(c)

\* Every await has returned, and every cancel that will come has come.
Terminated ==
    /\ \A c \in Calls : task[c] = "returned" /\ cancelled[c]
    /\ UNCHANGED vars

SwiftNext == (\E c \in Calls : SwiftStep(c)) \/ Terminated

SwiftSpec == SwiftInit /\ [][SwiftNext]_vars

\* Threads run what they hold, the pool takes a queued job when a thread stays
\* free, and a handler that was invoked runs.  Nobody has to call or to cancel,
\* and no proof has to end by itself.
SwiftFairness ==
    \A c \in Calls :
        /\ WF_vars(Detach(c))
        /\ WF_vars(StartProof(c))
        /\ WF_vars((Check(c) \/ Work(c)) /\ UNCHANGED swiftVars)
        /\ WF_vars(Poll(c) /\ UNCHANGED swiftVars)
        /\ WF_vars(Resume(c))
        /\ WF_vars(HandlerRequests(c))
        /\ WF_vars(HandlerReturns(c))

SwiftFairSpec == SwiftSpec /\ SwiftFairness

-----------------------------------------------------------------------------
(***************************************************************************)
(* Properties.                                                             *)
(***************************************************************************)

\* The await keeps the promise of CancellableProve to its own caller: it ends
\* once and throws Cancelled only when its own task was cancelled, whatever the
\* other tasks of the app cancel meanwhile.
Await ==
    INSTANCE CancellableProve WITH
        LateProof <- TRUE,
        outcome <- [c \in Calls |->
                        CASE task[c] = "created" -> "idle"
                          [] task[c] = "returned" -> outcome[c]
                          [] OTHER -> "pending"],
        asked <- {c \in Calls : cancelled[c]}

AwaitKeepsPromise == Await!AbsSpec

\* A task that was cancelled before it called prove never gets as far as its
\* inputs: the handler has requested the token by the time the detached task,
\* which is not cancelled itself, enters the Rust call.  The template's prove
\* function leaves the look at the token to the prover.
CancelledBeforeCall(c) ==
    cancelled[c] /\ task[c] = "created" /\ statement[c] # "template"

CancelledBeforeCallIsRefused ==
    \A c \in Calls : [](CancelledBeforeCall(c) => [](at[c] <= 1))

\* A cancel stops a running proof even when the proofs hold every thread of the
\* pool: nothing on the way from Task.cancel() to the prover's poll waits for a
\* pool thread.
CancelStopsRunningProof ==
    \A c \in Calls : (cancelled[c] /\ Running(c)) ~> (result[c] # NoResult)

\* Cancelling every task empties the pool: all awaits return, those whose proof
\* was still waiting for a thread too, although no proof ends by itself.
CancelAllReturnsAll ==
    \A c \in Calls :
        ((\A d \in Calls : cancelled[d]) /\ task[c] # "created")
            ~> (task[c] = "returned")

\* If the prover ends every proof, every await returns without any cancel: an
\* await that is suspended holds no thread its own proof could be waiting for.
ProofsEnd == \A c \in Calls : WF_vars(Finish(c) /\ UNCHANGED swiftVars)

EveryAwaitReturns ==
    ProofsEnd => \A c \in Calls : (task[c] # "created") ~> (task[c] = "returned")

\* swift/README.md: "The package calls request() on the token, the prover stops
\* at its next poll, and the await throws ProveError.Cancelled."
CancelledAwaitThrows ==
    [][ \A c \in Calls :
            Resume(c) /\ handler[c] = "ran" => outcome'[c] # "Proof" ]_vars
=============================================================================
