------------------------------- MODULE IosApp --------------------------------
(***************************************************************************)
(* The iOS example app: RunModel and its view, the task of a run with the  *)
(* benchmark's proofs, and the signing keys in the Keychain.               *)
(*                                                                         *)
(* RunModel lives on the main actor; the benchmark runs on the pool and    *)
(* comes back to the main actor for its progress, its result and its       *)
(* errors, so that the user may act between any two of its steps.  The     *)
(* app may be killed at any time; the Keychain stays.  A proof is what     *)
(* CancellableProve promises, which SwiftProve implements.                 *)
(***************************************************************************)
EXTENDS Naturals, FiniteSets

CONSTANTS
    Runs,           \* Benchmark.runs
    Sizes,          \* the input sizes of a hash statement
    FirstSize,      \* the one a statement begins with
    NoSize,         \* inputSize = nil
    Keys, NoKey     \* signing keys the platform may make

VARIABLES
    statement, inputSize,   \* the selection
    phase,          \* RunModel.phase: [kind, report]
    step,           \* where the task is; "none" without one
    run,            \* the proof it is at
    job,            \* [statement, inputSize, key] the task works with
    error,          \* what the task has thrown, on its way to the main actor
    stored,         \* [SigningStatements -> the keys in the Keychain]
    outcome, asked  \* of the task's proofs, as in CancellableProve

iosVars == <<statement, inputSize, phase, step, run, job, error, stored, outcome, asked>>

Proofs == 1..Runs
Prove == INSTANCE CancellableProve WITH Calls <- Proofs, LateProof <- TRUE

SigningStatements == {"rsa", "mldsa"}
Statements == SigningStatements \cup {"hash"}

ASSUME FirstSizeIsSize == FirstSize \in Sizes /\ NoSize \notin Sizes
ASSUME RunsPositive == Runs \in Nat \ {0}
-----------------------------------------------------------------------------
NoReport == [statement |-> "none"]
Phase(kind) == [kind |-> kind, report |-> NoReport]

Ended == {"finished", "cancelled", "failed"}
IsRunning == phase.kind \in {"preparing", "proving"}
IsCancelled == asked # {}

NoProofs ==
    /\ outcome' = [p \in Proofs |-> "idle"]
    /\ asked' = {}

AppInit ==
    /\ statement = "rsa"
    /\ inputSize = NoSize
    /\ phase = Phase("idle")
    /\ step = "none" /\ run = 0 /\ error = "none"
    /\ job = [statement |-> "rsa", inputSize |-> NoSize, key |-> NoKey]
    /\ stored = [s \in SigningStatements |-> {}]
    /\ Prove!AbsInit
-----------------------------------------------------------------------------
(***************************************************************************)
(* The user.  The pickers are disabled while a run is under way; the view  *)
(* has a Cancel button then, and the run button otherwise.                 *)
(***************************************************************************)

\* The didSet of statement sets inputSize, whose didSet clears the phase too.
SelectStatement(s) ==
    /\ ~IsRunning
    /\ statement' = s
    /\ inputSize' = IF s \in SigningStatements THEN NoSize ELSE FirstSize
    /\ phase' = Phase("idle")
    /\ UNCHANGED <<step, run, job, error, stored, outcome, asked>>

\* Mutant of SelectSize: inputSize has no didSet.
SelectSizeOnly(z) ==
    /\ ~IsRunning
    /\ statement \notin SigningStatements
    /\ inputSize' = z
    /\ UNCHANGED <<statement, phase, step, run, job, error, stored, outcome, asked>>

SelectSize(z) ==
    /\ ~IsRunning
    /\ statement \notin SigningStatements
    /\ inputSize' = z
    /\ phase' = Phase("idle")
    /\ UNCHANGED <<statement, step, run, job, error, stored, outcome, asked>>

\* start(): the task has the selection of this moment, and replaces the last.
Start ==
    /\ ~IsRunning
    /\ phase' = Phase("preparing")
    /\ step' = "created"
    /\ run' = 0
    /\ job' = [statement |-> statement, inputSize |-> inputSize, key |-> NoKey]
    /\ error' = "none"
    /\ NoProofs
    /\ UNCHANGED <<statement, inputSize, stored>>

\* Mutant of Cancel: the phase says cancelled before the task has ended.
CancelAtOnce ==
    /\ IsRunning
    /\ Prove!Ask(Proofs)
    /\ phase' = Phase("cancelled")
    /\ UNCHANGED <<statement, inputSize, step, run, job, error, stored>>

\* Mutant of Cancel: the proof under way is cancelled, not the task.
CancelProof ==
    /\ IsRunning
    /\ Prove!Ask({run} \cap Proofs)
    /\ UNCHANGED <<statement, inputSize, phase, step, run, job, error, stored>>

\* task?.cancel(): every proof of the task sees it, those to come as well.
Cancel ==
    /\ IsRunning
    /\ Prove!Ask(Proofs)
    /\ UNCHANGED <<statement, inputSize, phase, step, run, job, error, stored>>

\* The process ends and is launched again.
Kill ==
    /\ statement' = "rsa"
    /\ inputSize' = NoSize
    /\ phase' = Phase("idle")
    /\ step' = "none" /\ run' = 0 /\ error' = "none"
    /\ job' = [statement |-> "rsa", inputSize |-> NoSize, key |-> NoKey]
    /\ NoProofs
    /\ UNCHANGED stored
-----------------------------------------------------------------------------
(***************************************************************************)
(* The task.                                                               *)
(***************************************************************************)
Quiet == UNCHANGED <<statement, inputSize, phase, outcome, asked>>

Throw(e) ==
    /\ step' = "throwing"
    /\ error' = e
    /\ UNCHANGED <<run, job, stored>>

GoTo(s) ==
    /\ step' = s
    /\ UNCHANGED <<run, job, error, stored>>

\* The version, the conditions and the footprint, on the main actor; then the
\* session, on the pool: a hash statement needs a size, a signature one a key.
Prepare ==
    /\ step = "created"
    /\ Quiet
    /\ \/ Throw("failed")
       \/ job.statement \in SigningStatements /\ GoTo("load")
       \/ job.statement \notin SigningStatements /\ GoTo("progress")

\* loadOrCreateKey, loadOrCreate: only an item that was not found is made; a
\* locked Keychain is an error.
LoadKey ==
    /\ step = "load"
    /\ Quiet
    /\ \/ Throw("failed")
       \/ stored[job.statement] = {} /\ GoTo("create")
       \/ \E k \in stored[job.statement] :
            /\ job' = [job EXCEPT !.key = k]
            /\ step' = "progress"
            /\ UNCHANGED <<run, error, stored>>

\* SecKeyCreateRandomKey makes a permanent key, or none, in one call; the
\* ML-DSA key is made first and has to be stored.
CreateKey ==
    /\ step = "create"
    /\ Quiet
    /\ \/ Throw("failed")
       \/ \E k \in Keys \ UNION {stored[s] : s \in SigningStatements} :
            /\ job' = [job EXCEPT !.key = k]
            /\ IF job.statement = "rsa"
               THEN /\ stored' = [stored EXCEPT !["rsa"] = @ \cup {k}]
                    /\ step' = "progress"
               ELSE /\ UNCHANGED stored
                    /\ step' = "store"
            /\ UNCHANGED <<run, error>>

\* Mutant of StoreKey: a failure of SecItemAdd is passed over.
StoreKeyUnchecked ==
    /\ step = "store"
    /\ Quiet
    /\ stored' \in {stored, [stored EXCEPT !["mldsa"] = @ \cup {job.key}]}
    /\ step' = "progress"
    /\ UNCHANGED <<run, job, error>>

\* SecItemAdd adds or fails; it never replaces an item.
StoreKey ==
    /\ step = "store"
    /\ Quiet
    /\ \/ Throw("failed")
       \/ /\ stored["mldsa"] = {}
          /\ stored' = [stored EXCEPT !["mldsa"] = {job.key}]
          /\ step' = "progress"
          /\ UNCHANGED <<run, job, error>>

\* await onRun(run), on the main actor.  It does not look at cancellation.
ShowProgress ==
    /\ step = "progress"
    /\ phase' = Phase("proving")
    /\ run' = run + 1
    /\ step' = "inputs"
    /\ UNCHANGED <<statement, inputSize, job, error, stored, outcome, asked>>

\* The challenge and its signature, then the call of prove.
MakeInputs ==
    /\ step = "inputs"
    /\ \/ Throw("failed") /\ Quiet
       \/ /\ GoTo("prove")
          /\ UNCHANGED <<statement, inputSize, phase, asked>>
          /\ Prove!Begin(run)

EndProof(o) ==
    /\ step = "prove"
    /\ Prove!End(run, o)
    /\ \/ o = "Proof" /\ GoTo("verify")
       \/ o = "Cancelled" /\ Throw("cancelled")
       \/ o \in Prove!Failures /\ Throw("failed")
    /\ UNCHANGED <<statement, inputSize, phase>>

VerifyProof ==
    /\ step = "verify"
    /\ Quiet
    /\ \/ Throw("failed")
       \/ run < Runs /\ GoTo("progress")
       \/ run = Runs /\ GoTo("returning")

\* Back on the main actor: the report, whose footprint may not be read.
FinishTask ==
    /\ step = "returning"
    /\ phase' \in { Phase("failed"), [kind |-> "finished", report |-> job] }
    /\ step' = "none"
    /\ UNCHANGED <<statement, inputSize, run, job, error, stored, outcome, asked>>

\* catch ProveError.Cancelled, and every other error.
Catch ==
    /\ step = "throwing"
    /\ phase' = Phase(error)
    /\ step' = "none"
    /\ UNCHANGED <<statement, inputSize, run, job, error, stored, outcome, asked>>

TaskStep ==
    \/ Prepare \/ LoadKey \/ CreateKey \/ StoreKey
    \/ ShowProgress \/ MakeInputs \/ VerifyProof
    \/ FinishTask \/ Catch

AppNext ==
    \/ \E s \in Statements : SelectStatement(s)
    \/ \E z \in Sizes : SelectSize(z)
    \/ Start \/ Cancel \/ Kill
    \/ TaskStep
    \/ \E o \in Prove!Outcomes : EndProof(o)

AppSpec == AppInit /\ [][AppNext]_iosVars

\* The main actor and the pool run what is queued, and a proof that was asked
\* to stop ends (AskedEnds); no other proof need ever end.
AppFairSpec ==
    /\ AppSpec
    /\ WF_iosVars(TaskStep)
    /\ WF_iosVars(run \in asked /\ \E o \in Prove!Outcomes : EndProof(o))
-----------------------------------------------------------------------------
(***************************************************************************)
(* Properties.                                                             *)
(***************************************************************************)

\* The report on the screen is of the statement and the input size that are
\* selected, whatever was tapped since the run began.
ReportIsOfSelection ==
    phase.kind = "finished" =>
        /\ phase.report.statement = statement
        /\ phase.report.inputSize = inputSize

\* The outcome of a run stays until the user selects or starts something: no
\* late progress, result or error of a task writes over it.
OutcomeStays ==
    [][ phase.kind \in Ended /\ phase' # phase
            => phase'.kind \in {"idle", "preparing"} ]_iosVars

\* The proofs of a finished report are under a key that the Keychain holds, and
\* no account ever holds two: neither a failed or lost store nor a launch in
\* the middle of one leaves a report whose key is gone.
ReportedKeyIsKept ==
    /\ \A s \in SigningStatements : Cardinality(stored[s]) <= 1
    /\ phase.kind = "finished" /\ phase.report.statement \in SigningStatements =>
            phase.report.key \in stored[phase.report.statement]

\* After Cancel the run ends, at whichever step the tap finds it and although
\* no proof need end by itself.
CancelEndsRun == (IsRunning /\ IsCancelled) ~> ~IsRunning
=============================================================================
