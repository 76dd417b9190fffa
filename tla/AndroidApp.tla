----------------------------- MODULE AndroidApp ------------------------------
(***************************************************************************)
(* The Android example app: MainActivity, created and destroyed any number *)
(* of times, the job of a run with the benchmark's proofs, and the signing *)
(* keys in the Keystore.                                                   *)
(*                                                                         *)
(* Every activity has a scope of its own, which its end cancels.  The job  *)
(* starts on the main thread, enters withContext(Default) for the          *)
(* benchmark, and from there withContext(Main) for each progress line; a   *)
(* caller waits for its block, so a cancelled job goes on until the step   *)
(* it is in has ended.  Meanwhile the next activity may start a run.  A    *)
(* proof is what CancellableProve promises, which KotlinProve implements.  *)
(***************************************************************************)
EXTENDS Naturals

CONSTANTS
    Runs,           \* Benchmark.RUNS
    MaxActivities,  \* activities that are ever created
    Statements,     \* {"rsa", "mldsa", "hash"} or fewer
    Keys, NoKey     \* signing keys the Keystore may make

VARIABLES
    created,        \* how many activities were created; the last has the screen
    destroyed,      \* the activities onDestroy was called on
    statement,      \* [Activities -> the statement selected]
    status,         \* [Activities -> what its views show of a run]
    running,        \* [Activities -> showRunning]
    step,           \* [Activities -> where its job is; "none" without one]
    run,            \* [Activities -> the proof the job is at]
    job,            \* [Activities -> the statement and the key of the job]
    error,          \* [Activities -> what the block has thrown]
    keystore,       \* [SigningStatements -> the key under the alias, or NoKey]
    outcome, asked  \* of the proofs of the jobs, as in CancellableProve

screen == <<created, destroyed, statement>>
androidVars == <<created, destroyed, statement, status, running, step, run, job,
                 error, keystore, outcome, asked>>

Activities == 1..MaxActivities
Proofs == 1..Runs
ProofsOf(a) == {a} \X Proofs
Prove == INSTANCE CancellableProve
            WITH Calls <- Activities \X Proofs, LateProof <- FALSE

SigningStatements == {"rsa", "mldsa"}

ASSUME StatementsAreKnown == Statements \subseteq SigningStatements \cup {"hash"}
ASSUME SomeRuns == Runs \in Nat \ {0}
ASSUME SomeActivities == MaxActivities \in Nat \ {0}
-----------------------------------------------------------------------------
IsCancelled(a) == ProofsOf(a) \subseteq asked
IsCreated(a) == a \in 1..created /\ a \notin destroyed
OnScreen(a) == a = created /\ a \notin destroyed
NewJob(s) == [statement |-> s, key |-> NoKey]

AppInit ==
    /\ created = 1
    /\ destroyed = {}
    /\ statement \in [Activities -> Statements]
    /\ \A a \in Activities : statement[a] = statement[1]
    /\ status = [a \in Activities |-> "empty"]
    /\ running = [a \in Activities |-> FALSE]
    /\ step = [a \in Activities |-> "none"]
    /\ run = [a \in Activities |-> 0]
    /\ job = [a \in Activities |-> NewJob(statement[1])]
    /\ error = [a \in Activities |-> "none"]
    /\ keystore = [s \in SigningStatements |-> NoKey]
    /\ Prove!AbsInit
-----------------------------------------------------------------------------
(***************************************************************************)
(* The user and the system.                                                *)
(***************************************************************************)
Select(a, s) ==
    /\ OnScreen(a) /\ ~running[a]
    /\ statement' = [statement EXCEPT ![a] = s]
    /\ status' = [status EXCEPT ![a] = "empty"]
    /\ UNCHANGED <<created, destroyed, running, step, run, job, error, keystore,
                   outcome, asked>>

\* start(): a job of the activity's scope, dispatched to the main thread.
Start(a) ==
    /\ OnScreen(a) /\ ~running[a]
    /\ running' = [running EXCEPT ![a] = TRUE]
    /\ status' = [status EXCEPT ![a] = "preparing"]
    /\ step' = [step EXCEPT ![a] = "launched"]
    /\ job' = [job EXCEPT ![a] = NewJob(statement[a])]
    /\ UNCHANGED <<screen, run, error, keystore, outcome, asked>>

\* Mutant of Cancel: the proof under way is cancelled, not the job.
CancelProof(a) ==
    /\ OnScreen(a) /\ running[a] /\ step[a] # "launched"
    /\ Prove!Ask({<<a, run[a]>>} \cap ProofsOf(a))
    /\ UNCHANGED <<created, destroyed, statement, status, running, step, run, job,
                   error, keystore>>

\* The Cancel button is drawn after the block of launch has begun.
Cancel(a) ==
    /\ OnScreen(a) /\ running[a] /\ step[a] # "launched"
    /\ Prove!Ask(ProofsOf(a))
    /\ UNCHANGED <<created, destroyed, statement, status, running, step, run, job,
                   error, keystore>>

\* Mutant of Destroy: the activity has no onDestroy.
DestroyAlone(a) ==
    /\ IsCreated(a)
    /\ destroyed' = destroyed \cup {a}
    /\ UNCHANGED <<created, statement, status, running, step, run, job, error,
                   keystore, outcome, asked>>

\* onDestroy: scope.cancel(), with or without a job.  It may come long after
\* the activity has left the screen.
Destroy(a) ==
    /\ IsCreated(a)
    /\ destroyed' = destroyed \cup {a}
    /\ Prove!Ask(ProofsOf(a))
    /\ UNCHANGED <<created, statement, status, running, step, run, job, error, keystore>>

\* onCreate, after the end of the last activity or before it: the user goes back
\* and starts the app again.  The views give the selection back, or begin anew
\* and the user selects.
Create ==
    /\ created < MaxActivities
    /\ created' = created + 1
    /\ \E s \in Statements : statement' = [statement EXCEPT ![created + 1] = s]
    /\ UNCHANGED <<destroyed, status, running, step, run, job, error, keystore,
                   outcome, asked>>
-----------------------------------------------------------------------------
(***************************************************************************)
(* The job.                                                                *)
(***************************************************************************)
Quiet(a) == UNCHANGED <<created, destroyed, statement, status, running, outcome, asked>>

GoTo(a, s) ==
    /\ step' = [step EXCEPT ![a] = s]
    /\ UNCHANGED <<run, job, error, keystore>>

\* An exception leaves the benchmark's block; its caller waits for it on the
\* main thread.
Throw(a, e) ==
    /\ step' = [step EXCEPT ![a] = "returning"]
    /\ error' = [error EXCEPT ![a] = e]
    /\ UNCHANGED <<run, job, keystore>>

\* The block of launch, if its scope is not cancelled before: the conditions
\* and the memory are read, and the benchmark is dispatched.
BeginJob(a) ==
    /\ step[a] = "launched"
    /\ Quiet(a)
    /\ \/ IsCancelled(a) /\ GoTo(a, "none")
       \/ ~IsCancelled(a) /\ (Throw(a, "failed") \/ GoTo(a, "dispatched"))

\* withContext(Default): a block cancelled in the queue is not run.  Then the
\* session: a signature statement loads its key.
OpenSession(a) ==
    /\ step[a] = "dispatched"
    /\ Quiet(a)
    /\ \/ IsCancelled(a) /\ Throw(a, "cancelled")
       \/ /\ ~IsCancelled(a)
          /\ \/ job[a].statement \notin SigningStatements /\ GoTo(a, "progress")
             \/ job[a].statement \in SigningStatements /\ GoTo(a, "load")

\* loadKeyPair; a key without its certificate is an error, and so is any other
\* trouble with the Keystore.
LoadKey(a) ==
    /\ step[a] = "load"
    /\ Quiet(a)
    /\ LET k == keystore[job[a].statement]
       IN  \/ Throw(a, "failed")
           \/ k = NoKey /\ GoTo(a, "generate")
           \/ /\ k # NoKey
              /\ job' = [job EXCEPT ![a].key = k]
              /\ step' = [step EXCEPT ![a] = "progress"]
              /\ UNCHANGED <<run, error, keystore>>

\* generateKeyPair puts the new pair under the alias, over one that is there.
\* ML-DSA falls back to a key in memory.  The session looks at the pair only
\* then, and what it refuses stays under the alias.
WithRsaKey(k) == {[keystore EXCEPT !["rsa"] = k]}
WithMlDsaKey(k) == {[keystore EXCEPT !["mldsa"] = k], keystore}

GenerateKey(a) ==
    /\ step[a] = "generate"
    /\ Quiet(a)
    /\ \/ Throw(a, "failed")
       \/ \E k \in Keys \ {keystore[s] : s \in SigningStatements} :
            /\ keystore' \in IF job[a].statement = "rsa" THEN WithRsaKey(k)
                                                        ELSE WithMlDsaKey(k)
            /\ \/ /\ job' = [job EXCEPT ![a].key = k]
                  /\ step' = [step EXCEPT ![a] = "progress"]
                  /\ UNCHANGED <<run, error>>
               \/ /\ step' = [step EXCEPT ![a] = "returning"]
                  /\ error' = [error EXCEPT ![a] = "failed"]
                  /\ UNCHANGED <<run, job>>

\* withContext(Main) { onRun(run) } ends in a CancellationException on the way
\* there or back; a line that was shown before the cancel stays.
ShowProgress(a) ==
    /\ step[a] = "progress"
    /\ IF IsCancelled(a)
       THEN Throw(a, "cancelled") /\ UNCHANGED status
       ELSE /\ run' = [run EXCEPT ![a] = @ + 1]
            /\ status' = [status EXCEPT ![a] = "proving"]
            /\ step' = [step EXCEPT ![a] = "shown"]
            /\ UNCHANGED <<job, error, keystore>>
    /\ UNCHANGED <<screen, running, outcome, asked>>

\* Back from the main thread, the challenge and its signature.
MakeInputs(a) ==
    /\ step[a] = "shown"
    /\ Quiet(a)
    /\ \/ IsCancelled(a) /\ Throw(a, "cancelled")
       \/ ~IsCancelled(a) /\ (Throw(a, "failed") \/ GoTo(a, "inputs"))

\* prove looks at the job, and a call of a cancelled job does not begin.
CallProve(a) ==
    /\ step[a] = "inputs"
    /\ UNCHANGED <<screen, status, running, asked>>
    /\ \/ Prove!Decline(<<a, run[a]>>) /\ Throw(a, "cancelled")
       \/ /\ ~IsCancelled(a)
          /\ Prove!Begin(<<a, run[a]>>)
          /\ GoTo(a, "prove")

EndProof(a, o) ==
    /\ step[a] = "prove"
    /\ Prove!End(<<a, run[a]>>, o)
    /\ CASE o = "Proof" -> GoTo(a, "verify")
         [] o = "Cancelled" -> Throw(a, "cancelled")
         [] OTHER -> Throw(a, "failed")
    /\ UNCHANGED <<screen, status, running>>

VerifyProof(a) ==
    /\ step[a] = "verify"
    /\ Quiet(a)
    /\ \/ Throw(a, "failed")
       \/ run[a] < Runs /\ GoTo(a, "progress")
       \/ run[a] = Runs /\ GoTo(a, "returning")

\* Mutant of ResumedWith: the value of the block is handed over as it is.
ResumedAnyway(a) == IF error[a] = "none" THEN {"report", "failed"} ELSE {error[a]}

\* The job is resumed on the main thread: with the measurement, which is
\* dropped for a CancellationException if the job is cancelled by then and
\* whose report may fail on the memory, or with what the block has thrown.
ResumedWith(a) ==
    IF error[a] # "none" THEN {error[a]}
    ELSE IF IsCancelled(a) THEN {"cancelled"} ELSE {"report", "failed"}

\* Mutant of FinishJob: what was cancelled is the scope, so a later job is too.
FinishForGood(a) ==
    /\ step[a] = "returning"
    /\ \E shown \in ResumedWith(a) : status' = [status EXCEPT ![a] = shown]
    /\ running' = [running EXCEPT ![a] = FALSE]
    /\ step' = [step EXCEPT ![a] = "none"]
    /\ run' = [run EXCEPT ![a] = 0]
    /\ job' = [job EXCEPT ![a].key = NoKey]
    /\ error' = [error EXCEPT ![a] = "none"]
    /\ outcome' = [p \in DOMAIN outcome |->
                        IF p \in ProofsOf(a) THEN "idle" ELSE outcome[p]]
    /\ UNCHANGED <<screen, keystore, asked>>

\* The try of launch to its end: the views, and showRunning(false).  The job is
\* over, and what it held with it.
FinishJob(a) ==
    /\ step[a] = "returning"
    /\ \E shown \in ResumedWith(a) : status' = [status EXCEPT ![a] = shown]
    /\ running' = [running EXCEPT ![a] = FALSE]
    /\ step' = [step EXCEPT ![a] = "none"]
    /\ run' = [run EXCEPT ![a] = 0]
    /\ job' = [job EXCEPT ![a].key = NoKey]
    /\ error' = [error EXCEPT ![a] = "none"]
    /\ outcome' = [p \in DOMAIN outcome |->
                        IF p \in ProofsOf(a) THEN "idle" ELSE outcome[p]]
    /\ asked' = asked \ ProofsOf(a)
    /\ UNCHANGED <<screen, keystore>>

JobStep(a) ==
    \/ BeginJob(a) \/ OpenSession(a) \/ LoadKey(a) \/ GenerateKey(a)
    \/ ShowProgress(a) \/ MakeInputs(a) \/ CallProve(a) \/ VerifyProof(a)
    \/ FinishJob(a)

AppNext ==
    \/ \E a \in Activities, s \in Statements : Select(a, s)
    \/ \E a \in Activities : Start(a) \/ Cancel(a) \/ Destroy(a) \/ JobStep(a)
    \/ \E a \in Activities, o \in Prove!Outcomes : EndProof(a, o)
    \/ Create

AppSpec == AppInit /\ [][AppNext]_androidVars

\* The main thread and the dispatcher run what is queued, the Keystore answers,
\* and a proof that was asked to stop ends (AskedEnds).
AppFairSpec ==
    /\ AppSpec
    /\ \A a \in Activities :
        /\ WF_androidVars(JobStep(a))
        /\ WF_androidVars(<<a, run[a]>> \in asked
                            /\ \E o \in Prove!Outcomes : EndProof(a, o))
-----------------------------------------------------------------------------
(***************************************************************************)
(* Properties.                                                             *)
(***************************************************************************)

\* No report is shown of a run that was cancelled before: not when the tap
\* comes after the last proof, nor when the measurement is already on its way
\* to the main thread.
NoReportAfterCancel ==
    [][ \A a \in Activities :
            IsCancelled(a) /\ status'[a] = "report" => status[a] = "report" ]_androidVars

\* The views and the job go together: while an activity that is not
\* destroyed shows a run, a job is there to end it, for the views of a run
\* take no other start and only the finally of the job's block takes them
\* back.  There is no job that they do not show, and none of a destroyed
\* activity that is not cancelled.
JobIsShown ==
    \A a \in Activities :
        /\ step[a] # "none" => running[a]
        /\ running[a] /\ a \notin destroyed => step[a] # "none"
        /\ a \in destroyed /\ step[a] # "none" => IsCancelled(a)

\* After Cancel the run ends and the activity can start another, at whichever
\* step the tap finds the job and although no proof need end by itself.
CancelEndsRun ==
    \A a \in Activities :
        (running[a] /\ asked \cap ProofsOf(a) # {} /\ a \notin destroyed)
            ~> (~running[a] \/ a \in destroyed)

\* An activity that the system destroys leaves no job behind: its proofs end,
\* also the one that no view can cancel any more.
DestroyedActivityStopsProving ==
    \A a \in Activities : (a \in destroyed) ~> [](step[a] = "none")

\* "a key made on first use" (examples/README.md): what is under an alias is
\* made once and not replaced by another key.
KeyMadeOnce ==
    [][ \A s \in SigningStatements :
            keystore[s] # NoKey => keystore'[s] = keystore[s] ]_androidVars
=============================================================================
