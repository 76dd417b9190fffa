------------------------- MODULE KotlinProveProofs --------------------------
(***************************************************************************)
(* Proofs about KotlinProve for any number of calls, any size of the       *)
(* dispatcher, any choice of statements and of the calls made inside it.   *)
(*                                                                         *)
(* A cancel travels in one direction: the caller's job, the block's job,   *)
(* the continuation, the handler, the token.  Whatever is found at one     *)
(* place on the way has passed the places before it (CancelTravels), and   *)
(* the block's own thread may look at any two of them at any two moments.  *)
(***************************************************************************)
EXTENDS KotlinProve, ProveCallProofs

-----------------------------------------------------------------------------
(***************************************************************************)
(* The inductive invariant.                                                *)
(***************************************************************************)
CancelTravels(c) ==
    /\ token[c] = c
    /\ requested[c] => cont[c] = "cancelled"
    /\ handler[c] \in {"due", "running", "ran"} => cont[c] = "cancelled"
    /\ cont[c] = "cancelled" => scope[c] = "cancelling"
    /\ scope[c] = "cancelling" => job[c] = "cancelling"

BeforeCall == {"created", "dispatched", "started", "opened", "handling", "ready"}
AfterCall == {"resumed", "completed", "returned"}

\* The Rust call is made between two phases of the block and has returned
\* before the last ones; what the block hands on was never its Cancelled.
BlockFollowsCall(c) ==
    /\ phase[c] \in BeforeCall => at[c] = 0
    /\ phase[c] \in AfterCall => ~Running(c)
    /\ phase[c] = "resumed" => result[c] # NoResult
    /\ phase[c] \in {"created", "dispatched", "started"} => cont[c] = "none"
    /\ phase[c] = "created" => scope[c] = "none"
    /\ phase[c] \notin {"created", "returned"} => scope[c] # "none"
    /\ phase[c] \in {"dispatched", "completed"} => c \notin Inside
    /\ phase[c] = "completed" => value[c] # NoResult
    /\ value[c] = "CancellationException" => job[c] = "cancelling"
    /\ value[c] # "Cancelled"
    /\ outcome[c] # "Cancelled"

KotlinInv ==
    /\ KotlinTypeOK
    /\ ProveInv
    /\ \A c \in Calls : CancelTravels(c)
    /\ \A c \in Calls : BlockFollowsCall(c)

LEMMA KotlinInitInv == KotlinInit => KotlinInv
  <1> SUFFICES ASSUME KotlinInit
               PROVE  KotlinInv
    OBVIOUS
  <1>1. ProveInv
    BY InitInv DEF KotlinInit
  <1>2. KotlinTypeOK
    BY <1>1 DEF KotlinInit, KotlinTypeOK, ProveInv
  <1>3. \A c \in Calls : CancelTravels(c)
    BY TokenPerCall DEF KotlinInit, ProveInit, CancelTravels, MakeCancelToken
  <1>4. \A c \in Calls : BlockFollowsCall(c)
    BY DEF KotlinInit, ProveInit, BlockFollowsCall, BeforeCall, AfterCall,
           NoResult
  <1> QED
    BY <1>1, <1>2, <1>3, <1>4 DEF KotlinInv

\* The Rust calls take a step of ProveCall in every step of the library.
LEMMA KotlinStepsProve ==
    ASSUME KotlinInv, [KotlinNext]_vars
    PROVE  [ProveNext]_proveVars
  <1>1. ASSUME NEW c \in Calls, StartProof(c) \/ ProofStep(c)
        PROVE  ProveNext
    BY <1>1 DEF StartProof, ProofStep, ProveNext
  <1>2. ASSUME NEW c \in Calls, HandlerRequests(c)
        PROVE  ProveNext
    BY <1>2, TokenPerCall, HandlerPerCall
    DEF HandlerRequests, ProveNext, KotlinInv, CancelTravels
  <1>3. ASSUME NEW c \in Calls, HandlerReturns(c)
        PROVE  ProveNext
    BY <1>3, HandlerPerCall DEF HandlerReturns, ProveNext
  <1>4. ASSUME NEW c \in Calls,
               \/ Enter(c) \/ Start(c) \/ OpenContinuation(c)
               \/ RegisterHandler(c) \/ ResumeWith(c) \/ Complete(c) \/ Resume(c)
               \/ Cancel(c) \/ CancelScope(c) \/ CancelContinuation(c)
        PROVE  UNCHANGED proveVars
    BY <1>4
    DEF Enter, Start, OpenContinuation, RegisterHandler, ResumeWith, Complete,
        Resume, Cancel, CancelScope, CancelContinuation
  <1>5. CASE Terminated \/ UNCHANGED vars
    BY <1>5 DEF Terminated, vars
  <1> QED
    BY <1>1, <1>2, <1>3, <1>4, <1>5 DEF KotlinNext, BlockStep, CancelStep

\* What the block ends with is never the answer to its own request.
LEMMA BlockValueIsNotCancelled ==
    ASSUME KotlinInv, NEW c \in Calls, phase[c] = "resumed"
    PROVE  /\ BlockValue(c) \in Ends \ {"Cancelled"}
           /\ BlockValue(c) = "CancellationException" => scope[c] = "cancelling"
  <1>1. result[c] \in Results
    BY DEF KotlinInv, KotlinTypeOK, ProveTypeOK, BlockFollowsCall
  <1>2. result[c] = "Cancelled" => cont[c] = "cancelled"
    BY DEF KotlinInv, ProveInv, CancelledWasRequested, IsRequested, CancelTravels
  <1>3. cont[c] = "cancelled" => scope[c] = "cancelling"
    BY DEF KotlinInv, CancelTravels
  <1> QED
    BY <1>1, <1>2, <1>3 DEF BlockValue, Ends, Results, Errors

LEMMA KotlinNextInv == KotlinInv /\ [KotlinNext]_vars => KotlinInv'
  <1> SUFFICES ASSUME KotlinInv, [KotlinNext]_vars
               PROVE  KotlinInv'
    OBVIOUS
  <1> DEFINE Kept == /\ KotlinTypeOK'
                     /\ \A d \in Calls : CancelTravels(d)'
                     /\ \A d \in Calls : BlockFollowsCall(d)'
  <1>t. KotlinTypeOK /\ ProveTypeOK /\ ProveInv
    BY DEF KotlinInv, KotlinTypeOK
  <1>p. ProveInv' /\ ProveTypeOK'
    BY <1>t, NextInv, KotlinStepsProve DEF ProveInv
  <1>a. \A d \in Calls : CancelTravels(d)
    BY DEF KotlinInv
  <1>b. \A d \in Calls : BlockFollowsCall(d)
    BY DEF KotlinInv
  <1> USE DEF KotlinTypeOK, OnThreadPhases, Ends, BeforeCall, AfterCall,
              Goto, ReturnToCaller, CancelTravels, BlockFollowsCall
  <1>1. ASSUME NEW c \in Calls, Enter(c)
        PROVE  Kept
    BY <1>1, <1>t, <1>p, <1>a, <1>b DEF Enter, proveVars, Running, NoResult
  <1>2. ASSUME NEW c \in Calls, Start(c)
        PROVE  Kept
    BY <1>2, <1>t, <1>p, <1>a, <1>b DEF Start, proveVars, Running, NoResult
  <1>3. ASSUME NEW c \in Calls, OpenContinuation(c)
        PROVE  Kept
    BY <1>3, <1>t, <1>p, <1>a, <1>b DEF OpenContinuation, proveVars, Running
  <1>4. ASSUME NEW c \in Calls, RegisterHandler(c)
        PROVE  Kept
    BY <1>4, <1>t, <1>p, <1>a, <1>b DEF RegisterHandler, proveVars, Running
  <1>5. ASSUME NEW c \in Calls, StartProof(c)
        PROVE  Kept
    BY <1>5, <1>t, <1>p, <1>a, <1>b
    DEF StartProof, Call, Advance, tokenVars, Running, ProveTypeOK
  <1>6. ASSUME NEW c \in Calls, ProofStep(c)
        PROVE  Kept
    <2>1. CallStep(c) /\ UNCHANGED kotlinVars /\ Running(c)
      BY <1>6
      DEF ProofStep, CallStep, Check, Work, Refuse, Panic, Poll, Finish, InStage
    <2>2. phase[c] = "proving"
      BY <1>t, <1>b, <2>1 DEF Running
    <2>3. UNCHANGED <<statement, token, requested, inner, requesting>>
      BY <1>t, <2>1, CallMoves
    <2>4. \A d \in Calls \ {c} : at'[d] = at[d] /\ result'[d] = result[d]
      BY <1>t, <2>1, CallMoves DEF ProveTypeOK
    <2> QED
      BY <1>t, <1>p, <1>a, <1>b, <2>1, <2>2, <2>3, <2>4
      DEF kotlinVars, Running
  <1>7. ASSUME NEW c \in Calls, ResumeWith(c)
        PROVE  Kept
    BY <1>7, <1>t, <1>p, <1>a, <1>b DEF ResumeWith, proveVars, Running
  <1>8. ASSUME NEW c \in Calls, Complete(c)
        PROVE  Kept
    <2>1. /\ BlockValue(c) \in Ends \ {"Cancelled"}
          /\ BlockValue(c) = "CancellationException" => scope[c] = "cancelling"
      BY <1>8, BlockValueIsNotCancelled DEF Complete
    <2>2. NoResult \notin Ends
      BY DEF NoResult, Results, Errors
    <2> QED
      BY <1>8, <1>t, <1>p, <1>a, <1>b, <2>1, <2>2
      DEF Complete, proveVars, Running
  <1>9. ASSUME NEW c \in Calls, Resume(c)
        PROVE  Kept
    BY <1>9, <1>t, <1>p, <1>a, <1>b DEF Resume, proveVars, Running
  <1>10. ASSUME NEW c \in Calls,
                Cancel(c) \/ CancelScope(c) \/ CancelContinuation(c)
         PROVE  Kept
    BY <1>10, <1>t, <1>p, <1>a, <1>b
    DEF Cancel, CancelScope, CancelContinuation, proveVars, Running
  <1>11. ASSUME NEW c \in Calls, HandlerRequests(c)
         PROVE  Kept
    BY <1>11, <1>t, <1>p, <1>a, <1>b, TokenPerCall
    DEF HandlerRequests, SetRequested, callVars, Running, ProveTypeOK
  <1>12. ASSUME NEW c \in Calls, HandlerReturns(c)
         PROVE  Kept
    BY <1>12, <1>t, <1>p, <1>a, <1>b
    DEF HandlerReturns, SetInner, callVars, Running
  <1>13. CASE Terminated \/ UNCHANGED vars
    BY <1>13, <1>t, <1>p, <1>a, <1>b
    DEF Terminated, vars, kotlinVars, proveVars, Running, KotlinInv
  <1> QED
    BY <1>p, <1>1, <1>2, <1>3, <1>4, <1>5, <1>6, <1>7, <1>8, <1>9, <1>10, <1>11,
       <1>12, <1>13
    DEF KotlinNext, BlockStep, CancelStep, KotlinInv

LEMMA KotlinSpecInv == KotlinSpec => []KotlinInv
  BY KotlinInitInv, KotlinNextInv, PTL DEF KotlinSpec

\* Every block, its job, its continuation and its Rust call stay in states the
\* code can be in.
THEOREM KotlinTypeCorrect == KotlinSpec => []KotlinTypeOK
  BY KotlinSpecInv, PTL DEF KotlinInv

\* The suspend function never throws the ProveError.Cancelled with which the
\* Rust call answers its request: a cancel is a CancellationException.
THEOREM CancelIsCancellationException == KotlinSpec => []RustCancelIsNotThrown
  <1>1. KotlinInv => RustCancelIsNotThrown
    BY DEF KotlinInv, BlockFollowsCall, RustCancelIsNotThrown
  <1> QED
    BY <1>1, KotlinSpecInv, PTL

\* A call returns to its coroutine only when its prover has stopped.
THEOREM NoProofIsLeftRunning == KotlinSpec => []NoProofBehindCaller
  <1>1. KotlinInv => NoProofBehindCaller
    BY DEF KotlinInv, BlockFollowsCall, AfterCall, NoProofBehindCaller
  <1> QED
    BY <1>1, KotlinSpecInv, PTL
-----------------------------------------------------------------------------
(***************************************************************************)
(* A cancel before the handler.                                            *)
(***************************************************************************)

\* From the cancel to the end of the call: the handler runs when it is
\* registered, the call waits for it, and stays at its first check.
Refused(c) ==
    /\ statement[c] # "template"
    /\ at[c] <= 1
    /\ \/ CancelledBeforeHandler(c)
       \/ phase[c] = "handling" /\ (handler[c] \in {"running", "ran"} => requested[c])
       \/ phase[c] \in {"proving", "resumed", "completed", "returned"} /\ requested[c]

LEMMA RefusedStays ==
    ASSUME NEW c \in Calls
    PROVE  KotlinInv /\ Refused(c) /\ [KotlinNext]_vars => Refused(c)'
  <1> SUFFICES ASSUME KotlinInv, Refused(c), [KotlinNext]_vars
               PROVE  Refused(c)'
    OBVIOUS
  <1>t. KotlinTypeOK /\ ProveTypeOK /\ ProveInv
    BY DEF KotlinInv, KotlinTypeOK
  <1>a. \A d \in Calls : CancelTravels(d)
    BY DEF KotlinInv
  <1>b. \A d \in Calls : BlockFollowsCall(d)
    BY DEF KotlinInv
  <1>r. UNCHANGED statement /\ (requested[c] => requested'[c])
    BY <1>t, <1>a, KotlinStepsProve, RequestsStay, NoTokenIsNone, TokenPerCall
    DEF IsRequested, CancelTravels
  <1>1. ASSUME NEW d \in Calls,
               \/ Enter(d) \/ Start(d) \/ OpenContinuation(d)
               \/ RegisterHandler(d) \/ ResumeWith(d) \/ Complete(d) \/ Resume(d)
               \/ Cancel(d) \/ CancelScope(d) \/ CancelContinuation(d)
        PROVE  Refused(c)'
    BY <1>1, <1>t, <1>a, <1>b
    DEF Enter, Start, OpenContinuation, RegisterHandler, ResumeWith, Complete,
        Resume, Cancel, CancelScope, CancelContinuation, Goto, ReturnToCaller,
        proveVars, KotlinTypeOK, Refused, CancelledBeforeHandler
  <1>2. ASSUME NEW d \in Calls, HandlerRequests(d)
        PROVE  Refused(c)'
    <2>1. d = c => requested'[c]
      BY <1>2, <1>t, <1>a, TokenPerCall
      DEF HandlerRequests, SetRequested, CancelTravels, ProveTypeOK
    <2>2. d # c => handler'[c] = handler[c]
      BY <1>2, <1>t DEF HandlerRequests, KotlinTypeOK
    <2>3. UNCHANGED <<phase, scope, cont, at>>
      BY <1>2 DEF HandlerRequests, SetRequested, callVars
    <2> QED
      BY <1>r, <2>1, <2>2, <2>3 DEF Refused, CancelledBeforeHandler
  <1>3. ASSUME NEW d \in Calls, HandlerReturns(d)
        PROVE  Refused(c)'
    BY <1>3, <1>r, <1>t
    DEF HandlerReturns, SetInner, callVars, KotlinTypeOK, Refused,
        CancelledBeforeHandler
  <1>4. ASSUME NEW d \in Calls, StartProof(d) \/ ProofStep(d)
        PROVE  Refused(c)'
    <2>1. CASE d = c /\ StartProof(d)
      <3>1. requested[c] /\ phase'[c] = "proving"
        BY <1>t, <2>1 DEF StartProof, Goto, Refused, CancelledBeforeHandler,
                          KotlinTypeOK
      <3>2. at'[c] = 1
        BY <1>t, <2>1 DEF StartProof, Call, Advance, ProveTypeOK
      <3> QED
        BY <1>r, <3>1, <3>2 DEF Refused
    <2>2. CASE d # c \/ ProofStep(d)
      <3>1. phase'[c] = phase[c] /\ UNCHANGED <<scope, cont, handler>>
        BY <1>4, <1>t, <2>2
        DEF StartProof, ProofStep, kotlinVars, Goto, KotlinTypeOK
      <3>2. at'[c] <= 1
        <4>1. CASE at'[c] = at[c]
          BY <4>1 DEF Refused
        <4>2. CASE at'[c] # at[c]
          <5>1. d = c /\ CallStep(c) /\ Running(c)
            BY <1>4, <1>t, <2>2, <4>2
            DEF StartProof, ProofStep, CallStep, Call, Check, Work, Refuse,
                Panic, Poll, Finish, InStage, Running, Advance, Return,
                ProveTypeOK
          <5>2. at[c] = 1
            BY <1>t, <5>1 DEF Refused, Running, ProveTypeOK
          <5>3. InStage(c, {"check"})
            BY <1>t, <5>1, <5>2, FirstStageIsCheck, StatementsKnown
            DEF Refused, InStage, Stage, ProveTypeOK
          <5>4. requested[c]
            BY <1>b, <5>2
            DEF Refused, CancelledBeforeHandler, BlockFollowsCall, BeforeCall
          <5>5. IsRequested(c)
            BY <1>a, <5>4, NoTokenIsNone, TokenPerCall
            DEF CancelTravels, IsRequested
          <5> QED
            BY <1>t, <4>2, <5>3, <5>5, KotlinStepsProve, RequestedCheckStops
        <4> QED
          BY <4>1, <4>2
      <3> QED
        BY <1>r, <3>1, <3>2 DEF Refused, CancelledBeforeHandler
    <2> QED
      BY <1>4, <2>1, <2>2
  <1>5. CASE Terminated \/ UNCHANGED vars
    BY <1>5
    DEF Terminated, vars, kotlinVars, proveVars, Refused, CancelledBeforeHandler
  <1> QED
    BY <1>1, <1>2, <1>3, <1>4, <1>5 DEF KotlinNext, BlockStep, CancelStep

\* A cancel that finds the block without a handler keeps its Rust call at the
\* first check.
THEOREM CancelBeforeHandlerRefuses == KotlinSpec => CancelledBeforeHandlerIsRefused
  <1> SUFFICES ASSUME NEW c \in Calls
               PROVE  KotlinSpec => [](CancelledBeforeHandler(c) => [](at[c] <= 1))
    BY DEF CancelledBeforeHandlerIsRefused
  <1>1. KotlinInv /\ CancelledBeforeHandler(c) => Refused(c)
    BY DEF KotlinInv, BlockFollowsCall, BeforeCall, Refused, CancelledBeforeHandler
  <1>2. Refused(c) => at[c] <= 1
    BY DEF Refused
  <1>3. KotlinInv /\ Refused(c) /\ [KotlinNext]_vars => Refused(c)'
    BY RefusedStays
  <1> QED
    BY <1>1, <1>2, <1>3, KotlinSpecInv, PTL DEF KotlinSpec
-----------------------------------------------------------------------------
(***************************************************************************)
(* The refinement of CancellableProve, with no late proof.                 *)
(***************************************************************************)
SuspendOutcome(c) ==
    IF phase[c] = "created" THEN "idle"
    ELSE IF phase[c] # "returned" THEN "pending"
    ELSE IF outcome[c] = "CancellationException" THEN "Cancelled"
    ELSE outcome[c]
AskedJobs == {c \in Calls : Asked(c)}

\* What the caller is told when its call returns with v.
Told(v) == IF v = "CancellationException" THEN "Cancelled" ELSE v

LEMMA ToldIsOutcome ==
    ASSUME NEW v \in Ends
    PROVE  Told(v) \in Suspend!Outcomes
  BY DEF Told, Ends, Results, Errors, Suspend!Outcomes, Suspend!Failures

\* A return to the caller is an end of the promise if a cancel was asked for,
\* and a proof is handed over only if none was.
LEMMA ReturnEnds ==
    ASSUME KotlinInv, NEW c \in Calls, NEW v \in Ends \ {"Cancelled"},
           phase[c] \notin {"created", "returned"},
           ReturnToCaller(c, v), UNCHANGED <<job, scope>>,
           v = "CancellationException" => Asked(c),
           v = "Proof" => ~Asked(c)
    PROVE  Suspend!AbsNext
  <1>t. KotlinTypeOK
    BY DEF KotlinInv
  <1>1. PICK o \in Suspend!Outcomes : o = Told(v)
    BY ToldIsOutcome
  <1>2. UNCHANGED AskedJobs
    BY DEF AskedJobs, Asked
  <1>3. /\ phase' = [phase EXCEPT ![c] = "returned"]
        /\ outcome' = [outcome EXCEPT ![c] = v]
    BY DEF ReturnToCaller, Goto
  <1>4. /\ phase'[c] = "returned" /\ outcome'[c] = v
        /\ \A d \in Calls \ {c} : phase'[d] = phase[d] /\ outcome'[d] = outcome[d]
    BY <1>t, <1>3 DEF KotlinTypeOK
  <1>5. /\ SuspendOutcome(c) = "pending"
        /\ \A d \in Calls :
                SuspendOutcome(d)' = IF d = c THEN o ELSE SuspendOutcome(d)
    BY <1>1, <1>4 DEF SuspendOutcome, Told
  <1>6. /\ o = "Cancelled" => c \in AskedJobs
        /\ o = "Proof" => c \notin AskedJobs
    BY <1>1 DEF Told, AskedJobs
  <1>7. Suspend!End(c, o)
    BY <1>2, <1>5, <1>6 DEF Suspend!End, SuspendOutcome, AskedJobs
  <1> QED
    BY <1>7 DEF Suspend!AbsNext

\* The suspend call keeps the strict promise of CancellableProve.
THEOREM KotlinImplementsPromise == KotlinSpec => SuspendKeepsPromise
  <1>1. KotlinInit => Suspend!AbsInit
    BY DEF KotlinInit, Asked, Suspend!AbsInit
  <1>2. KotlinInv /\ [KotlinNext]_vars => [Suspend!AbsNext]_Suspend!absVars
    <2> SUFFICES ASSUME KotlinInv, [KotlinNext]_vars
                 PROVE  Suspend!AbsNext \/ UNCHANGED Suspend!absVars
      OBVIOUS
    <2>t. KotlinTypeOK
      BY DEF KotlinInv
    <2>a. \A d \in Calls : CancelTravels(d)
      BY DEF KotlinInv
    <2>b. \A d \in Calls : BlockFollowsCall(d)
      BY DEF KotlinInv
    <2>1. ASSUME NEW c \in Calls, Enter(c)
          PROVE  Suspend!AbsNext
      <3>1. CASE job[c] = "cancelling"
        <4>1. /\ SuspendOutcome(c) = "idle"
              /\ \A d \in Calls : SuspendOutcome(d)' =
                        IF d = c THEN "Cancelled" ELSE SuspendOutcome(d)
          BY <2>1, <2>t, <3>1
          DEF Enter, ReturnToCaller, Goto, SuspendOutcome, KotlinTypeOK
        <4>2. UNCHANGED AskedJobs /\ c \in AskedJobs
          BY <2>1, <2>b, <3>1 DEF Enter, AskedJobs, Asked, BlockFollowsCall
        <4>3. Suspend!Decline(c)
          BY <4>1, <4>2 DEF Suspend!Decline, SuspendOutcome, AskedJobs
        <4> QED
          BY <4>3 DEF Suspend!AbsNext
      <3>2. CASE job[c] = "active"
        <4>1. /\ SuspendOutcome(c) = "idle"
              /\ \A d \in Calls : SuspendOutcome(d)' =
                        IF d = c THEN "pending" ELSE SuspendOutcome(d)
          BY <2>1, <2>t, <3>2
          DEF Enter, ReturnToCaller, Goto, SuspendOutcome, KotlinTypeOK
        <4>2. UNCHANGED AskedJobs
          BY <2>1, <2>t, <3>2 DEF Enter, AskedJobs, Asked, KotlinTypeOK
        <4>3. Suspend!Begin(c)
          BY <4>1, <4>2 DEF Suspend!Begin, SuspendOutcome, AskedJobs
        <4> QED
          BY <4>3 DEF Suspend!AbsNext
      <3> QED
        BY <2>t, <3>1, <3>2 DEF KotlinTypeOK
    <2>2. ASSUME NEW c \in Calls,
                 \/ Start(c) \/ OpenContinuation(c) \/ RegisterHandler(c)
                 \/ StartProof(c) \/ ResumeWith(c)
                 \/ Complete(c) /\ c \notin Inside
          PROVE  UNCHANGED Suspend!absVars
      <3>1. \A d \in Calls : SuspendOutcome(d)' = SuspendOutcome(d)
        BY <2>2, <2>t
        DEF Start, OpenContinuation, RegisterHandler, StartProof, ResumeWith,
            Complete, Goto, SuspendOutcome, KotlinTypeOK
      <3>2. UNCHANGED AskedJobs
        BY <2>2
        DEF Start, OpenContinuation, RegisterHandler, StartProof, ResumeWith,
            Complete, AskedJobs, Asked
      <3> QED
        BY <3>1, <3>2 DEF Suspend!absVars, SuspendOutcome, AskedJobs
    <2>3. ASSUME NEW c \in Calls, Complete(c), c \in Inside
          PROVE  Suspend!AbsNext
      <3> DEFINE v == BlockValue(c)
      <3>1. /\ v \in Ends \ {"Cancelled"}
            /\ v = "CancellationException" => scope[c] = "cancelling"
        BY <2>3, BlockValueIsNotCancelled DEF Complete
      <3>2. ReturnToCaller(c, v) /\ phase[c] = "resumed" /\ UNCHANGED <<job, scope>>
        BY <2>3 DEF Complete
      <3>3. scope[c] \in {"active", "cancelling"}
        BY <2>t, <2>b, <3>2 DEF KotlinTypeOK, BlockFollowsCall
      <3>4. v = "Proof" => scope[c] # "cancelling"
        BY DEF BlockValue
      <3>5. Asked(c) <=> scope[c] = "cancelling"
        BY <2>3, <2>a, <3>3 DEF Asked, CancelTravels
      <3> HIDE DEF v
      <3> QED
        BY <3>1, <3>2, <3>4, <3>5, ReturnEnds
    <2>4. ASSUME NEW c \in Calls, Resume(c)
          PROVE  Suspend!AbsNext
      <3> DEFINE v == IF job[c] = "cancelling" /\ value[c] = "Proof"
                      THEN "CancellationException" ELSE value[c]
      <3>1. ReturnToCaller(c, v) /\ phase[c] = "completed" /\ UNCHANGED <<job, scope>>
        BY <2>4 DEF Resume
      <3>2. c \notin Inside /\ value[c] \in Ends \ {"Cancelled"}
        BY <2>t, <2>b, <3>1 DEF KotlinTypeOK, BlockFollowsCall
      <3>3. v \in Ends \ {"Cancelled"}
        BY <3>2 DEF Ends
      <3>4. Asked(c) <=> job[c] = "cancelling"
        BY <3>2 DEF Asked
      <3>5. v = "CancellationException" => job[c] = "cancelling"
        BY <2>b DEF BlockFollowsCall
      <3>6. v = "Proof" => job[c] # "cancelling"
        OBVIOUS
      <3> HIDE DEF v
      <3> QED
        BY <3>1, <3>3, <3>4, <3>5, <3>6, ReturnEnds
    <2>5. ASSUME NEW c \in Calls, Cancel(c) \/ CancelScope(c)
          PROVE  Suspend!AbsNext
      <3> DEFINE S == {d \in Calls : Asked(d)'}
      <3>1. AskedJobs' = AskedJobs \cup S /\ S \in SUBSET Calls
        BY <2>5, <2>t DEF Cancel, CancelScope, AskedJobs, Asked, KotlinTypeOK
      <3>2. Suspend!Ask(S)
        BY <2>5, <3>1 DEF Cancel, CancelScope, Suspend!Ask, AskedJobs
      <3> QED
        BY <3>1, <3>2 DEF Suspend!AbsNext
    <2>6. ASSUME NEW c \in Calls,
                 \/ ProofStep(c) \/ CancelContinuation(c)
                 \/ HandlerRequests(c) \/ HandlerReturns(c)
          PROVE  UNCHANGED Suspend!absVars
      BY <2>6
      DEF ProofStep, kotlinVars, CancelContinuation, HandlerRequests,
          HandlerReturns, Suspend!absVars, Asked
    <2>7. CASE Terminated \/ UNCHANGED vars
      BY <2>7 DEF Terminated, vars, kotlinVars, Suspend!absVars, Asked
    <2> QED
      BY <2>1, <2>2, <2>3, <2>4, <2>5, <2>6, <2>7
      DEF KotlinNext, BlockStep, CancelStep
  <1> QED
    BY <1>1, <1>2, KotlinSpecInv, PTL
    DEF KotlinSpec, SuspendKeepsPromise, Suspend!AbsSpec
=============================================================================
