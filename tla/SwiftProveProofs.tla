-------------------------- MODULE SwiftProveProofs --------------------------
(***************************************************************************)
(* Proofs about SwiftProve for any number of awaits, any size of the pool  *)
(* and any choice of statements.                                           *)
(*                                                                         *)
(* Every step of the package is a step of the Rust calls or leaves them    *)
(* alone, so that the invariant of ProveCallProofs carries over.  To it    *)
(* comes the way of a cancel: a token is requested only by the handler of  *)
(* its own await, which runs only if its own task is cancelled.            *)
(***************************************************************************)
EXTENDS SwiftProve, ProveCallProofs

-----------------------------------------------------------------------------
(***************************************************************************)
(* The inductive invariant.                                                *)
(***************************************************************************)
Handled(c) == handler[c] \in {"due", "running", "ran"}

\* What the parts of an await know of each other.
AwaitInv(c) ==
    /\ token[c] = c
    /\ requested[c] => cancelled[c]
    /\ Handled(c) => cancelled[c]
    /\ handler[c] \in {"running", "ran"} => requested[c]
    /\ task[c] = "created" => handler[c] = "absent"
    /\ task[c] \in {"created", "entered", "handling"} => at[c] = 0
    /\ task[c] = "returned" => outcome[c] = result[c] /\ result[c] # NoResult

SwiftInv ==
    /\ SwiftTypeOK
    /\ ProveInv
    /\ \A c \in Calls : AwaitInv(c)

LEMMA SwiftInitInv == SwiftInit => SwiftInv
  <1> SUFFICES ASSUME SwiftInit
               PROVE  SwiftInv
    OBVIOUS
  <1>1. ProveInv
    BY InitInv DEF SwiftInit
  <1>2. SwiftTypeOK
    BY <1>1 DEF SwiftInit, SwiftTypeOK, ProveInv, TaskStates, HandlerStates
  <1>3. \A c \in Calls : AwaitInv(c)
    BY TokenPerCall
    DEF SwiftInit, ProveInit, AwaitInv, Handled, MakeCancelToken
  <1> QED
    BY <1>1, <1>2, <1>3 DEF SwiftInv

\* The Rust calls take a step of ProveCall in every step of the package.
LEMMA SwiftStepsProve ==
    ASSUME SwiftInv, [SwiftNext]_vars
    PROVE  [ProveNext]_proveVars
  <1>1. ASSUME NEW c \in Calls, StartProof(c) \/ ProofStep(c)
        PROVE  ProveNext
    BY <1>1 DEF StartProof, ProofStep, ProveNext
  <1>2. ASSUME NEW c \in Calls, HandlerRequests(c)
        PROVE  ProveNext
    BY <1>2, TokenPerCall, HandlerPerCall
    DEF HandlerRequests, ProveNext, SwiftInv, AwaitInv
  <1>3. ASSUME NEW c \in Calls, HandlerReturns(c)
        PROVE  ProveNext
    BY <1>3, HandlerPerCall DEF HandlerReturns, ProveNext
  <1>4. ASSUME NEW c \in Calls, Enter(c) \/ Detach(c) \/ Resume(c) \/ Cancel(c)
        PROVE  UNCHANGED proveVars
    BY <1>4 DEF Enter, Detach, Resume, Cancel
  <1>5. CASE Terminated \/ UNCHANGED vars
    BY <1>5 DEF Terminated, vars
  <1> QED
    BY <1>1, <1>2, <1>3, <1>4, <1>5 DEF SwiftNext, SwiftStep

LEMMA SwiftNextInv == SwiftInv /\ [SwiftNext]_vars => SwiftInv'
  <1> SUFFICES ASSUME SwiftInv, [SwiftNext]_vars
               PROVE  SwiftInv'
    OBVIOUS
  <1>t. SwiftTypeOK /\ ProveTypeOK /\ ProveInv
    BY DEF SwiftInv, SwiftTypeOK
  <1>p. ProveInv'
    BY <1>t, NextInv, SwiftStepsProve
  <1>a. \A d \in Calls : AwaitInv(d)
    BY DEF SwiftInv
  <1> USE DEF SwiftTypeOK, TaskStates, HandlerStates
  <1>1. ASSUME NEW c \in Calls, Enter(c)
        PROVE  SwiftTypeOK' /\ \A d \in Calls : AwaitInv(d)'
    BY <1>1, <1>t, <1>p, <1>a DEF Enter, AwaitInv, Handled, proveVars, ProveInv
  <1>2. ASSUME NEW c \in Calls, Detach(c)
        PROVE  SwiftTypeOK' /\ \A d \in Calls : AwaitInv(d)'
    BY <1>2, <1>t, <1>p, <1>a DEF Detach, AwaitInv, Handled, proveVars, ProveInv
  <1>3. ASSUME NEW c \in Calls, StartProof(c) \/ ProofStep(c)
        PROVE  SwiftTypeOK' /\ \A d \in Calls : AwaitInv(d)'
    <2>1. /\ UNCHANGED <<statement, token, requested, inner, requesting>>
          /\ UNCHANGED swiftVars
          /\ task[c] = "created" \/ task[c] = "entered" \/ task[c] = "handling"
                => StartProof(c) \/ at[c] > 0
          /\ Call(c) \/ CallStep(c)
      BY <1>3, <1>t, CallMoves
      DEF StartProof, ProofStep, CallStep, Check, Work, Refuse, Panic, Poll,
          Finish, InStage, Running
    <2>2. task[c] \notin {"created", "entered", "handling"}
      BY <1>3, <1>a, <2>1 DEF StartProof, AwaitInv
    <2>3. result[c] = NoResult
      BY <1>3, <1>t
      DEF StartProof, ProofStep, Call, CallStep, Check, Work, Refuse, Panic,
          Poll, Finish, InStage, Running, ProveTypeOK
    <2>4. \A d \in Calls \ {c} : at'[d] = at[d] /\ result'[d] = result[d]
      BY <1>t, <2>1, CallMoves DEF ProveTypeOK
    <2>5. \A d \in Calls : AwaitInv(d)'
      BY <1>a, <2>1, <2>2, <2>3, <2>4 DEF AwaitInv, Handled, swiftVars
    <2> QED
      BY <1>t, <1>p, <2>1, <2>5 DEF swiftVars, ProveInv
  <1>4. ASSUME NEW c \in Calls, Resume(c)
        PROVE  SwiftTypeOK' /\ \A d \in Calls : AwaitInv(d)'
    BY <1>4, <1>t, <1>p, <1>a
    DEF Resume, AwaitInv, Handled, proveVars, ProveInv, ProveTypeOK
  <1>5. ASSUME NEW c \in Calls, Cancel(c)
        PROVE  SwiftTypeOK' /\ \A d \in Calls : AwaitInv(d)'
    BY <1>5, <1>t, <1>p, <1>a DEF Cancel, AwaitInv, Handled, proveVars, ProveInv
  <1>6. ASSUME NEW c \in Calls, HandlerRequests(c)
        PROVE  SwiftTypeOK' /\ \A d \in Calls : AwaitInv(d)'
    BY <1>6, <1>t, <1>p, <1>a, TokenPerCall
    DEF HandlerRequests, SetRequested, callVars, AwaitInv, Handled, ProveInv,
        ProveTypeOK
  <1>7. ASSUME NEW c \in Calls, HandlerReturns(c)
        PROVE  SwiftTypeOK' /\ \A d \in Calls : AwaitInv(d)'
    BY <1>7, <1>t, <1>p, <1>a
    DEF HandlerReturns, SetInner, callVars, AwaitInv, Handled, ProveInv
  <1>8. CASE Terminated \/ UNCHANGED vars
    BY <1>8, <1>t, <1>p, <1>a
    DEF Terminated, vars, swiftVars, proveVars, AwaitInv, Handled, ProveInv,
        SwiftInv
  <1> QED
    BY <1>p, <1>1, <1>2, <1>3, <1>4, <1>5, <1>6, <1>7, <1>8
    DEF SwiftNext, SwiftStep, SwiftInv

LEMMA SwiftSpecInv == SwiftSpec => []SwiftInv
  BY SwiftInitInv, SwiftNextInv, PTL DEF SwiftSpec

\* Every await, its handler and its Rust call stay in states the code can be in.
THEOREM SwiftTypeCorrect == SwiftSpec => []SwiftTypeOK
  BY SwiftSpecInv, PTL DEF SwiftInv
-----------------------------------------------------------------------------
(***************************************************************************)
(* The refinement of CancellableProve.                                     *)
(***************************************************************************)
AwaitOutcome(c) ==
    CASE task[c] = "created" -> "idle"
      [] task[c] = "returned" -> outcome[c]
      [] OTHER -> "pending"
CancelledCalls == {c \in Calls : cancelled[c]}

\* A cancel that the Rust call reports was asked for on the await's own task.
LEMMA CancelIsOfOwnTask ==
    ASSUME SwiftInv, NEW c \in Calls, result[c] = "Cancelled"
    PROVE  cancelled[c]
  BY DEF SwiftInv, ProveInv, CancelledWasRequested, IsRequested, AwaitInv

\* The await keeps its promise to its own caller, whatever the other tasks of
\* the app cancel meanwhile.
THEOREM SwiftImplementsPromise == SwiftSpec => AwaitKeepsPromise
  <1>1. SwiftInit => Await!AbsInit
    BY DEF SwiftInit, Await!AbsInit
  <1>2. SwiftInv /\ [SwiftNext]_vars => [Await!AbsNext]_Await!absVars
    <2> SUFFICES ASSUME SwiftInv, [SwiftNext]_vars
                 PROVE  Await!AbsNext \/ UNCHANGED Await!absVars
      OBVIOUS
    <2>t. SwiftTypeOK /\ ProveTypeOK
      BY DEF SwiftInv, SwiftTypeOK
    <2>1. ASSUME NEW c \in Calls, Enter(c)
          PROVE  Await!AbsNext
      <3>1. /\ AwaitOutcome(c) = "idle"
            /\ \A d \in Calls :
                    AwaitOutcome(d)' = IF d = c THEN "pending" ELSE AwaitOutcome(d)
            /\ UNCHANGED CancelledCalls
        BY <2>1, <2>t
        DEF Enter, AwaitOutcome, CancelledCalls, SwiftTypeOK, TaskStates
      <3>2. Await!Begin(c)
        BY <3>1 DEF Await!Begin, AwaitOutcome, CancelledCalls
      <3> QED
        BY <3>2 DEF Await!AbsNext
    <2>2. ASSUME NEW c \in Calls, Resume(c)
          PROVE  Await!AbsNext
      <3>1. PICK o \in Await!Outcomes : o = result[c]
        BY <2>2, <2>t
        DEF Resume, ProveTypeOK, Results, Errors, Await!Outcomes, Await!Failures
      <3>2. /\ AwaitOutcome(c) = "pending"
            /\ \A d \in Calls :
                    AwaitOutcome(d)' = IF d = c THEN o ELSE AwaitOutcome(d)
            /\ UNCHANGED CancelledCalls
        BY <2>2, <2>t, <3>1
        DEF Resume, AwaitOutcome, CancelledCalls, SwiftTypeOK, TaskStates
      <3>3. o = "Cancelled" => c \in CancelledCalls
        BY <3>1, CancelIsOfOwnTask DEF CancelledCalls
      <3>4. Await!End(c, o)
        BY <3>2, <3>3 DEF Await!End, AwaitOutcome, CancelledCalls
      <3> QED
        BY <3>4 DEF Await!AbsNext
    <2>3. ASSUME NEW c \in Calls, Cancel(c)
          PROVE  Await!AbsNext
      <3>1. CancelledCalls' = CancelledCalls \cup {c}
        BY <2>3, <2>t DEF Cancel, CancelledCalls, SwiftTypeOK
      <3>2. Await!Ask({c})
        BY <2>3, <3>1 DEF Cancel, Await!Ask, CancelledCalls
      <3> QED
        BY <3>2 DEF Await!AbsNext
    <2>4. ASSUME NEW c \in Calls, Detach(c)
          PROVE  UNCHANGED Await!absVars
      <3>1. \A d \in Calls : AwaitOutcome(d)' = AwaitOutcome(d)
        BY <2>4, <2>t DEF Detach, AwaitOutcome, SwiftTypeOK, TaskStates
      <3> QED
        BY <2>4, <3>1 DEF Detach, AwaitOutcome, Await!absVars
    <2>5. ASSUME NEW c \in Calls,
                 \/ StartProof(c) \/ ProofStep(c)
                 \/ HandlerRequests(c) \/ HandlerReturns(c)
          PROVE  UNCHANGED Await!absVars
      BY <2>5
      DEF StartProof, ProofStep, HandlerRequests, HandlerReturns, swiftVars,
          Await!absVars
    <2>6. CASE Terminated \/ UNCHANGED vars
      BY <2>6 DEF Terminated, vars, swiftVars, Await!absVars
    <2> QED
      BY <2>1, <2>2, <2>3, <2>4, <2>5, <2>6 DEF SwiftNext, SwiftStep
  <1> QED
    BY <1>1, <1>2, SwiftSpecInv, PTL
    DEF SwiftSpec, AwaitKeepsPromise, Await!AbsSpec
-----------------------------------------------------------------------------
(***************************************************************************)
(* A cancel before the call.                                               *)
(***************************************************************************)

\* The await of a task that was cancelled first: its handler runs before the
\* operation, and its Rust call stays at its first check.
Refused(c) ==
    /\ statement[c] # "template"
    /\ at[c] <= 1
    /\ \/ task[c] = "created" /\ cancelled[c]
       \/ task[c] = "handling"
       \/ task[c] \in {"awaiting", "returned"} /\ requested[c]

LEMMA RefusedStays ==
    ASSUME NEW c \in Calls
    PROVE  SwiftInv /\ Refused(c) /\ [SwiftNext]_vars => Refused(c)'
  <1> SUFFICES ASSUME SwiftInv, Refused(c), [SwiftNext]_vars
               PROVE  Refused(c)'
    OBVIOUS
  <1>t. SwiftTypeOK /\ ProveTypeOK /\ ProveInv
    BY DEF SwiftInv, SwiftTypeOK
  <1>a. \A d \in Calls : AwaitInv(d)
    BY DEF SwiftInv
  <1>r. UNCHANGED statement /\ (requested[c] => requested'[c])
    BY <1>t, <1>a, SwiftStepsProve, RequestsStay, NoTokenIsNone, TokenPerCall
    DEF IsRequested, AwaitInv
  <1>1. ASSUME NEW d \in Calls, Enter(d) \/ Detach(d) \/ Resume(d) \/ Cancel(d)
        PROVE  Refused(c)'
    BY <1>1, <1>t, <1>a
    DEF Enter, Detach, Resume, Cancel, Refused, AwaitInv, SwiftTypeOK, proveVars
  <1>2. ASSUME NEW d \in Calls, HandlerRequests(d) \/ HandlerReturns(d)
        PROVE  Refused(c)'
    BY <1>2, <1>r
    DEF HandlerRequests, HandlerReturns, SetRequested, SetInner, callVars, Refused
  <1>3. ASSUME NEW d \in Calls, StartProof(d) \/ ProofStep(d)
        PROVE  Refused(c)'
    <2>1. UNCHANGED <<task, cancelled>>
      BY <1>3 DEF StartProof, ProofStep, swiftVars
    <2>2. at'[c] <= 1
      <3>1. CASE at[c] = 0
        BY <1>3, <1>t, <3>1
        DEF StartProof, ProofStep, CallStep, Call, Check, Work, Refuse, Panic,
            Poll, Finish, InStage, Running, Advance, Return, ProveTypeOK
      <3>2. CASE at[c] = 1 /\ result[c] = NoResult
        <4>1. InStage(c, {"check"})
          BY <1>t, <3>2, FirstStageIsCheck, StatementsKnown
          DEF Refused, InStage, Running, Stage, ProveTypeOK
        <4>2. IsRequested(c)
          BY <1>t, <1>a, <3>2, NoTokenIsNone, TokenPerCall
          DEF Refused, AwaitInv, IsRequested
        <4> QED
          BY <1>t, <3>2, <4>1, <4>2, SwiftStepsProve, RequestedCheckStops
      <3>3. CASE at[c] = 1 /\ result[c] # NoResult
        BY <1>3, <1>t, <3>3
        DEF StartProof, ProofStep, CallStep, Call, Check, Work, Refuse, Panic,
            Poll, Finish, InStage, Running, Advance, Return, ProveTypeOK
      <3> QED
        BY <1>t, <3>1, <3>2, <3>3 DEF Refused, ProveTypeOK
    <2> QED
      BY <1>r, <2>1, <2>2 DEF Refused
  <1>4. CASE Terminated \/ UNCHANGED vars
    BY <1>4 DEF Terminated, vars, swiftVars, proveVars, Refused
  <1> QED
    BY <1>1, <1>2, <1>3, <1>4 DEF SwiftNext, SwiftStep

\* A task that was cancelled before it called prove never gets its Rust call
\* past the first check.
THEOREM CancelBeforeCallRefuses == SwiftSpec => CancelledBeforeCallIsRefused
  <1> SUFFICES ASSUME NEW c \in Calls
               PROVE  SwiftSpec => [](CancelledBeforeCall(c) => [](at[c] <= 1))
    BY DEF CancelledBeforeCallIsRefused
  <1>1. SwiftInv /\ CancelledBeforeCall(c) => Refused(c)
    BY DEF SwiftInv, AwaitInv, Refused, CancelledBeforeCall
  <1>2. Refused(c) => at[c] <= 1
    BY DEF Refused
  <1>3. SwiftInv /\ Refused(c) /\ [SwiftNext]_vars => Refused(c)'
    BY RefusedStays
  <1> QED
    BY <1>1, <1>2, <1>3, SwiftSpecInv, PTL DEF SwiftSpec
=============================================================================
