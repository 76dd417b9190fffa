-------------------------- MODULE ProveCallProofs ---------------------------
(***************************************************************************)
(* Proofs about ProveCall for any calls, tokens, host threads and choice   *)
(* of statements.                                                          *)
(*                                                                         *)
(* The argument for the cancel rests on the order of the two stores in     *)
(* CancelToken::request: the flag that the checks read is written first,   *)
(* so the flag that the prover polls implies it (InnerIsRequested).        *)
(***************************************************************************)
EXTENDS ProveCall, TLAPS

\* What the stage tables have in common: their stages are known, they end with
\* the prover, and no earlier stage is the prover.
LEMMA TablesEndWithProver ==
    ASSUME NEW s \in DOMAIN Stages
    PROVE  /\ Stages[s] \in Seq(DOMAIN Refusals)
           /\ Len(Stages[s]) \in Nat \ {0}
           /\ Stages[s][Len(Stages[s])] = "prover"
  <1>1. RunProver \in Seq(DOMAIN Refusals) /\ Len(RunProver) = 4
    BY DEF RunProver, Refusals
  <1>2. CASE s = "rsa"
    BY <1>1, <1>2 DEF Stages, RsaStages, Refusals, RunProver
  <1>3. CASE s = "mldsa"
    BY <1>1, <1>3 DEF Stages, MlDsaStages, Refusals, RunProver
  <1>4. CASE s = "keccak"
    BY <1>1, <1>4 DEF Stages, KeccakStages, Refusals, RunProver
  <1>5. CASE s = "sha256"
    BY <1>1, <1>5 DEF Stages, Sha256Stages, Refusals, RunProver
  <1>6. CASE s = "template"
    BY <1>6 DEF Stages, TemplateStages, Refusals
  <1> QED
    BY <1>2, <1>3, <1>4, <1>5, <1>6 DEF Stages

\* No stage of the table returns Cancelled, Proof or Panic by itself.
LEMMA RefusalsAreErrors ==
    ASSUME NEW g \in DOMAIN Refusals, NEW e \in Refusals[g]
    PROVE  e \in {"InvalidInput", "Witness", "Prover"}
  BY DEF Refusals

\* A check refuses through Check alone.
LEMMA ChecksDoNotRefuse == Refusals["check"] = {}
  BY DEF Refusals
-----------------------------------------------------------------------------
(***************************************************************************)
(* The inductive invariant.                                                *)
(***************************************************************************)
InnerIsRequested ==
    /\ \A t \in Tokens : inner[t] => requested[t]
    /\ \A h \in Hosts : requesting[h] # NoToken => requested[requesting[h]]

ProveInv == ProveTypeOK /\ InnerIsRequested /\ CancelledWasRequested

LEMMA InitInv == ProveInit => ProveInv
  BY NoTokenIsNone
  DEF ProveInit, ProveInv, ProveTypeOK, InnerIsRequested, CancelledWasRequested,
      Results, Errors, NoResult

\* What the steps of a call have in common.  The call returns a result, and
\* Cancelled only when its token was requested, or moves to its next stage.
LEMMA CallMoves ==
    ASSUME ProveInv, NEW c \in Calls, Call(c) \/ CallStep(c)
    PROVE  /\ UNCHANGED <<statement, token, requested, inner, requesting>>
           /\ \/ /\ \E r \in Results :
                       /\ r = "Cancelled" => IsRequested(c)
                       /\ result' = [result EXCEPT ![c] = r]
                 /\ at[c] > 0
                 /\ UNCHANGED at
              \/ /\ at' = [at EXCEPT ![c] = @ + 1]
                 /\ at[c] = 0 \/ InStage(c, DOMAIN Refusals \ {"prover"})
                 /\ result[c] = NoResult
                 /\ UNCHANGED result
  <1> USE DEF Advance, Return, tokenVars
  <1>t. ProveTypeOK
    BY DEF ProveInv
  <1>g. ASSUME Running(c)
        PROVE  Stage(c) \in DOMAIN Refusals
    BY <1>t, <1>g, TablesEndWithProver, StatementsKnown
    DEF ProveTypeOK, Running, Stage
  <1>1. CASE Call(c)
    BY <1>1, <1>t DEF Call, ProveTypeOK
  <1>2. CASE Check(c)
    BY <1>2, <1>g DEF Check, InStage, Running, Results, Errors
  <1>3. CASE Work(c)
    BY <1>3, <1>g DEF Work, InStage, Running
  <1>4. CASE Refuse(c)
    BY <1>4, <1>g, RefusalsAreErrors DEF Refuse, Running, Results, Errors
  <1>5. CASE Panic(c)
    BY <1>5 DEF Panic, Running, Results, Errors
  <1>6. CASE Poll(c)
    BY <1>6, <1>t
    DEF Poll, InStage, Running, Results, Errors, IsInnerRequested, IsRequested,
        ProveInv, InnerIsRequested, ProveTypeOK
  <1>7. CASE Finish(c)
    BY <1>7 DEF Finish, InStage, Running, Results, Errors
  <1> QED
    BY <1>1, <1>2, <1>3, <1>4, <1>5, <1>6, <1>7 DEF CallStep

LEMMA NextInv == ProveInv /\ [ProveNext]_proveVars => ProveInv'
  <1> SUFFICES ASSUME ProveInv, [ProveNext]_proveVars
               PROVE  ProveInv'
    OBVIOUS
  <1>t. ProveTypeOK
    BY DEF ProveInv
  <1>1. ASSUME NEW c \in Calls, Call(c) \/ CallStep(c)
        PROVE  ProveInv'
    <2>m. /\ UNCHANGED <<statement, token, requested, inner, requesting>>
          /\ \/ /\ \E r \in Results :
                      /\ r = "Cancelled" => IsRequested(c)
                      /\ result' = [result EXCEPT ![c] = r]
                /\ at[c] > 0
                /\ UNCHANGED at
             \/ /\ at' = [at EXCEPT ![c] = @ + 1]
                /\ at[c] = 0 \/ InStage(c, DOMAIN Refusals \ {"prover"})
                /\ result[c] = NoResult
                /\ UNCHANGED result
      BY <1>1, CallMoves
    <2>1. at'[c] > 0 => at'[c] \in DOMAIN Stages[statement[c]]
      <3> DEFINE table == Stages[statement[c]]
      <3>1. /\ table \in Seq(DOMAIN Refusals)
            /\ Len(table) \in Nat \ {0}
            /\ table[Len(table)] = "prover"
        BY <1>t, TablesEndWithProver, StatementsKnown DEF ProveTypeOK
      <3> HIDE DEF table
      <3>2. at[c] \in Nat /\ (at[c] > 0 => at[c] \in 1 .. Len(table))
        BY <1>t, <3>1 DEF ProveTypeOK, table
      <3>3. at[c] = 0 \/ InStage(c, DOMAIN Refusals \ {"prover"})
                => at[c] < Len(table)
        BY <3>1, <3>2 DEF InStage, Running, Stage, table
      <3>4. at'[c] = at[c] \/ (at'[c] = at[c] + 1 /\ at[c] < Len(table))
        BY <1>t, <2>m, <3>3 DEF ProveTypeOK
      <3> QED
        BY <3>1, <3>2, <3>4 DEF table
    <2>2. ProveTypeOK'
      BY <1>t, <2>m, <2>1 DEF ProveTypeOK
    <2>3. InnerIsRequested'
      BY <2>m DEF ProveInv, InnerIsRequested
    <2>4. CancelledWasRequested'
      BY <1>t, <2>m
      DEF ProveInv, CancelledWasRequested, IsRequested, ProveTypeOK
    <2> QED
      BY <2>2, <2>3, <2>4 DEF ProveInv
  <1>2. ASSUME NEW h \in Hosts, NEW t \in Tokens, SetRequested(h, t)
        PROVE  ProveInv'
    BY <1>2, <1>t, NoTokenIsNone
    DEF SetRequested, callVars, ProveInv, ProveTypeOK, InnerIsRequested,
        CancelledWasRequested, IsRequested
  <1>3. ASSUME NEW h \in Hosts, SetInner(h)
        PROVE  ProveInv'
    BY <1>3, <1>t, NoTokenIsNone
    DEF SetInner, callVars, ProveInv, ProveTypeOK, InnerIsRequested,
        CancelledWasRequested, IsRequested
  <1>4. CASE UNCHANGED proveVars
    BY <1>4, <1>t
    DEF proveVars, ProveInv, ProveTypeOK, InnerIsRequested,
        CancelledWasRequested, IsRequested
  <1> QED
    BY <1>1, <1>2, <1>3, <1>4 DEF ProveNext

LEMMA SpecInv == ProveSpec => []ProveInv
  BY InitInv, NextInv, PTL DEF ProveSpec

\* Every call, token and request() stays in a state the code can be in.
THEOREM ProveTypeCorrect == ProveSpec => []ProveTypeOK
  BY SpecInv, PTL DEF ProveInv

\* ProveError::Cancelled is returned only after request() was entered on the
\* token the call was given.
THEOREM CancelIsNeverSpurious == ProveSpec => []CancelledWasRequested
  BY SpecInv, PTL DEF ProveInv
-----------------------------------------------------------------------------
\* A step of the system is a step of at most one call, and leaves the others
\* alone; no step takes a request back.
LEMMA RequestsStay ==
    ASSUME ProveInv, [ProveNext]_proveVars, NEW c \in Calls
    PROVE  /\ UNCHANGED <<statement, token>>
           /\ IsRequested(c) => IsRequested(c)'
           /\ \/ Call(c) \/ CallStep(c)
              \/ at'[c] = at[c] /\ result'[c] = result[c]
  <1>t. ProveTypeOK
    BY DEF ProveInv
  <1>1. ASSUME NEW d \in Calls, Call(d) \/ CallStep(d)
        PROVE  /\ UNCHANGED <<statement, token, requested>>
               /\ d = c \/ (at'[c] = at[c] /\ result'[c] = result[c])
    BY <1>1, <1>t, CallMoves DEF ProveTypeOK
  <1>2. ASSUME NEW h \in Hosts, NEW t \in Tokens, SetRequested(h, t)
        PROVE  /\ UNCHANGED <<statement, token, at, result>>
               /\ IsRequested(c) => IsRequested(c)'
    BY <1>2, <1>t DEF SetRequested, callVars, IsRequested, ProveTypeOK
  <1>3. ASSUME NEW h \in Hosts, SetInner(h)
        PROVE  UNCHANGED <<statement, token, at, result, requested>>
    BY <1>3 DEF SetInner, callVars
  <1>4. CASE UNCHANGED proveVars
    BY <1>4 DEF proveVars, IsRequested
  <1> QED
    BY <1>1, <1>2, <1>3, <1>4 DEF ProveNext, IsRequested

\* A step from a check of a requested token ends the call.
LEMMA RequestedCheckStops ==
    ASSUME ProveInv, [ProveNext]_proveVars, NEW c \in Calls,
           InStage(c, {"check"}), IsRequested(c)
    PROVE  at'[c] = at[c] /\ result'[c] \in {NoResult, "Cancelled"}
  <1>1. CASE Call(c) \/ CallStep(c)
    <2>1. Check(c)
      BY <1>1, ChecksDoNotRefuse
      DEF Call, CallStep, Work, Refuse, Panic, Poll, Finish, InStage, Running
    <2> QED
      BY <2>1 DEF Check, Return, ProveInv, ProveTypeOK
  <1>2. CASE at'[c] = at[c] /\ result'[c] = result[c]
    BY <1>2 DEF InStage, Running
  <1> QED
    BY <1>1, <1>2, RequestsStay

\* Every prove function of examples/prover begins with a look at the token.
LEMMA FirstStageIsCheck ==
    ASSUME NEW s \in DOMAIN Stages, s # "template"
    PROVE  Stages[s][1] = "check"
  BY DEF Stages, RsaStages, MlDsaStages, KeccakStages, Sha256Stages

\* Once a token has stopped one call, no call that shares it passes a check.
THEOREM StoppedTokenStopsEveryCall == ProveSpec => StoppedTokenStopsOthers
  <1>1. ASSUME ProveInv, [ProveNext]_proveVars, NEW c \in Calls, NEW d \in Calls,
               result[d] = "Cancelled", token[c] = token[d],
               InStage(c, {"check"})
        PROVE  at'[c] = at[c]
    <2>1. IsRequested(c)
      BY <1>1 DEF ProveInv, CancelledWasRequested, IsRequested
    <2> QED
      BY <1>1, <2>1, RequestedCheckStops
  <1>2. ProveInv /\ [ProveNext]_proveVars =>
            [ \A c, d \in Calls :
                /\ result[d] = "Cancelled"
                /\ token[c] = token[d]
                /\ InStage(c, {"check"})
                => at'[c] = at[c] ]_proveVars
    BY <1>1
  <1> QED
    BY <1>2, SpecInv, PTL DEF ProveSpec, StoppedTokenStopsOthers
-----------------------------------------------------------------------------
\* No step leads to the work of run_prover but past its check.
LEMMA OnlyChecksLeadToProver ==
    ASSUME NEW s \in DOMAIN Stages, s # "template", NEW i \in DOMAIN Stages[s],
           i + 1 \in DOMAIN Stages[s],
           Stages[s][i] \notin {"check", "id", "seed", "prover"}
    PROVE  Stages[s][i + 1] \notin {"id", "seed", "prover"}
  <1>2. CASE s = "rsa"
    BY <1>2 DEF Stages, RsaStages, RunProver
  <1>3. CASE s = "mldsa"
    BY <1>3 DEF Stages, MlDsaStages, RunProver
  <1>4. CASE s = "keccak"
    BY <1>4 DEF Stages, KeccakStages, RunProver
  <1>5. CASE s = "sha256"
    BY <1>5 DEF Stages, Sha256Stages, RunProver
  <1> QED
    BY <1>2, <1>3, <1>4, <1>5 DEF Stages

\* A call that is requested before run_prover goes to work, or has failed.
Stopping(c) ==
    /\ IsRequested(c)
    /\ BeforeProver(c) \/ result[c] \in Errors

LEMMA StoppingStays ==
    ASSUME NEW c \in Calls
    PROVE  ProveInv /\ Stopping(c) /\ [ProveNext]_proveVars => Stopping(c)'
  <1> SUFFICES ASSUME ProveInv, Stopping(c), [ProveNext]_proveVars
               PROVE  Stopping(c)'
    OBVIOUS
  <1>t. ProveTypeOK /\ ProveTypeOK'
    BY NextInv DEF ProveInv
  <1>r. /\ UNCHANGED <<statement, token>>
        /\ IsRequested(c)'
    BY RequestsStay DEF Stopping
  <1>1. CASE at'[c] = at[c] /\ result'[c] = result[c]
    BY <1>1, <1>r DEF Stopping, BeforeProver, InStage, Running, Stage
  <1>2. CASE (Call(c) \/ CallStep(c)) /\ result[c] \in Errors
    BY <1>2
    DEF Errors, NoResult, Call, CallStep, Check, Work, Refuse, Panic, Poll,
        Finish, InStage, Running, ProveTypeOK, ProveInv
  <1>3. CASE (Call(c) \/ CallStep(c)) /\ BeforeProver(c)
    <2>1. CASE InStage(c, {"check"})
      BY <1>r, <1>t, <2>1, RequestedCheckStops
      DEF Stopping, BeforeProver, InStage, Running, Stage, Errors
    <2>2. CASE ~InStage(c, {"check"})
      <3>1. Work(c) \/ Refuse(c) \/ Panic(c)
        BY <1>3, <2>2
        DEF Call, CallStep, Check, Poll, Finish, InStage, Running, BeforeProver
      <3>2. CASE Work(c)
        <4>1. at'[c] = at[c] + 1 /\ Running(c)'
          BY <1>t, <3>2 DEF Work, Advance, Running, ProveTypeOK
        <4>2. statement[c] \in DOMAIN Stages
          BY <1>t, StatementsKnown DEF ProveTypeOK
        <4>3. /\ at[c] \in DOMAIN Stages[statement[c]]
              /\ at[c] + 1 \in DOMAIN Stages[statement[c]]
          BY <1>3, <1>r, <1>t, <4>1 DEF ProveTypeOK, Running, BeforeProver
        <4>4. Stages[statement[c]][at[c]] \notin {"check", "id", "seed", "prover"}
          BY <1>3, <2>2 DEF BeforeProver, InStage, Running, Stage
        <4>5. Stages[statement[c]][at[c] + 1] \notin {"id", "seed", "prover"}
          BY <1>3, <4>2, <4>3, <4>4, OnlyChecksLeadToProver DEF BeforeProver
        <4>6. statement'[c] # "template" /\ result'[c] = NoResult
          BY <1>3, <1>r, <4>1 DEF BeforeProver, Running
        <4>7. ~InStage(c, {"id", "seed", "prover"})'
          BY <1>r, <4>1, <4>5 DEF InStage, Stage
        <4> QED
          BY <1>r, <4>1, <4>6, <4>7 DEF Stopping, BeforeProver
      <3>3. CASE Refuse(c)
        <4>1. Stage(c) \in DOMAIN Refusals
          BY <1>3, <1>t, TablesEndWithProver, StatementsKnown
          DEF ProveTypeOK, BeforeProver, Running, Stage
        <4> QED
          BY <1>r, <1>t, <3>3, <4>1, RefusalsAreErrors
          DEF Refuse, Return, Stopping, Errors, ProveTypeOK
      <3>4. CASE Panic(c)
        BY <1>r, <1>t, <3>4 DEF Panic, Return, Stopping, Errors, ProveTypeOK
      <3> QED
        BY <3>1, <3>2, <3>3, <3>4
    <2> QED
      BY <2>1, <2>2
  <1> QED
    BY <1>1, <1>2, <1>3, RequestsStay DEF Stopping

\* A request that finds the call at its entry or in its witness build keeps it
\* from ever returning a proof.
THEOREM RequestInTimePreventsProof == ProveSpec => NoProofWhenRequestedInTime
  <1> SUFFICES ASSUME NEW c \in Calls
               PROVE  ProveSpec =>
                        [](BeforeProver(c) /\ IsRequested(c)
                            => [](result[c] # "Proof"))
    BY DEF NoProofWhenRequestedInTime
  <1>1. BeforeProver(c) /\ IsRequested(c) => Stopping(c)
    BY DEF Stopping
  <1>2. Stopping(c) => result[c] # "Proof"
    BY DEF Stopping, BeforeProver, Running, NoResult, Errors
  <1>3. ProveInv /\ Stopping(c) /\ [ProveNext]_proveVars => Stopping(c)'
    BY StoppingStays
  <1> QED
    BY <1>1, <1>2, <1>3, SpecInv, PTL DEF ProveSpec
-----------------------------------------------------------------------------
(***************************************************************************)
(* The refinement of CancellableProve.                                     *)
(***************************************************************************)
Pending(c) == IF at[c] = 0 THEN "idle"
              ELSE IF result[c] = NoResult THEN "pending" ELSE result[c]
AskedCalls == {c \in Calls : IsRequested(c)}

LEMMA CallRefines ==
    ASSUME ProveInv, NEW c \in Calls, Call(c) \/ CallStep(c)
    PROVE  Promise!AbsNext \/ UNCHANGED Promise!absVars
  <1>t. ProveTypeOK
    BY DEF ProveInv
  <1>m. UNCHANGED <<statement, token, requested>>
    BY CallMoves
  <1>u. UNCHANGED AskedCalls
    BY <1>m DEF AskedCalls, IsRequested
  <1>1. CASE Call(c)
    <2>1. /\ Pending(c) = "idle"
          /\ \A d \in Calls : Pending(d)' = IF d = c THEN "pending" ELSE Pending(d)
      BY <1>1, <1>t DEF Call, Advance, Pending, ProveTypeOK
    <2>2. Promise!Begin(c)
      BY <1>u, <2>1 DEF Promise!Begin, AskedCalls, Pending
    <2> QED
      BY <2>2 DEF Promise!AbsNext
  <1>2. CASE /\ at[c] > 0
             /\ UNCHANGED at
             /\ \E r \in Results :
                   /\ r = "Cancelled" => IsRequested(c)
                   /\ result' = [result EXCEPT ![c] = r]
             /\ result[c] = NoResult
    <2>1. PICK r \in Results :
                   /\ r = "Cancelled" => IsRequested(c)
                   /\ result' = [result EXCEPT ![c] = r]
      BY <1>2
    <2>2. /\ Pending(c) = "pending"
          /\ \A d \in Calls : Pending(d)' = IF d = c THEN r ELSE Pending(d)
      BY <1>2, <1>t, <2>1
      DEF Pending, ProveTypeOK, NoResult, Results, Errors
    <2>3. Promise!End(c, r)
      BY <1>u, <2>1, <2>2 DEF Promise!End, AskedCalls, Pending
    <2>4. r \in Promise!Outcomes
      BY DEF Promise!Outcomes, Promise!Failures, Results, Errors
    <2> QED
      BY <2>3, <2>4 DEF Promise!AbsNext
  <1>3. CASE /\ at' = [at EXCEPT ![c] = @ + 1]
             /\ at[c] > 0
             /\ UNCHANGED result
    <2>1. \A d \in Calls : Pending(d)' = Pending(d)
      BY <1>3, <1>t DEF Pending, ProveTypeOK
    <2> QED
      BY <1>u, <2>1 DEF Promise!absVars, Pending, AskedCalls
  <1>4. CallStep(c) => Running(c)
    BY DEF CallStep, Check, Work, Refuse, Panic, Poll, Finish, InStage
  <1> QED
    BY <1>1, <1>2, <1>3, <1>4, CallMoves DEF Running

\* The Rust call keeps the promise its host relies on.
THEOREM ProveCallImplementsPromise == ProveSpec => ImplementsPromise
  <1>1. ProveInit => Promise!AbsInit
    BY NoTokenIsNone DEF ProveInit, Promise!AbsInit, IsRequested
  <1>2. ProveInv /\ [ProveNext]_proveVars => [Promise!AbsNext]_Promise!absVars
    <2> SUFFICES ASSUME ProveInv, [ProveNext]_proveVars
                 PROVE  Promise!AbsNext \/ UNCHANGED Promise!absVars
      OBVIOUS
    <2>t. ProveTypeOK
      BY DEF ProveInv
    <2>1. ASSUME NEW h \in Hosts, NEW t \in Tokens, SetRequested(h, t)
          PROVE  Promise!AbsNext
      <3> DEFINE S == {c \in Calls : token[c] = t}
      <3>1. AskedCalls' = AskedCalls \cup S
        BY <2>1, <2>t, NoTokenIsNone
        DEF SetRequested, callVars, AskedCalls, IsRequested, ProveTypeOK
      <3>2. Promise!Ask(S)
        BY <2>1, <3>1 DEF SetRequested, callVars, Promise!Ask, AskedCalls
      <3> QED
        BY <3>2 DEF Promise!AbsNext
    <2>2. ASSUME NEW h \in Hosts, SetInner(h)
          PROVE  UNCHANGED Promise!absVars
      BY <2>2 DEF SetInner, callVars, Promise!absVars, IsRequested
    <2>3. CASE UNCHANGED proveVars
      BY <2>3 DEF proveVars, Promise!absVars, IsRequested
    <2> QED
      BY <2>1, <2>2, <2>3, CallRefines DEF ProveNext
  <1> QED
    BY <1>1, <1>2, SpecInv, PTL DEF ProveSpec, ImplementsPromise, Promise!AbsSpec
=============================================================================
