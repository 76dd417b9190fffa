----------------------------- MODULE IosProofs ------------------------------
(***************************************************************************)
(* Proofs about the iOS side: the release that ios-build hands over, and   *)
(* the example app.  They share no state; a theorem is about one of them.  *)
(*                                                                         *)
(* IosBuild, for any configurations, any bound on the revisions and any    *)
(* number of runs, each of which may fail anywhere.  A release is whole    *)
(* because a run writes each of its parts before the step that reads it.   *)
(* The invariant therefore follows the two loops over the slices: it says  *)
(* what the present run has written for a slice once the loop has passed   *)
(* it, and nothing of a slice still to come, where whatever earlier runs   *)
(* left may be.                                                            *)
(*                                                                         *)
(* IosApp, for any number of runs of the benchmark, any sizes and any      *)
(* keys.  The task outlives no outcome: the phase says that a run is under *)
(* way exactly while there is a task (TaskIsShown), so the selection       *)
(* cannot change under it, and no step of it is left when the outcome is   *)
(* on the screen.  The key the task works with is in the Keychain from the *)
(* first proof on, and was not made unless the account was empty (KeyInv). *)
(***************************************************************************)
EXTENDS IosBuild, IosApp, FiniteSetTheorems, CargoTargetProofs

-----------------------------------------------------------------------------
(***************************************************************************)
(* IosBuild.                                                               *)
(***************************************************************************)
\* The place of a target in SLICES, and the steps after each of the loops.
Turn(t) == IF t = "ios" THEN 1 ELSE 2

BuildLoop == {"compile", "wrapProver", "wrapDev", "relink"}
Assembly == {"clean", "assembleProver", "assembleDev", "sign", "signProver", "signDev"}
AfterBuild == {"bindings", "wire"} \cup Assembly

\* What the present run has done for a slice.
Built(t) == at \in AfterBuild \/ (at \in BuildLoop /\ Turn(t) < slice)
Compiled(t) == Built(t) \/ (at \in BuildLoop \ {"compile"} /\ Turn(t) = slice)
ProverWrapped(t) == Built(t) \/ (at \in {"wrapDev", "relink"} /\ Turn(t) = slice)
DevWrapped(t) == at = "relink" /\ Turn(t) = slice
Wired(t) == at \in Assembly \/ (at = "wire" /\ Turn(t) < slice)

\* The frameworks and xcframeworks as the present run writes them.
PresentLib == [revision |-> revision, config |-> manifest]
Dev(l, relinked, b) == [lib |-> l, relinked |-> relinked, bindings |-> b]
Unsigned(fw) == [slices |-> fw, signed |-> FALSE]
Signed(fw) == [slices |-> fw, signed |-> TRUE]

IsPresentProver(f) ==
    /\ f \in ProverFw
    /\ f.version = manifest
    /\ ~Returns => f.prover = manifest

SliceInv(t) ==
    /\ Compiled(t) => lib[t] = PresentLib /\ IsFetched(t, manifest)
    /\ ProverWrapped(t) => IsPresentProver(proverFw[t])
    /\ DevWrapped(t) => devFw[t] = Dev(PresentLib, FALSE, NoFile)
    /\ Built(t) /\ ~Wired(t) => devFw[t] = Dev(PresentLib, TRUE, NoFile)
    /\ Wired(t) => devFw[t] = Dev(PresentLib, TRUE, revision)

RunInv ==
    /\ at # "idle" => exit = "none" /\ version = manifest
    /\ at = "bindings" => slice = 1
    /\ at \in Assembly \cup {"wire"} => swift = revision
    /\ at \in {"assembleProver", "assembleDev"} => devXcf = NoFile
    /\ at = "assembleProver" => proverXcf = NoFile
    /\ at \in {"assembleDev", "sign", "signProver"} => proverXcf = Unsigned(proverFw)
    /\ at = "signDev" => proverXcf = Signed(proverFw)
    /\ at \in {"sign", "signProver", "signDev"} => devXcf = Unsigned(devFw)
    /\ at \in {"signProver", "signDev"} => signing = "team"

\* What outlives a run.
ReleaseInv ==
    /\ SuccessIsWhole
    /\ ~Returns => PackagedProverIsLinked
    /\ NoSkewedXcframework
    /\ SignedTogether

IosInv ==
    /\ IosTypeOK
    /\ CargoInv
    /\ \A t \in Targets : SliceInv(t)
    /\ RunInv
    /\ ReleaseInv

\* An EXCEPT of a record's field gives the record with that field, for the
\* fields the run sets.
LEMMA RelinkedDev ==
    ASSUME NEW l, NEW b, NEW f, f = Dev(l, FALSE, b)
    PROVE  [f EXCEPT !.relinked = TRUE] = Dev(l, TRUE, b)
  <1>1. [f EXCEPT !.relinked = TRUE] \in [lib : {l}, relinked : {TRUE}, bindings : {b}]
    BY DEF Dev
  <1>2. ASSUME NEW g \in [lib : {l}, relinked : {TRUE}, bindings : {b}]
        PROVE  g = [lib |-> l, relinked |-> TRUE, bindings |-> b]
    OBVIOUS
  <1> QED
    BY <1>1, <1>2 DEF Dev

LEMMA WiredDev ==
    ASSUME NEW l, NEW c, NEW f, f = Dev(l, TRUE, NoFile)
    PROVE  [f EXCEPT !.bindings = c] = Dev(l, TRUE, c)
  <1>1. [f EXCEPT !.bindings = c] \in [lib : {l}, relinked : {TRUE}, bindings : {c}]
    BY DEF Dev
  <1>2. ASSUME NEW g \in [lib : {l}, relinked : {TRUE}, bindings : {c}]
        PROVE  g = [lib |-> l, relinked |-> TRUE, bindings |-> c]
    OBVIOUS
  <1> QED
    BY <1>1, <1>2 DEF Dev

LEMMA SignedXcf ==
    ASSUME NEW fw, NEW x, x = Unsigned(fw)
    PROVE  [x EXCEPT !.signed = TRUE] = Signed(fw)
  <1>1. [x EXCEPT !.signed = TRUE] \in [slices : {fw}, signed : {TRUE}]
    BY DEF Unsigned
  <1>2. ASSUME NEW g \in [slices : {fw}, signed : {TRUE}]
        PROVE  g = [slices |-> fw, signed |-> TRUE]
    OBVIOUS
  <1> QED
    BY <1>1, <1>2 DEF Signed

\* The loops go over the targets in turn.
LEMMA SlicesAreTargets ==
    ASSUME IosTypeOK
    PROVE  /\ slice \in {1, 2} /\ Len(SLICES) = 2 /\ DOMAIN SLICES = {1, 2}
           /\ Slice \in Targets /\ Turn(Slice) = slice
           /\ SLICES[1] \in Targets
           /\ \A t \in Targets : Turn(t) \in {1, 2} /\ (Turn(t) = slice => t = Slice)
  <1>1. Len(SLICES) = 2 /\ DOMAIN SLICES = {1, 2} /\ SLICES[1] = "ios" /\ SLICES[2] = "sim"
    BY DEF SLICES
  <1>2. slice = 1 \/ slice = 2
    BY <1>1 DEF IosTypeOK
  <1> QED
    BY <1>1, <1>2, TargetsAreSlices DEF Slice, Turn

LEMMA PresentTypes ==
    ASSUME IosTypeOK
    PROVE  /\ PresentLib \in Lib
           /\ \A r \in BOOLEAN, b \in Revisions \cup {NoFile} :
                    Dev(PresentLib, r, b) \in DevFw
           /\ revision \in Revisions
  <1>1. revision \in Revisions /\ manifest \in Configs
    BY DEF IosTypeOK, CargoTypeOK, Revisions
  <1>2. PresentLib \in Lib
    BY <1>1 DEF PresentLib, Lib, Revisions
  <1> QED
    BY <1>1, <1>2 DEF Dev, DevFw

LEMMA IosInitInv == IosInit => IosInv
  <1> SUFFICES ASSUME IosInit
               PROVE  IosInv
    OBVIOUS
  <1>1. CargoInv
    BY CargoInitInv DEF IosInit
  <1>2. IosTypeOK
    BY <1>1, FirstIsConfig DEF IosInit, IosTypeOK, CargoInv, Steps, SLICES
  <1>3. \A t \in Targets : SliceInv(t)
    BY DEF IosInit, SliceInv, Built, Compiled, ProverWrapped, DevWrapped, Wired,
           AfterBuild, BuildLoop, Assembly
  <1>4. RunInv /\ ReleaseInv
    BY DEF IosInit, RunInv, Assembly, ReleaseInv, SuccessIsWhole,
           PackagedProverIsLinked, NoSkewedXcframework, SignedTogether
  <1> QED
    BY <1>1, <1>2, <1>3, <1>4 DEF IosInv

LEMMA CargoUnchanged ==
    ASSUME CargoInv, UNCHANGED cargoVars
    PROVE  CargoInv' /\ CargoTypeOK'
  BY DEF cargoVars, CargoInv, CargoTypeOK, IsFetched, NewestExists, ManifestIsNewest

\* A run that ends with an error leaves the xcframeworks it has not removed;
\* the invariant of the slices says nothing of an ended run.
LEMMA FailureKeepsInv ==
    ASSUME IosInv, Finish("failed"), IosTypeOK', CargoInv',
           proverXcf' \in {proverXcf, NoFile}, devXcf' \in {devXcf, NoFile}
    PROVE  IosInv'
  <1>1. \A t \in Targets : SliceInv(t)'
    BY DEF Finish, SliceInv, Built, Compiled, ProverWrapped, DevWrapped, Wired,
           AfterBuild, BuildLoop, Assembly
  <1>2. RunInv'
    BY DEF Finish, RunInv, Assembly
  <1>3. ReleaseInv'
    BY DEF IosInv, ReleaseInv, Finish, SuccessIsWhole, PackagedProverIsLinked,
           NoSkewedXcframework, SignedTogether
  <1> QED
    BY <1>1, <1>2, <1>3 DEF IosInv

\* A step within a run leaves the release of the last run as it is.
LEMMA StepKeepsRelease ==
    ASSUME IosInv, exit' = "none", UNCHANGED xcfVars
    PROVE  ReleaseInv'
  BY DEF IosInv, ReleaseInv, SuccessIsWhole, PackagedProverIsLinked,
         NoSkewedXcframework, SignedTogether, xcfVars

\* A run starts with nothing of its own written.
LEMMA BeginKeepsInv ==
    ASSUME IosInv, NEW s \in {"unsigned", "team", "none"}, Begin(s)
    PROVE  IosInv'
  <1>1. CargoInv' /\ CargoTypeOK'
    BY CargoUnchanged DEF Begin, IosInv
  <1>2. IosTypeOK'
    BY <1>1 DEF Begin, IosInv, IosTypeOK, CargoTypeOK, Steps, SLICES, frameworkVars, xcfVars
  <1>3. \A t \in Targets : SliceInv(t)'
    BY DEF Begin, SliceInv, Built, Compiled, ProverWrapped, DevWrapped, Wired,
           AfterBuild, BuildLoop, Assembly, Turn
  <1>4. RunInv'
    BY DEF Begin, RunInv, Assembly, cargoVars
  <1>5. ReleaseInv'
    BY StepKeepsRelease DEF Begin
  <1> QED
    BY <1>1, <1>2, <1>3, <1>4, <1>5 DEF IosInv

LEMMA CompileKeepsInv ==
    ASSUME IosInv, CompileSlice
    PROVE  IosInv'
  <1>t. /\ IosTypeOK /\ CargoTypeOK /\ CargoInv /\ RunInv
        /\ \A t \in Targets : SliceInv(t)
    BY DEF IosInv, IosTypeOK
  <1>s. PICK s \in Targets :
            /\ s = Slice /\ Turn(s) = slice /\ slice \in {1, 2}
            /\ \A t \in Targets : Turn(t) \in {1, 2} /\ (Turn(t) = slice => t = s)
    BY <1>t, SlicesAreTargets
  <1>a. at = "compile" /\ UNCHANGED <<frameworkVars, swift, xcfVars>>
    BY DEF CompileSlice
  <1>1. CASE Compile(Slice) /\ Goto("wrapProver")
    <2>0. Compile(s)
      BY <1>1, <1>s
    <2>1. /\ CargoInv' /\ IsFetched(s, manifest)'
          /\ \A u \in Targets, c \in Configs : IsFetched(u, c) => IsFetched(u, c)'
          /\ lib' = [lib EXCEPT ![s] = PresentLib]
          /\ lib'[s] = PresentLib
          /\ UNCHANGED <<manifest, used, revision>>
      BY <1>t, <2>0, CompileKeepsCargo DEF PresentLib
    <2>2. IosTypeOK'
      BY <1>1, <1>a, <1>t, <2>1
      DEF CargoInv, IosTypeOK, Goto, Steps, frameworkVars, xcfVars
    <2>3. /\ at' = "wrapProver" /\ slice' = slice /\ exit' = exit
          /\ signing' = signing /\ version' = version
          /\ manifest' = manifest /\ PresentLib' = PresentLib
      BY <1>1, <2>1 DEF Goto, PresentLib
    <2>4. ASSUME NEW t \in Targets
          PROVE  SliceInv(t)'
      <3>1. CASE t = s
        <4>1. /\ ~ProverWrapped(t)' /\ ~Built(t)' /\ ~DevWrapped(t)' /\ ~Wired(t)'
          BY <1>a, <1>s, <2>3, <3>1
          DEF Built, ProverWrapped, DevWrapped, Wired, AfterBuild, BuildLoop, Assembly
        <4> QED
          BY <2>1, <2>3, <3>1, <4>1 DEF SliceInv
      <3>2. CASE t # s
        <4>1. /\ ProverWrapped(t)' <=> ProverWrapped(t)
              /\ Built(t)' <=> Built(t)
              /\ Compiled(t)' <=> Compiled(t)
              /\ ~DevWrapped(t)' /\ ~Wired(t)' /\ ~Wired(t)
          BY <1>a, <1>s, <2>3, <3>2
          DEF Built, Compiled, ProverWrapped, DevWrapped, Wired, AfterBuild,
              BuildLoop, Assembly
        <4>2. lib'[t] = lib[t] /\ UNCHANGED <<proverFw, devFw>>
          BY <1>a, <1>t, <2>1, <3>2 DEF CargoTypeOK, frameworkVars
        <4>3. SliceInv(t) /\ manifest \in Configs
          BY <1>t DEF CargoTypeOK
        <4> QED
          BY <2>1, <2>3, <4>1, <4>2, <4>3 DEF SliceInv, IsPresentProver
      <3> QED
        BY <3>1, <3>2
    <2>5. RunInv'
      BY <1>a, <1>t, <2>1, <2>3 DEF RunInv, Assembly
    <2>6. ReleaseInv'
      BY <1>a, <1>t, <2>3, StepKeepsRelease DEF RunInv
    <2> QED
      BY <2>1, <2>2, <2>4, <2>5, <2>6 DEF IosInv
  <1>2. CASE (Compile(Slice) \/ CompileFails(Slice)) /\ Finish("failed")
    <2>1. CargoInv'
      <3>1. Compile(s) \/ CompileFails(s)
        BY <1>2, <1>s
      <3> QED
        BY <1>t, <3>1, CompileKeepsCargo, CompileFailsKeepsCargo
    <2>2. IosTypeOK'
      BY <1>2, <1>a, <1>t, <2>1
      DEF CargoInv, IosTypeOK, Finish, Steps, frameworkVars, xcfVars
    <2> QED
      BY <1>2, <1>a, <2>1, <2>2, FailureKeepsInv DEF xcfVars
  <1> QED
    BY <1>1, <1>2 DEF CompileSlice

\* A slice is as it was when a step writes nothing of it and passes no step
\* of its round.
LEMMA OtherSlice ==
    ASSUME NEW t \in Targets, SliceInv(t), UNCHANGED cargoVars,
           proverFw'[t] = proverFw[t], devFw'[t] = devFw[t],
           Built(t)' <=> Built(t), Compiled(t)' <=> Compiled(t),
           ProverWrapped(t)' <=> ProverWrapped(t),
           DevWrapped(t)' <=> DevWrapped(t), Wired(t)' <=> Wired(t)
    PROVE  SliceInv(t)'
  BY DEF SliceInv, cargoVars, PresentLib, IsPresentProver, IsFetched

LEMMA WrapProverKeepsInv ==
    ASSUME IosInv, WrapProver
    PROVE  IosInv'
  <1>t. /\ IosTypeOK /\ CargoTypeOK /\ CargoInv /\ RunInv
        /\ \A t \in Targets : SliceInv(t)
    BY DEF IosInv, IosTypeOK
  <1>s. PICK s \in Targets :
            /\ s = Slice /\ Turn(s) = slice /\ slice \in {1, 2}
            /\ \A t \in Targets : Turn(t) \in {1, 2} /\ (Turn(t) = slice => t = s)
    BY <1>t, SlicesAreTargets
  <1>a. /\ at = "wrapProver" /\ exit = "none" /\ version = manifest
        /\ UNCHANGED <<cargoVars, devFw, swift, xcfVars>>
    BY <1>t DEF WrapProver, RunInv
  <1>c. CargoInv' /\ CargoTypeOK'
    BY <1>a, <1>t, CargoUnchanged
  <1>1. CASE /\ proverFw' = [proverFw EXCEPT ![Slice] =
                    [prover |-> FoundProver(Slice), version |-> version]]
             /\ Goto("wrapDev")
    <2>1. FoundProver(s) \in Configs /\ (~Returns => FoundProver(s) = manifest)
      <3>1. IsFetched(s, manifest)
        BY <1>a, <1>s, <1>t DEF SliceInv, Compiled, BuildLoop
      <3> QED
        BY <1>t, <3>1, FoundProverIsCandidate, FoundProverIsOfManifest
    <2>2. PICK f \in ProverFw : /\ f = [prover |-> FoundProver(s), version |-> manifest]
                                /\ proverFw' = [proverFw EXCEPT ![s] = f]
      <3>1. [prover |-> FoundProver(s), version |-> manifest] \in ProverFw
        BY <1>t, <2>1 DEF ProverFw, CargoTypeOK
      <3> QED
        BY <1>1, <1>a, <1>s, <3>1
    <2>3. IosTypeOK'
      BY <1>1, <1>a, <1>c, <1>t, <2>2 DEF IosTypeOK, Goto, Steps, xcfVars
    <2>4. /\ at' = "wrapDev" /\ slice' = slice /\ exit' = exit
          /\ signing' = signing /\ version' = version
      BY <1>1 DEF Goto
    <2>5. ASSUME NEW t \in Targets
          PROVE  SliceInv(t)'
      <3>1. CASE t = s
        <4>1. /\ ~Built(t)' /\ ~DevWrapped(t)' /\ ~Wired(t)' /\ Compiled(t)
          BY <1>a, <1>s, <2>4, <3>1
          DEF Built, Compiled, DevWrapped, Wired, AfterBuild, BuildLoop, Assembly
        <4>2. IsPresentProver(proverFw[t])'
          BY <1>a, <1>t, <2>1, <2>2, <3>1 DEF IsPresentProver, cargoVars, IosTypeOK
        <4>3. lib'[t] = PresentLib' /\ IsFetched(t, manifest)'
          BY <1>a, <1>t, <4>1 DEF SliceInv, PresentLib, IsFetched, cargoVars
        <4> QED
          BY <4>1, <4>2, <4>3 DEF SliceInv
      <3>2. CASE t # s
        <4>1. /\ ProverWrapped(t)' <=> ProverWrapped(t)
              /\ Built(t)' <=> Built(t)
              /\ Compiled(t)' <=> Compiled(t)
              /\ DevWrapped(t)' <=> DevWrapped(t)
              /\ Wired(t)' <=> Wired(t)
          BY <1>a, <1>s, <2>4, <3>2
          DEF Built, Compiled, ProverWrapped, DevWrapped, Wired, AfterBuild,
              BuildLoop, Assembly
        <4>2. proverFw'[t] = proverFw[t] /\ devFw'[t] = devFw[t]
          BY <1>a, <1>t, <2>2, <3>2 DEF IosTypeOK
        <4> QED
          BY <1>a, <1>t, <4>1, <4>2, OtherSlice
      <3> QED
        BY <3>1, <3>2
    <2>6. RunInv'
      BY <1>a, <1>t, <2>4 DEF RunInv, Assembly, cargoVars
    <2>7. ReleaseInv'
      BY <1>a, <2>4, StepKeepsRelease
    <2> QED
      BY <1>c, <2>3, <2>5, <2>6, <2>7 DEF IosInv
  <1>2. CASE /\ proverFw' \in {proverFw, [proverFw EXCEPT ![Slice] = Partial]}
             /\ Finish("failed")
    <2>1. IosTypeOK'
      BY <1>2, <1>a, <1>c, <1>t DEF IosTypeOK, Finish, Steps, xcfVars
    <2> QED
      BY <1>2, <1>a, <1>c, <2>1, FailureKeepsInv DEF xcfVars
  <1> QED
    BY <1>1, <1>2 DEF WrapProver

LEMMA WrapDevKeepsInv ==
    ASSUME IosInv, WrapDev
    PROVE  IosInv'
  <1>t. /\ IosTypeOK /\ CargoTypeOK /\ CargoInv /\ RunInv
        /\ \A t \in Targets : SliceInv(t)
    BY DEF IosInv, IosTypeOK
  <1>s. PICK s \in Targets :
            /\ s = Slice /\ Turn(s) = slice /\ slice \in {1, 2}
            /\ \A t \in Targets : Turn(t) \in {1, 2} /\ (Turn(t) = slice => t = s)
    BY <1>t, SlicesAreTargets
  <1>a. /\ at = "wrapDev" /\ exit = "none" /\ version = manifest
        /\ UNCHANGED <<cargoVars, proverFw, swift, xcfVars>>
    BY <1>t DEF WrapDev, RunInv
  <1>c. CargoInv' /\ CargoTypeOK'
    BY <1>a, <1>t, CargoUnchanged
  <1>1. CASE /\ devFw' = [devFw EXCEPT ![Slice] =
                    [lib |-> lib[Slice], relinked |-> FALSE, bindings |-> NoFile]]
             /\ Goto("relink")
    <2>1. Compiled(s) /\ lib[s] = PresentLib /\ ProverWrapped(s)
      BY <1>a, <1>s, <1>t DEF SliceInv, Compiled, ProverWrapped, BuildLoop
    <2>2. devFw' = [devFw EXCEPT ![s] = Dev(PresentLib, FALSE, NoFile)]
      BY <1>1, <1>s, <2>1 DEF Dev
    <2>3. IosTypeOK'
      <3>1. Dev(PresentLib, FALSE, NoFile) \in DevFw
        BY <1>t, PresentTypes
      <3> QED
        BY <1>1, <1>a, <1>c, <1>t, <2>2, <3>1 DEF IosTypeOK, Goto, Steps, xcfVars
    <2>4. /\ at' = "relink" /\ slice' = slice /\ exit' = exit
          /\ signing' = signing /\ version' = version
      BY <1>1 DEF Goto
    <2>5. ASSUME NEW t \in Targets
          PROVE  SliceInv(t)'
      <3>1. CASE t = s
        <4>1. /\ ~Built(t)' /\ ~Wired(t)'
          BY <1>a, <1>s, <2>4, <3>1 DEF Built, Wired, AfterBuild, BuildLoop, Assembly
        <4>2. devFw'[t] = Dev(PresentLib, FALSE, NoFile)' /\ proverFw'[t] = proverFw[t]
          BY <1>a, <1>t, <2>2, <3>1 DEF IosTypeOK, Dev, PresentLib, cargoVars
        <4>3. /\ lib'[t] = PresentLib' /\ IsFetched(t, manifest)'
              /\ IsPresentProver(proverFw[t])'
          BY <1>a, <1>t, <2>1, <3>1
          DEF SliceInv, PresentLib, IsFetched, IsPresentProver, cargoVars
        <4> QED
          BY <4>1, <4>2, <4>3 DEF SliceInv
      <3>2. CASE t # s
        <4>1. /\ ProverWrapped(t)' <=> ProverWrapped(t)
              /\ Built(t)' <=> Built(t)
              /\ Compiled(t)' <=> Compiled(t)
              /\ DevWrapped(t)' <=> DevWrapped(t)
              /\ Wired(t)' <=> Wired(t)
          BY <1>a, <1>s, <2>4, <3>2
          DEF Built, Compiled, ProverWrapped, DevWrapped, Wired, AfterBuild,
              BuildLoop, Assembly
        <4>2. proverFw'[t] = proverFw[t] /\ devFw'[t] = devFw[t]
          BY <1>a, <1>t, <2>2, <3>2 DEF IosTypeOK
        <4> QED
          BY <1>a, <1>t, <4>1, <4>2, OtherSlice
      <3> QED
        BY <3>1, <3>2
    <2>6. RunInv'
      BY <1>a, <1>t, <2>4 DEF RunInv, Assembly, cargoVars
    <2>7. ReleaseInv'
      BY <1>a, <2>4, StepKeepsRelease
    <2> QED
      BY <1>c, <2>3, <2>5, <2>6, <2>7 DEF IosInv
  <1>2. CASE /\ devFw' \in {devFw, [devFw EXCEPT ![Slice] = Partial]}
             /\ Finish("failed")
    <2>1. IosTypeOK'
      BY <1>2, <1>a, <1>c, <1>t DEF IosTypeOK, Finish, Steps, xcfVars
    <2> QED
      BY <1>2, <1>a, <1>c, <2>1, FailureKeepsInv DEF xcfVars
  <1> QED
    BY <1>1, <1>2 DEF WrapDev

LEMMA RelinkKeepsInv ==
    ASSUME IosInv, Relink
    PROVE  IosInv'
  <1>t. /\ IosTypeOK /\ CargoTypeOK /\ CargoInv /\ RunInv
        /\ \A t \in Targets : SliceInv(t)
    BY DEF IosInv, IosTypeOK
  <1>s. PICK s \in Targets :
            /\ s = Slice /\ Turn(s) = slice /\ slice \in {1, 2}
            /\ Len(SLICES) = 2 /\ DOMAIN SLICES = {1, 2}
            /\ \A t \in Targets : Turn(t) \in {1, 2} /\ (Turn(t) = slice => t = s)
    BY <1>t, SlicesAreTargets
  <1>a. /\ at = "relink" /\ exit = "none" /\ version = manifest
        /\ UNCHANGED <<cargoVars, proverFw, swift, xcfVars>>
    BY <1>t DEF Relink, RunInv
  <1>c. CargoInv' /\ CargoTypeOK'
    BY <1>a, <1>t, CargoUnchanged
  <1>1. CASE /\ devFw' = [devFw EXCEPT ![Slice].relinked = TRUE]
             /\ NextSlice("compile", "bindings")
    <2>1. devFw[s] = Dev(PresentLib, FALSE, NoFile)
      BY <1>a, <1>s, <1>t DEF SliceInv, DevWrapped, RunInv
    <2>2. devFw' = [devFw EXCEPT ![s] = Dev(PresentLib, TRUE, NoFile)]
      <3>1. [devFw[s] EXCEPT !.relinked = TRUE] = Dev(PresentLib, TRUE, NoFile)
        BY <2>1, RelinkedDev
      <3> QED
        BY <1>1, <1>s, <3>1
    <2>3. Dev(PresentLib, TRUE, NoFile) \in DevFw
      BY <1>t, PresentTypes
    <2>4. \/ /\ slice = 1 /\ slice' = 2 /\ at' = "compile"
          \/ /\ slice = 2 /\ slice' = 1 /\ at' = "bindings"
      BY <1>1, <1>s DEF NextSlice
    <2>5. exit' = exit /\ signing' = signing /\ version' = version
      BY <1>1 DEF NextSlice
    <2>6. IosTypeOK'
      BY <1>a, <1>c, <1>s, <1>t, <2>2, <2>3, <2>4, <2>5
      DEF IosTypeOK, Steps, xcfVars
    <2>7. ASSUME NEW t \in Targets
          PROVE  SliceInv(t)'
      <3>1. CASE t = s
        <4>1. /\ Built(t)' /\ ~DevWrapped(t)' /\ ~Wired(t)'
              /\ Compiled(t) /\ ProverWrapped(t)
          BY <1>a, <1>s, <2>4, <3>1
          DEF Built, Compiled, ProverWrapped, DevWrapped, Wired, AfterBuild,
              BuildLoop, Assembly
        <4>2. devFw'[t] = Dev(PresentLib, TRUE, NoFile)'
          BY <1>a, <1>t, <2>2, <3>1 DEF IosTypeOK, Dev, PresentLib, cargoVars
        <4>3. /\ lib'[t] = PresentLib' /\ IsFetched(t, manifest)'
              /\ IsPresentProver(proverFw[t])'
          BY <1>a, <1>t, <4>1
          DEF SliceInv, PresentLib, IsFetched, IsPresentProver, cargoVars
        <4> QED
          BY <4>1, <4>2, <4>3 DEF SliceInv
      <3>2. CASE t # s
        <4>1. /\ ProverWrapped(t)' <=> ProverWrapped(t)
              /\ Built(t)' <=> Built(t)
              /\ Compiled(t)' <=> Compiled(t)
              /\ DevWrapped(t)' <=> DevWrapped(t)
              /\ Wired(t)' <=> Wired(t)
          BY <1>a, <1>s, <2>4, <3>2
          DEF Built, Compiled, ProverWrapped, DevWrapped, Wired, AfterBuild,
              BuildLoop, Assembly
        <4>2. proverFw'[t] = proverFw[t] /\ devFw'[t] = devFw[t]
          BY <1>a, <1>t, <2>2, <3>2 DEF IosTypeOK
        <4> QED
          BY <1>a, <1>t, <4>1, <4>2, OtherSlice
      <3> QED
        BY <3>1, <3>2
    <2>8. RunInv'
      BY <1>a, <1>t, <2>4, <2>5 DEF RunInv, Assembly, cargoVars
    <2>9. ReleaseInv'
      BY <1>a, <2>5, StepKeepsRelease
    <2> QED
      BY <1>c, <2>6, <2>7, <2>8, <2>9 DEF IosInv
  <1>2. CASE /\ devFw' \in {devFw, [devFw EXCEPT ![Slice] = Partial]}
             /\ Finish("failed")
    <2>1. IosTypeOK'
      BY <1>2, <1>a, <1>c, <1>t DEF IosTypeOK, Finish, Steps, xcfVars
    <2> QED
      BY <1>2, <1>a, <1>c, <2>1, FailureKeepsInv DEF xcfVars
  <1> QED
    BY <1>1, <1>2 DEF Relink

LEMMA WireKeepsInv ==
    ASSUME IosInv, WireBindings
    PROVE  IosInv'
  <1>t. /\ IosTypeOK /\ CargoTypeOK /\ CargoInv /\ RunInv
        /\ \A t \in Targets : SliceInv(t)
    BY DEF IosInv, IosTypeOK
  <1>s. PICK s \in Targets :
            /\ s = Slice /\ Turn(s) = slice /\ slice \in {1, 2}
            /\ Len(SLICES) = 2 /\ DOMAIN SLICES = {1, 2}
            /\ \A t \in Targets : Turn(t) \in {1, 2} /\ (Turn(t) = slice => t = s)
    BY <1>t, SlicesAreTargets
  <1>a. /\ at = "wire" /\ exit = "none" /\ version = manifest
        /\ UNCHANGED <<cargoVars, proverFw, swift, xcfVars>>
    BY <1>t DEF WireBindings, RunInv
  <1>c. CargoInv' /\ CargoTypeOK'
    BY <1>a, <1>t, CargoUnchanged
  <1>1. CASE /\ devFw' = [devFw EXCEPT ![Slice].bindings = swift]
             /\ NextSlice("wire", "clean")
    <2>1. devFw[s] = Dev(PresentLib, TRUE, NoFile) /\ swift = revision
      <3>1. Built(s) /\ ~Wired(s) /\ swift = revision
        BY <1>a, <1>s, <1>t DEF Built, Wired, AfterBuild, Assembly, RunInv
      <3> QED
        BY <1>t, <3>1 DEF SliceInv
    <2>2. devFw' = [devFw EXCEPT ![s] = Dev(PresentLib, TRUE, revision)]
      <3> DEFINE l == PresentLib
                 f == devFw[s]
      <3>0. f = Dev(l, TRUE, NoFile)
        BY <2>1
      <3> HIDE DEF l, f
      <3>1. [f EXCEPT !.bindings = revision] = Dev(l, TRUE, revision)
        BY ONLY <3>0, WiredDev
      <3> QED
        BY <1>1, <1>s, <2>1, <3>1 DEF l, f
    <2>3. Dev(PresentLib, TRUE, revision) \in DevFw
      BY <1>t, PresentTypes
    <2>4. \/ /\ slice = 1 /\ slice' = 2 /\ at' = "wire"
          \/ /\ slice = 2 /\ slice' = 1 /\ at' = "clean"
      BY <1>1, <1>s DEF NextSlice
    <2>5. exit' = exit /\ signing' = signing /\ version' = version
      BY <1>1 DEF NextSlice
    <2>6. IosTypeOK'
      BY <1>a, <1>c, <1>s, <1>t, <2>2, <2>3, <2>4, <2>5
      DEF IosTypeOK, Steps, xcfVars
    <2>7. ASSUME NEW t \in Targets
          PROVE  SliceInv(t)'
      <3>1. CASE t = s
        <4>1. /\ Built(t)' /\ ~DevWrapped(t)' /\ Wired(t)'
              /\ Compiled(t) /\ ProverWrapped(t)
          BY <1>a, <1>s, <2>4, <3>1
          DEF Built, Compiled, ProverWrapped, DevWrapped, Wired, AfterBuild,
              BuildLoop, Assembly
        <4>2. devFw'[t] = Dev(PresentLib, TRUE, revision)'
          BY <1>a, <1>t, <2>2, <3>1 DEF IosTypeOK, Dev, PresentLib, cargoVars
        <4>3. /\ lib'[t] = PresentLib' /\ IsFetched(t, manifest)'
              /\ IsPresentProver(proverFw[t])'
          BY <1>a, <1>t, <4>1
          DEF SliceInv, PresentLib, IsFetched, IsPresentProver, cargoVars
        <4> QED
          BY <4>1, <4>2, <4>3 DEF SliceInv
      <3>2. CASE t # s
        <4>1. /\ ProverWrapped(t)' <=> ProverWrapped(t)
              /\ Built(t)' <=> Built(t)
              /\ Compiled(t)' <=> Compiled(t)
              /\ DevWrapped(t)' <=> DevWrapped(t)
              /\ Wired(t)' <=> Wired(t)
          BY <1>a, <1>s, <2>4, <3>2
          DEF Built, Compiled, ProverWrapped, DevWrapped, Wired, AfterBuild,
              BuildLoop, Assembly
        <4>2. proverFw'[t] = proverFw[t] /\ devFw'[t] = devFw[t]
          BY <1>a, <1>t, <2>2, <3>2 DEF IosTypeOK
        <4> QED
          BY <1>a, <1>t, <4>1, <4>2, OtherSlice
      <3> QED
        BY <3>1, <3>2
    <2>8. RunInv'
      BY <1>a, <1>t, <2>4, <2>5 DEF RunInv, Assembly, cargoVars
    <2>9. ReleaseInv'
      BY <1>a, <2>5, StepKeepsRelease
    <2> QED
      BY <1>c, <2>6, <2>7, <2>8, <2>9 DEF IosInv
  <1>2. CASE /\ devFw' \in {devFw, [devFw EXCEPT ![Slice] = Partial]}
             /\ Finish("failed")
    <2>1. IosTypeOK'
      BY <1>2, <1>a, <1>c, <1>t DEF IosTypeOK, Finish, Steps, xcfVars
    <2> QED
      BY <1>2, <1>a, <1>c, <2>1, FailureKeepsInv DEF xcfVars
  <1> QED
    BY <1>1, <1>2 DEF WireBindings

\* From the end of the first loop on, a step that writes no framework and goes
\* on passes every slice alike.
LEMMA LaterStepKeepsSlices ==
    ASSUME NEW t \in Targets, SliceInv(t), UNCHANGED <<cargoVars, frameworkVars>>,
           at \in AfterBuild, at' \in AfterBuild, Wired(t)' <=> Wired(t)
    PROVE  SliceInv(t)'
  <1>1. /\ Built(t)' /\ Built(t) /\ Compiled(t)' /\ Compiled(t)
        /\ ProverWrapped(t)' /\ ProverWrapped(t)
        /\ ~DevWrapped(t)' /\ ~DevWrapped(t)
    BY DEF Built, Compiled, ProverWrapped, DevWrapped, AfterBuild, Assembly
  <1> QED
    BY <1>1, OtherSlice DEF frameworkVars

LEMMA GenerateBindingsKeepsInv ==
    ASSUME IosInv, GenerateBindings
    PROVE  IosInv'
  <1>t. /\ IosTypeOK /\ CargoTypeOK /\ CargoInv /\ RunInv
        /\ \A t \in Targets : SliceInv(t)
    BY DEF IosInv, IosTypeOK
  <1>a. /\ at = "bindings" /\ exit = "none" /\ slice = 1
        /\ UNCHANGED <<cargoVars, frameworkVars, xcfVars>>
    BY <1>t DEF GenerateBindings, RunInv, frameworkVars, xcfVars
  <1>c. CargoInv' /\ CargoTypeOK'
    BY <1>a, <1>t, CargoUnchanged
  <1>1. CASE swift' = lib[SLICES[1]].revision /\ Goto("wire")
    <2>1. swift' = revision
      <3>1. PICK s \in Targets : s = SLICES[1]
        BY <1>t, SlicesAreTargets
      <3>2. lib[s] = PresentLib
        BY <1>a, <1>t DEF SliceInv, Compiled, Built, AfterBuild
      <3> QED
        BY <1>1, <3>1, <3>2 DEF PresentLib
    <2>2. /\ at' = "wire" /\ slice' = 1 /\ exit' = "none"
          /\ signing' = signing /\ version' = version
      BY <1>1, <1>a DEF Goto
    <2>3. IosTypeOK'
      BY <1>a, <1>c, <1>t, <2>1, <2>2, PresentTypes
      DEF IosTypeOK, Steps, SLICES, frameworkVars, xcfVars
    <2>4. ASSUME NEW t \in Targets
          PROVE  SliceInv(t)'
      <3>1. ~Wired(t)' /\ ~Wired(t)
        BY <1>a, <2>2 DEF Wired, Assembly, Turn
      <3> QED
        BY <1>a, <1>t, <2>2, <3>1, LaterStepKeepsSlices DEF AfterBuild
    <2>5. RunInv'
      BY <1>a, <1>t, <2>1, <2>2 DEF RunInv, Assembly, cargoVars
    <2>6. ReleaseInv'
      BY <1>a, <2>2, StepKeepsRelease
    <2> QED
      BY <1>c, <2>3, <2>4, <2>5, <2>6 DEF IosInv
  <1>2. CASE swift' \in {swift, NoFile} /\ Finish("failed")
    <2>1. IosTypeOK'
      BY <1>2, <1>a, <1>c, <1>t DEF IosTypeOK, Finish, Steps, frameworkVars, xcfVars
    <2> QED
      BY <1>2, <1>a, <1>c, <2>1, FailureKeepsInv DEF xcfVars
  <1> QED
    BY <1>1, <1>2 DEF GenerateBindings

LEMMA CleanKeepsInv ==
    ASSUME IosInv, CleanXcframeworks
    PROVE  IosInv'
  <1>t. /\ IosTypeOK /\ CargoTypeOK /\ CargoInv /\ RunInv
        /\ \A t \in Targets : SliceInv(t)
    BY DEF IosInv, IosTypeOK
  <1>a. /\ at = "clean" /\ exit = "none"
        /\ UNCHANGED <<cargoVars, frameworkVars, swift>>
    BY <1>t DEF CleanXcframeworks, RunInv, frameworkVars, xcfVars
  <1>c. CargoInv' /\ CargoTypeOK'
    BY <1>a, <1>t, CargoUnchanged
  <1>1. CASE proverXcf' = NoFile /\ devXcf' = NoFile /\ Goto("assembleProver")
    <2>1. /\ at' = "assembleProver" /\ slice' = slice /\ exit' = "none"
          /\ signing' = signing /\ version' = version
      BY <1>1, <1>a DEF Goto
    <2>2. IosTypeOK'
      BY <1>1, <1>a, <1>c, <1>t, <2>1 DEF IosTypeOK, Steps, frameworkVars
    <2>3. \A t \in Targets : SliceInv(t)'
      BY <1>a, <1>t, <2>1, LaterStepKeepsSlices DEF AfterBuild, Assembly, Wired
    <2>4. RunInv'
      BY <1>1, <1>a, <1>t, <2>1 DEF RunInv, Assembly, cargoVars
    <2>5. ReleaseInv'
      BY <1>1, <2>1
      DEF ReleaseInv, SuccessIsWhole, PackagedProverIsLinked, NoSkewedXcframework,
          SignedTogether
    <2> QED
      BY <1>c, <2>2, <2>3, <2>4, <2>5 DEF IosInv
  <1>2. CASE /\ proverXcf' \in {proverXcf, NoFile} /\ devXcf' \in {devXcf, NoFile}
             /\ Finish("failed")
    <2>1. IosTypeOK'
      BY <1>2, <1>a, <1>c, <1>t DEF IosTypeOK, Finish, Steps, frameworkVars
    <2> QED
      BY <1>2, <1>c, <2>1, FailureKeepsInv
  <1> QED
    BY <1>1, <1>2 DEF CleanXcframeworks

\* What is assembled is of the present run, slice by slice.
LEMMA FrameworksArePresent ==
    ASSUME IosInv, at \in Assembly
    PROVE  /\ \A t \in Targets : /\ IsPresentProver(proverFw[t])
                                 /\ devFw[t] = Dev(PresentLib, TRUE, revision)
                                 /\ lib[t] = PresentLib
           /\ proverFw \in [Targets -> ProverFw]
           /\ devFw \in [Targets -> DevFw]
           /\ \A b \in BOOLEAN : /\ [slices |-> proverFw, signed |-> b] \in Xcf(ProverFw)
                                 /\ [slices |-> devFw, signed |-> b] \in Xcf(DevFw)
  <1>t. IosTypeOK /\ \A t \in Targets : SliceInv(t)
    BY DEF IosInv
  <1>1. \A t \in Targets : /\ IsPresentProver(proverFw[t])
                           /\ devFw[t] = Dev(PresentLib, TRUE, revision)
                           /\ lib[t] = PresentLib
    BY <1>t DEF SliceInv, Compiled, ProverWrapped, Built, Wired, AfterBuild
  <1>2. Dev(PresentLib, TRUE, revision) \in DevFw
    BY <1>t, PresentTypes
  <1>3. proverFw \in [Targets -> ProverFw] /\ devFw \in [Targets -> DevFw]
    BY <1>t, <1>1, <1>2 DEF IosTypeOK, IsPresentProver
  <1> QED
    BY <1>1, <1>3 DEF Xcf

LEMMA AssembleProverKeepsInv ==
    ASSUME IosInv, AssembleProver
    PROVE  IosInv'
  <1>t. /\ IosTypeOK /\ CargoTypeOK /\ CargoInv /\ RunInv
        /\ \A t \in Targets : SliceInv(t)
    BY DEF IosInv, IosTypeOK
  <1>a. /\ at = "assembleProver" /\ exit = "none" /\ devXcf = NoFile
        /\ UNCHANGED <<cargoVars, frameworkVars, swift, devXcf>>
    BY <1>t DEF AssembleProver, RunInv, frameworkVars, xcfVars
  <1>c. CargoInv' /\ CargoTypeOK'
    BY <1>a, <1>t, CargoUnchanged
  <1>1. CASE /\ proverXcf' = [slices |-> proverFw, signed |-> FALSE]
             /\ Goto("assembleDev")
    <2>1. /\ at' = "assembleDev" /\ slice' = slice /\ exit' = "none"
          /\ signing' = signing /\ version' = version
      BY <1>1, <1>a DEF Goto
    <2>2. proverXcf' \in Xcf(ProverFw)
      BY <1>1, <1>a, FrameworksArePresent DEF Assembly
    <2>3. IosTypeOK'
      BY <1>a, <1>c, <1>t, <2>1, <2>2 DEF IosTypeOK, Steps, frameworkVars
    <2>4. \A t \in Targets : SliceInv(t)'
      BY <1>a, <1>t, <2>1, LaterStepKeepsSlices DEF AfterBuild, Assembly, Wired
    <2>5. RunInv'
      BY <1>1, <1>a, <1>t, <2>1
      DEF RunInv, Assembly, cargoVars, frameworkVars, Unsigned
    <2>6. ReleaseInv'
      BY <1>a, <2>1
      DEF ReleaseInv, SuccessIsWhole, PackagedProverIsLinked, NoSkewedXcframework,
          SignedTogether
    <2> QED
      BY <1>c, <2>3, <2>4, <2>5, <2>6 DEF IosInv
  <1>2. CASE UNCHANGED proverXcf /\ Finish("failed")
    <2>1. IosTypeOK'
      BY <1>2, <1>a, <1>c, <1>t DEF IosTypeOK, Finish, Steps, frameworkVars
    <2> QED
      BY <1>2, <1>a, <1>c, <2>1, FailureKeepsInv
  <1> QED
    BY <1>1, <1>2 DEF AssembleProver

LEMMA AssembleDevKeepsInv ==
    ASSUME IosInv, AssembleDev
    PROVE  IosInv'
  <1>t. /\ IosTypeOK /\ CargoTypeOK /\ CargoInv /\ RunInv
        /\ \A t \in Targets : SliceInv(t)
    BY DEF IosInv, IosTypeOK
  <1>a. /\ at = "assembleDev" /\ exit = "none"
        /\ UNCHANGED <<cargoVars, frameworkVars, swift, proverXcf>>
    BY <1>t DEF AssembleDev, RunInv, frameworkVars, xcfVars
  <1>c. CargoInv' /\ CargoTypeOK'
    BY <1>a, <1>t, CargoUnchanged
  <1>1. CASE /\ devXcf' = [slices |-> devFw, signed |-> FALSE]
             /\ Goto("sign")
    <2>1. /\ at' = "sign" /\ slice' = slice /\ exit' = "none"
          /\ signing' = signing /\ version' = version
      BY <1>1, <1>a DEF Goto
    <2>2. devXcf' \in Xcf(DevFw)
      BY <1>1, <1>a, FrameworksArePresent DEF Assembly
    <2>3. IosTypeOK'
      BY <1>a, <1>c, <1>t, <2>1, <2>2 DEF IosTypeOK, Steps, frameworkVars
    <2>4. \A t \in Targets : SliceInv(t)'
      BY <1>a, <1>t, <2>1, LaterStepKeepsSlices DEF AfterBuild, Assembly, Wired
    <2>5. RunInv'
      BY <1>1, <1>a, <1>t, <2>1
      DEF RunInv, Assembly, cargoVars, frameworkVars, Unsigned
    <2>6. NoSkewedXcframework'
      <3>1. \A t \in Targets : devFw[t] = Dev(PresentLib, TRUE, revision)
        BY <1>a, FrameworksArePresent DEF Assembly
      <3>2. \A t \in Targets : devXcf'.slices[t] = Dev(PresentLib, TRUE, revision)
        BY <1>1, <3>1
      <3> QED
        BY <3>2 DEF NoSkewedXcframework, Dev, PresentLib
    <2>7. ReleaseInv'
      BY <1>1, <2>1, <2>6 DEF ReleaseInv, SuccessIsWhole, PackagedProverIsLinked, SignedTogether
    <2> QED
      BY <1>c, <2>3, <2>4, <2>5, <2>7 DEF IosInv
  <1>2. CASE UNCHANGED devXcf /\ Finish("failed")
    <2>1. IosTypeOK'
      BY <1>2, <1>a, <1>c, <1>t DEF IosTypeOK, Finish, Steps, frameworkVars
    <2> QED
      BY <1>2, <1>a, <1>c, <2>1, FailureKeepsInv
  <1> QED
    BY <1>1, <1>2 DEF AssembleDev

\* The release as it stands when a run ends with success, signed or not.
LEMMA PresentRelease ==
    ASSUME IosInv, at \in {"sign", "signProver", "signDev"},
           UNCHANGED <<cargoVars, swift>>, NEW b \in BOOLEAN,
           b <=> signing' = "team",
           proverXcf' = [slices |-> proverFw, signed |-> b],
           devXcf' = [slices |-> devFw, signed |-> b]
    PROVE  ReleaseInv'
  <1>1. swift' = revision /\ UNCHANGED <<lib, revision, manifest>>
    BY DEF IosInv, RunInv, Assembly, cargoVars
  <1>2. /\ \A t \in Targets : /\ IsPresentProver(proverFw[t])
                              /\ devFw[t] = Dev(PresentLib, TRUE, revision)
                              /\ lib[t] = PresentLib
        /\ proverXcf' \in Xcf(ProverFw) /\ devXcf' \in Xcf(DevFw)
    BY FrameworksArePresent DEF Assembly
  <1>3. proverXcf' # NoFile /\ devXcf' # NoFile
    BY <1>2, NoFileIsNoXcf
  <1>4. ASSUME NEW t \in Targets
        PROVE  /\ devXcf'.slices[t] = Dev(lib'[t], TRUE, lib'[t].revision)
               /\ devXcf'.slices[t].lib = lib'[t]
               /\ devXcf'.slices[t].relinked
               /\ devXcf'.slices[t].bindings = revision
               /\ lib'[t].revision = revision /\ lib'[t].config = manifest
               /\ proverXcf'.slices[t].version = manifest
               /\ ~Returns => proverXcf'.slices[t].prover = manifest
    <2>1. devXcf'.slices[t] = devFw[t] /\ proverXcf'.slices[t] = proverFw[t]
      OBVIOUS
    <2>2. lib'[t] = PresentLib /\ PresentLib.revision = revision /\ PresentLib.config = manifest
      BY <1>1, <1>2 DEF PresentLib
    <2>3. devFw[t] = Dev(PresentLib, TRUE, revision)
      BY <1>2
    <2>4. /\ devFw[t].lib = PresentLib /\ devFw[t].bindings = revision
          /\ devFw[t].relinked
      BY <2>3 DEF Dev
    <2> QED
      BY <1>2, <2>1, <2>2, <2>3, <2>4 DEF IsPresentProver
  <1>5. (devXcf'.signed <=> b) /\ (proverXcf'.signed <=> b)
    OBVIOUS
  <1>6. SuccessIsWhole'
    BY <1>1, <1>3, <1>4, <1>5 DEF SuccessIsWhole, Dev
  <1>7. NoSkewedXcframework' /\ SignedTogether' /\ (~Returns => PackagedProverIsLinked')
    BY <1>4, <1>5 DEF NoSkewedXcframework, SignedTogether, PackagedProverIsLinked
  <1> QED
    BY <1>6, <1>7 DEF ReleaseInv

LEMMA ChooseSigningKeepsInv ==
    ASSUME IosInv, ChooseSigning
    PROVE  IosInv'
  <1>t. /\ IosTypeOK /\ CargoTypeOK /\ CargoInv /\ RunInv
        /\ \A t \in Targets : SliceInv(t)
    BY DEF IosInv, IosTypeOK
  <1>a. /\ at = "sign" /\ exit = "none"
        /\ UNCHANGED <<cargoVars, frameworkVars, swift, xcfVars>>
    BY <1>t DEF ChooseSigning, RunInv, frameworkVars, xcfVars
  <1>c. CargoInv' /\ CargoTypeOK'
    BY <1>a, <1>t, CargoUnchanged
  <1>1. CASE signing = "unsigned" /\ Finish("success")
    <2>1. at' = "idle" /\ UNCHANGED <<slice, signing, version>> /\ exit' = "success"
      BY <1>1 DEF Finish
    <2>2. IosTypeOK'
      BY <1>a, <1>c, <1>t, <2>1 DEF IosTypeOK, Steps, frameworkVars, xcfVars
    <2>3. \A t \in Targets : SliceInv(t)'
      BY <2>1
      DEF SliceInv, Built, Compiled, ProverWrapped, DevWrapped, Wired, AfterBuild,
          BuildLoop, Assembly
    <2>4. RunInv'
      BY <2>1 DEF RunInv, Assembly
    <2>5. ReleaseInv'
      <3>1. /\ proverXcf' = [slices |-> proverFw, signed |-> FALSE]
            /\ devXcf' = [slices |-> devFw, signed |-> FALSE]
        BY <1>a, <1>t DEF RunInv, Unsigned, xcfVars
      <3>2. signing' # "team"
        BY <1>1, <2>1
      <3> QED
        BY <1>a, <3>1, <3>2, PresentRelease
    <2> QED
      BY <1>c, <2>2, <2>3, <2>4, <2>5 DEF IosInv
  <1>2. CASE signing = "none" /\ Finish("failed")
    <2>1. IosTypeOK'
      BY <1>2, <1>a, <1>c, <1>t DEF IosTypeOK, Finish, Steps, frameworkVars, xcfVars
    <2> QED
      BY <1>2, <1>a, <1>c, <2>1, FailureKeepsInv DEF xcfVars
  <1>3. CASE signing = "team" /\ Goto("signProver")
    <2>1. at' = "signProver" /\ UNCHANGED <<slice, signing, version, exit>>
      BY <1>3 DEF Goto
    <2>2. IosTypeOK'
      BY <1>a, <1>c, <1>t, <2>1 DEF IosTypeOK, Steps, frameworkVars, xcfVars
    <2>3. \A t \in Targets : SliceInv(t)'
      BY <1>a, <1>t, <2>1, LaterStepKeepsSlices DEF AfterBuild, Assembly, Wired
    <2>4. RunInv'
      BY <1>3, <1>a, <1>t, <2>1
      DEF RunInv, Assembly, cargoVars, frameworkVars, xcfVars, Unsigned
    <2>5. ReleaseInv'
      BY <1>a, <2>1, StepKeepsRelease
    <2> QED
      BY <1>c, <2>2, <2>3, <2>4, <2>5 DEF IosInv
  <1> QED
    BY <1>1, <1>2, <1>3 DEF ChooseSigning

LEMMA SignProverKeepsInv ==
    ASSUME IosInv, SignProver
    PROVE  IosInv'
  <1>t. /\ IosTypeOK /\ CargoTypeOK /\ CargoInv /\ RunInv
        /\ \A t \in Targets : SliceInv(t)
    BY DEF IosInv, IosTypeOK
  <1>a. /\ at = "signProver" /\ exit = "none" /\ proverXcf = Unsigned(proverFw)
        /\ UNCHANGED <<cargoVars, frameworkVars, swift, devXcf>>
    BY <1>t DEF SignProver, RunInv, frameworkVars, xcfVars
  <1>c. CargoInv' /\ CargoTypeOK'
    BY <1>a, <1>t, CargoUnchanged
  <1>1. CASE proverXcf' = [proverXcf EXCEPT !.signed = TRUE] /\ Goto("signDev")
    <2>1. at' = "signDev" /\ UNCHANGED <<slice, signing, version>> /\ exit' = "none"
      BY <1>1, <1>a DEF Goto
    <2>2. proverXcf' = Signed(proverFw)
      BY <1>1, <1>a, SignedXcf
    <2>3. proverXcf' \in Xcf(ProverFw)
      BY <1>a, <2>2, FrameworksArePresent DEF Assembly, Signed
    <2>4. IosTypeOK'
      BY <1>a, <1>c, <1>t, <2>1, <2>3 DEF IosTypeOK, Steps, frameworkVars
    <2>5. \A t \in Targets : SliceInv(t)'
      BY <1>a, <1>t, <2>1, LaterStepKeepsSlices DEF AfterBuild, Assembly, Wired
    <2>6. devXcf = Unsigned(devFw)
      BY <1>a, <1>t DEF RunInv
    <2>7. RunInv'
      BY <1>a, <1>t, <2>1, <2>2, <2>6
      DEF RunInv, Assembly, cargoVars, frameworkVars, Unsigned, Signed
    <2>8. ReleaseInv'
      <3>1. ~devXcf'.signed
        BY <1>a, <2>6 DEF Unsigned
      <3>2. NoSkewedXcframework
        BY DEF IosInv, ReleaseInv
      <3> QED
        BY <1>a, <2>1, <3>1, <3>2
        DEF ReleaseInv, SuccessIsWhole, PackagedProverIsLinked,
            NoSkewedXcframework, SignedTogether
    <2> QED
      BY <1>c, <2>4, <2>5, <2>7, <2>8 DEF IosInv
  <1>2. CASE UNCHANGED proverXcf /\ Finish("failed")
    <2>1. IosTypeOK'
      BY <1>2, <1>a, <1>c, <1>t DEF IosTypeOK, Finish, Steps, frameworkVars
    <2> QED
      BY <1>2, <1>a, <1>c, <2>1, FailureKeepsInv
  <1> QED
    BY <1>1, <1>2 DEF SignProver

LEMMA SignDevKeepsInv ==
    ASSUME IosInv, SignDev
    PROVE  IosInv'
  <1>t. /\ IosTypeOK /\ CargoTypeOK /\ CargoInv /\ RunInv
        /\ \A t \in Targets : SliceInv(t)
    BY DEF IosInv, IosTypeOK
  <1>a. /\ at = "signDev" /\ signing = "team"
        /\ proverXcf = Signed(proverFw) /\ devXcf = Unsigned(devFw)
        /\ UNCHANGED <<cargoVars, frameworkVars, swift, proverXcf>>
    BY <1>t DEF SignDev, RunInv, frameworkVars, xcfVars
  <1>c. CargoInv' /\ CargoTypeOK'
    BY <1>a, <1>t, CargoUnchanged
  <1>1. CASE devXcf' = [devXcf EXCEPT !.signed = TRUE] /\ Finish("success")
    <2>1. at' = "idle" /\ UNCHANGED <<slice, signing, version>> /\ exit' = "success"
      BY <1>1 DEF Finish
    <2>2. devXcf' = Signed(devFw)
      BY <1>1, <1>a, SignedXcf
    <2>3. devXcf' \in Xcf(DevFw)
      BY <1>a, <2>2, FrameworksArePresent DEF Assembly, Signed
    <2>4. IosTypeOK'
      BY <1>a, <1>c, <1>t, <2>1, <2>3 DEF IosTypeOK, Steps, frameworkVars
    <2>5. \A t \in Targets : SliceInv(t)'
      BY <2>1
      DEF SliceInv, Built, Compiled, ProverWrapped, DevWrapped, Wired, AfterBuild,
          BuildLoop, Assembly
    <2>6. RunInv'
      BY <2>1 DEF RunInv, Assembly
    <2>7. ReleaseInv'
      BY <1>a, <2>1, <2>2, PresentRelease DEF Signed
    <2> QED
      BY <1>c, <2>4, <2>5, <2>6, <2>7 DEF IosInv
  <1>2. CASE UNCHANGED devXcf /\ Finish("failed")
    <2>1. IosTypeOK'
      BY <1>2, <1>a, <1>c, <1>t DEF IosTypeOK, Finish, Steps, frameworkVars
    <2> QED
      BY <1>2, <1>a, <1>c, <2>1, FailureKeepsInv
  <1> QED
    BY <1>1, <1>2 DEF SignDev

LEMMA EditKeepsInv ==
    ASSUME IosInv, Edit
    PROVE  IosInv'
  <1>t. IosTypeOK /\ CargoTypeOK /\ CargoInv /\ RunInv
    BY DEF IosInv, IosTypeOK
  <1>1. CargoInv' /\ UNCHANGED <<fetched, lib, clock>>
    BY <1>t, EditKeepsCargo DEF Edit
  <1>a. /\ at = "idle" /\ at' = "idle"
        /\ UNCHANGED <<runVars, frameworkVars, swift, xcfVars>>
    BY DEF Edit, runVars
  <1>2. IosTypeOK'
    BY <1>1, <1>a, <1>t DEF CargoInv, IosTypeOK, runVars, frameworkVars, xcfVars
  <1>3. \A t \in Targets : SliceInv(t)'
    BY <1>a
    DEF SliceInv, Built, Compiled, ProverWrapped, DevWrapped, Wired, AfterBuild,
        BuildLoop, Assembly
  <1>4. RunInv'
    BY <1>a DEF RunInv, Assembly
  <1>5. ReleaseInv'
    BY <1>1, <1>a
    DEF IosInv, ReleaseInv, SuccessIsWhole, PackagedProverIsLinked,
        NoSkewedXcframework, SignedTogether, runVars, xcfVars
  <1> QED
    BY <1>1, <1>2, <1>3, <1>4, <1>5 DEF IosInv

LEMMA StutterKeepsInv ==
    ASSUME IosInv, UNCHANGED vars
    PROVE  IosInv'
  <1>t. /\ IosTypeOK /\ CargoTypeOK /\ CargoInv /\ RunInv /\ ReleaseInv
        /\ \A t \in Targets : SliceInv(t)
    BY DEF IosInv, IosTypeOK
  <1>1. CargoInv' /\ CargoTypeOK'
    BY <1>t, CargoUnchanged DEF vars
  <1>2. IosTypeOK'
    BY <1>1, <1>t DEF IosTypeOK, vars, runVars, frameworkVars, xcfVars
  <1>3. \A t \in Targets : SliceInv(t)'
    BY <1>t, OtherSlice
    DEF vars, runVars, frameworkVars, Built, Compiled, ProverWrapped, DevWrapped,
        Wired
  <1>4. RunInv'
    BY <1>t DEF RunInv, vars, cargoVars, runVars, frameworkVars, xcfVars, Unsigned, Signed
  <1>5. ReleaseInv'
    BY <1>t
    DEF vars, cargoVars, runVars, xcfVars, ReleaseInv, SuccessIsWhole,
        PackagedProverIsLinked, NoSkewedXcframework, SignedTogether
  <1> QED
    BY <1>1, <1>2, <1>3, <1>4, <1>5 DEF IosInv

LEMMA IosNextInv == IosInv /\ [IosNext]_vars => IosInv'
  BY BeginKeepsInv, CompileKeepsInv, WrapProverKeepsInv, WrapDevKeepsInv,
     RelinkKeepsInv, GenerateBindingsKeepsInv, WireKeepsInv, CleanKeepsInv,
     AssembleProverKeepsInv, AssembleDevKeepsInv, ChooseSigningKeepsInv,
     SignProverKeepsInv, SignDevKeepsInv, EditKeepsInv, StutterKeepsInv
  DEF IosNext, RunStep

LEMMA IosSpecInv == IosSpec => []IosInv
  BY IosInitInv, IosNextInv, PTL DEF IosSpec

\* Every path under target/ holds what the code can have put there.
THEOREM IosTypeCorrect == IosSpec => []IosTypeOK
  BY IosSpecInv, PTL DEF IosInv

\* A run that exits with success leaves a release that belongs together,
\* whatever the runs before it failed at and left behind.
THEOREM ReleaseIsWhole == IosSpec => []SuccessIsWhole
  BY IosSpecInv, PTL DEF IosInv, ReleaseInv

\* No xcframework, of a failed run either, pairs a library with the bindings or
\* with the other slice of another revision.
THEOREM XcframeworkIsOfOneRevision == IosSpec => []NoSkewedXcframework
  BY IosSpecInv, PTL DEF IosInv, ReleaseInv

\* The crate's xcframework is signed only beside the signed prover of its run.
THEOREM SignedReleaseIsOfOneRun == IosSpec => []SignedTogether
  BY IosSpecInv, PTL DEF IosInv, ReleaseInv

\* The packaged prover is the linked one as long as the developer does not
\* return to a configuration that was left.
THEOREM ReleaseProverIsLinked == ~Returns => (IosSpec => []PackagedProverIsLinked)
  <1> SUFFICES ASSUME ~Returns
               PROVE  IosSpec => []PackagedProverIsLinked
    OBVIOUS
  <1>1. IosInv => PackagedProverIsLinked
    BY DEF IosInv, ReleaseInv
  <1> QED
    BY <1>1, IosSpecInv, PTL

-----------------------------------------------------------------------------
(***************************************************************************)
(* IosApp.                                                                 *)
(***************************************************************************)
Job == [statement : Statements, inputSize : Sizes \cup {NoSize}, key : Keys \cup {NoKey}]

Working == {"progress", "inputs", "prove", "verify", "returning"}

TaskIsShown ==
    /\ IsRunning <=> step # "none"
    /\ step = "throwing" => error \in {"failed", "cancelled"}

SelectionInv ==
    /\ statement \in Statements
    /\ inputSize \in Sizes \cup {NoSize}
    /\ job \in Job
    /\ step # "none" => job.statement = statement /\ job.inputSize = inputSize
    /\ ReportIsOfSelection

KeyInv ==
    /\ stored \in [SigningStatements -> SUBSET Keys]
    /\ \A s \in SigningStatements : \A k, l \in stored[s] : k = l
    /\ step \in {"load", "create"} => job.statement \in SigningStatements
    /\ step = "create" => stored[job.statement] = {}
    /\ step = "store" => job.statement = "mldsa"
    /\ step = "store" => job.key \in Keys
    /\ step \in Working /\ job.statement \in SigningStatements =>
            job.key \in stored[job.statement]
    /\ phase.kind = "finished" /\ phase.report.statement \in SigningStatements =>
            phase.report.key \in stored[phase.report.statement]

AppInv == TaskIsShown /\ SelectionInv /\ KeyInv

LEMMA AppInitInv == AppInit => AppInv
  BY DEF Job, AppInit, AppInv, TaskIsShown, IsRunning, Phase, SelectionInv, Statements,
         ReportIsOfSelection, KeyInv, SigningStatements, Working

\* What the user does.
LEMMA UserKeepsInv ==
    ASSUME AppInv,
           \/ \E s \in Statements : SelectStatement(s)
           \/ \E z \in Sizes : SelectSize(z)
           \/ Start \/ Cancel \/ Kill
    PROVE  AppInv'
  <1> USE DEF AppInv, TaskIsShown, IsRunning, Phase, SelectionInv,
              ReportIsOfSelection, KeyInv, Working
  <1>1. ASSUME NEW s \in Statements, SelectStatement(s)
        PROVE  AppInv'
    BY <1>1, FirstSizeIsSize DEF SelectStatement
  <1>2. ASSUME NEW z \in Sizes, SelectSize(z)
        PROVE  AppInv'
    BY <1>2 DEF SelectSize
  <1>3. CASE Start
    BY <1>3 DEF Start, Job
  <1>4. CASE Cancel
    BY <1>4 DEF Cancel
  <1>5. CASE Kill
    BY <1>5 DEF Kill, Job, Statements, SigningStatements
  <1> QED
    BY <1>1, <1>2, <1>3, <1>4, <1>5

LEMMA JobWithKey ==
    ASSUME job \in Job, NEW k \in Keys
    PROVE  /\ [job EXCEPT !.key = k] \in Job
           /\ [job EXCEPT !.key = k].statement = job.statement
           /\ [job EXCEPT !.key = k].inputSize = job.inputSize
           /\ [job EXCEPT !.key = k].key = k
  BY DEF Job

\* What the task does.
LEMMA TaskKeepsInv ==
    ASSUME AppInv, TaskStep \/ \E o \in Prove!Outcomes : EndProof(o)
    PROVE  AppInv'
  <1> USE DEF AppInv, TaskIsShown, IsRunning, Phase, SelectionInv,
              ReportIsOfSelection, KeyInv, Working, Quiet, Throw, GoTo
  <1>1. CASE Prepare
    BY <1>1 DEF Prepare, Statements
  <1>2. CASE LoadKey
    <2>1. CASE Throw("failed")
      BY <1>2, <2>1 DEF LoadKey
    <2>2. CASE stored[job.statement] = {} /\ GoTo("create")
      BY <1>2, <2>2 DEF LoadKey
    <2>3. ASSUME NEW k \in stored[job.statement],
                 job' = [job EXCEPT !.key = k], step' = "progress",
                 UNCHANGED <<run, error, stored>>
          PROVE  AppInv'
      <3>1. step = "load" /\ job.statement \in SigningStatements /\ k \in Keys
        BY <1>2 DEF LoadKey
      <3>2. /\ job' \in Job /\ job'.statement = job.statement
            /\ job'.inputSize = job.inputSize /\ job'.key = k
        BY <2>3, <3>1, JobWithKey
      <3> QED
        BY <1>2, <2>3, <3>1, <3>2 DEF LoadKey
    <2> QED
      BY <1>2, <2>1, <2>2, <2>3 DEF LoadKey
  <1>3. CASE CreateKey
    <2>1. CASE Throw("failed")
      BY <1>3, <2>1 DEF CreateKey
    <2>2. ASSUME NEW k \in Keys, job' = [job EXCEPT !.key = k],
                 UNCHANGED <<run, error>>,
                 \/ /\ job.statement = "rsa" /\ step' = "progress"
                    /\ stored' = [stored EXCEPT !["rsa"] = @ \cup {k}]
                 \/ job.statement # "rsa" /\ step' = "store" /\ UNCHANGED stored
          PROVE  AppInv'
      <3>1. /\ step = "create" /\ job.statement \in SigningStatements
            /\ stored[job.statement] = {}
        BY <1>3 DEF CreateKey
      <3>2. /\ job' \in Job /\ job'.statement = job.statement
            /\ job'.inputSize = job.inputSize /\ job'.key = k
        BY <2>2, JobWithKey
      <3>3. CASE job.statement = "rsa"
        <4>1. stored' = [stored EXCEPT !["rsa"] = {k}] /\ step' = "progress"
          BY <2>2, <3>1, <3>3
        <4> QED
          BY <1>3, <2>2, <3>1, <3>2, <3>3, <4>1 DEF CreateKey, SigningStatements
      <3>4. CASE job.statement # "rsa"
        BY <1>3, <2>2, <3>1, <3>2, <3>4 DEF CreateKey, SigningStatements
      <3> QED
        BY <3>3, <3>4
    <2> QED
      BY <1>3, <2>1, <2>2 DEF CreateKey
  <1>4. CASE StoreKey
    BY <1>4 DEF StoreKey, SigningStatements
  <1>5. CASE ShowProgress
    BY <1>5 DEF ShowProgress
  <1>6. CASE MakeInputs
    BY <1>6 DEF MakeInputs
  <1>7. ASSUME NEW o \in Prove!Outcomes, EndProof(o)
        PROVE  AppInv'
    BY <1>7 DEF EndProof
  <1>8. CASE VerifyProof
    BY <1>8 DEF VerifyProof
  <1>9. CASE FinishTask
    BY <1>9 DEF FinishTask
  <1>10. CASE Catch
    BY <1>10 DEF Catch
  <1> QED
    BY <1>1, <1>2, <1>3, <1>4, <1>5, <1>6, <1>7, <1>8, <1>9, <1>10 DEF TaskStep

LEMMA AppNextInv == AppInv /\ [AppNext]_iosVars => AppInv'
  <1>1. ASSUME AppInv, UNCHANGED iosVars
        PROVE  AppInv'
    BY <1>1
    DEF iosVars, AppInv, TaskIsShown, IsRunning, SelectionInv,
        ReportIsOfSelection, KeyInv
  <1> QED
    BY <1>1, UserKeepsInv, TaskKeepsInv DEF AppNext

LEMMA AppSpecInv == AppSpec => []AppInv
  BY AppInitInv, AppNextInv, PTL DEF AppSpec

\* A report on the screen is of the selection on the screen.
THEOREM ReportFollowsSelection == AppSpec => []ReportIsOfSelection
  BY AppSpecInv, PTL DEF AppInv, SelectionInv

\* A set without two different members has at most one.
LEMMA AtMostOne ==
    ASSUME NEW S, \A k, l \in S : k = l
    PROVE  Cardinality(S) <= 1
  <1>1. CASE S = {}
    BY <1>1, FS_EmptySet
  <1>2. ASSUME NEW k \in S
        PROVE  Cardinality(S) <= 1
    <2>1. S = {k}
      OBVIOUS
    <2> QED
      BY <2>1, FS_Singleton
  <1> QED
    BY <1>1, <1>2

\* A reported key is in the Keychain, which holds one key for an account at
\* most, wherever a store fails and whenever the app is killed.
THEOREM ReportedKeyIsInKeychain == AppSpec => []ReportedKeyIsKept
  <1>1. AppInv => ReportedKeyIsKept
    BY AtMostOne DEF AppInv, KeyInv, ReportedKeyIsKept
  <1> QED
    BY <1>1, AppSpecInv, PTL

\* No late step of a task writes over the outcome of its run.
THEOREM OutcomeIsNotOverwritten == AppSpec => OutcomeStays
  <1> DEFINE Stays == phase.kind \in Ended /\ phase' # phase
                            => phase'.kind \in {"idle", "preparing"}
  <1>1. AppInv /\ [AppNext]_iosVars => [Stays]_iosVars
    <2> SUFFICES ASSUME AppInv, AppNext, phase.kind \in Ended, phase' # phase
                 PROVE  phase'.kind \in {"idle", "preparing"}
      BY DEF iosVars
    <2>1. ~IsRunning /\ step = "none"
      BY DEF AppInv, TaskIsShown, IsRunning, Ended
    <2>2. ~TaskStep /\ ~Cancel /\ \A o \in Prove!Outcomes : ~EndProof(o)
      BY <2>1
      DEF TaskStep, Prepare, LoadKey, CreateKey, StoreKey, ShowProgress,
          MakeInputs, VerifyProof, FinishTask, Catch, Cancel, EndProof
    <2> QED
      BY <2>2 DEF AppNext, SelectStatement, SelectSize, Start, Kill, Phase
  <1>2. AppSpec => [][Stays]_iosVars
    BY <1>1, AppSpecInv, PTL DEF AppSpec
  <1> QED
    BY <1>2 DEF OutcomeStays
=============================================================================
