---------------------------- MODULE AndroidProofs ---------------------------
(***************************************************************************)
(* Proofs about the Android side: the archive that android-build hands     *)
(* over, and the example app.  They share no state; a theorem is about     *)
(* one of them.                                                            *)
(*                                                                         *)
(* AndroidBuild, for any configurations, any bound on the revisions and    *)
(* any number of runs, each of which may fail anywhere.  What a run finds  *)
(* in the module's directories may be of any earlier run.  The invariant   *)
(* says for each step what the present run has written by then: a file is  *)
(* known only from the step that wrote it to the next reset, and the       *)
(* archive, which outlives runs, only through the file that Gradle packed. *)
(*                                                                         *)
(* AndroidApp, for any number of activities, of proofs in a run and of     *)
(* keys.  A job begins with none of its proofs asked to stop, unless its   *)
(* activity is destroyed (ViewsInv); that is why a job that is shown on    *)
(* the screen reaches its finally.  While there is one activity, what a    *)
(* job has found in the Keystore is still so when it acts on it            *)
(* (KeystoreInv).                                                          *)
(***************************************************************************)
EXTENDS AndroidBuild, AndroidApp, CargoTargetProofs

-----------------------------------------------------------------------------
(***************************************************************************)
(* AndroidBuild.                                                           *)
(***************************************************************************)
\* The steps at and after which the run has written a file.
Compiled == {"copyLib", "copyProver", "bindings", "inject", "gradle", "copyAar"}
LibCopied == {"copyProver", "bindings", "inject", "gradle", "copyAar"}
ProverCopied == {"bindings", "inject", "gradle", "copyAar"}

Bindings(p) == [revision |-> lib[Abi].revision, patched |-> p]

\* The prover of an archive is the one its library was linked with.
Linked(archive) == ~Returns => archive.prover = archive.lib.config

Whole(archive) ==
    archive.kotlin = [revision |-> archive.lib.revision, patched |-> TRUE]

RunInv ==
    /\ at # "idle" => exit = "none"
    /\ at \in Compiled =>
            /\ lib[Abi] = [revision |-> revision, config |-> manifest]
            /\ IsFetched(Abi, manifest)
    /\ at \in LibCopied => jniLib = lib[Abi]
    /\ at \in ProverCopied => jniProver \in Configs /\ (~Returns => jniProver = manifest)
    /\ at = "inject" => kotlin = Bindings(FALSE)
    /\ at \in {"gradle", "copyAar"} => kotlin = Bindings(TRUE)
    /\ at = "copyAar" =>
            gradleAar = [lib |-> jniLib, prover |-> jniProver, kotlin |-> kotlin]

ArchiveInv ==
    /\ aar \in Aar => Whole(aar) /\ Linked(aar)
    /\ exit = "success" => aar \in Aar /\ aar.lib = lib[Abi]

AndroidInv == AndroidTypeOK /\ CargoInv /\ RunInv /\ ArchiveInv

LEMMA AndroidInitInv == AndroidInit => AndroidInv
  <1> SUFFICES ASSUME AndroidInit
               PROVE  AndroidInv
    OBVIOUS
  <1>1. CargoInv
    BY CargoInitInv DEF AndroidInit
  <1>2. AndroidTypeOK
    BY <1>1 DEF AndroidInit, AndroidTypeOK, CargoInv, Steps
  <1>3. RunInv /\ ArchiveInv
    BY NoFileIsNoAar
    DEF AndroidInit, RunInv, ArchiveInv, Compiled, LibCopied, ProverCopied
  <1> QED
    BY <1>1, <1>2, <1>3 DEF AndroidInv

\* What the run has compiled and generated is of the present revision.
LEMMA CompiledLib ==
    ASSUME AndroidInv, at \in Compiled
    PROVE  lib[Abi] \in Lib /\ lib[Abi].revision \in 0 .. MaxRevision
  <1>1. lib[Abi] = [revision |-> revision, config |-> manifest]
    BY DEF AndroidInv, RunInv
  <1>2. revision \in 0 .. MaxRevision /\ manifest \in Configs
    BY DEF AndroidInv, CargoInv, CargoTypeOK
  <1> QED
    BY <1>1, <1>2 DEF Lib

LEMMA BindingsAreKotlin ==
    ASSUME AndroidInv, at \in Compiled, NEW p \in BOOLEAN
    PROVE  Bindings(p) \in Kotlin
  BY CompiledLib DEF Bindings, Kotlin

\* The load call is inserted into the source, whose revision stays.
LEMMA PatchedSource ==
    ASSUME NEW r, NEW k, k = [revision |-> r, patched |-> FALSE]
    PROVE  [k EXCEPT !.patched = TRUE] \in [revision : {r}, patched : {TRUE}]
  OBVIOUS

LEMMA PatchedIsUnique ==
    ASSUME NEW r, NEW k \in [revision : {r}, patched : {TRUE}]
    PROVE  k = [revision |-> r, patched |-> TRUE]
  OBVIOUS

LEMMA PatchedBindings ==
    ASSUME kotlin = Bindings(FALSE)
    PROVE  [kotlin EXCEPT !.patched = TRUE] = Bindings(TRUE)
  <1> DEFINE r == lib[Abi].revision
  <1>1. kotlin = [revision |-> r, patched |-> FALSE]
    BY DEF Bindings
  <1> HIDE DEF r
  <1>2. [kotlin EXCEPT !.patched = TRUE] \in [revision : {r}, patched : {TRUE}]
    BY ONLY <1>1, PatchedSource
  <1>3. [kotlin EXCEPT !.patched = TRUE] = [revision |-> r, patched |-> TRUE]
    BY ONLY <1>2, PatchedIsUnique
  <1> QED
    BY <1>3 DEF Bindings, r

LEMMA ModuleIsComplete ==
    ASSUME AndroidInv, at \in {"gradle", "copyAar"}
    PROVE  [lib |-> jniLib, prover |-> jniProver, kotlin |-> kotlin] \in Aar
  <1>1. jniLib \in Lib
    BY CompiledLib DEF AndroidInv, RunInv, Compiled, LibCopied
  <1>2. jniProver \in Configs
    BY DEF AndroidInv, RunInv, ProverCopied
  <1>3. kotlin \in Kotlin
    BY BindingsAreKotlin DEF AndroidInv, RunInv, Compiled
  <1> QED
    BY <1>1, <1>2, <1>3 DEF Aar

LEMMA AndroidNextInv == AndroidInv /\ [AndroidNext]_vars => AndroidInv'
  <1> SUFFICES ASSUME AndroidInv, [AndroidNext]_vars
               PROVE  AndroidInv'
    OBVIOUS
  <1>t. AndroidTypeOK /\ CargoTypeOK /\ CargoInv /\ RunInv /\ ArchiveInv
    BY DEF AndroidInv, AndroidTypeOK
  <1>l. Abi \in Targets
    BY OneAbi DEF Abi
  <1>c. ASSUME UNCHANGED cargoVars
        PROVE  CargoInv'
    BY <1>t, <1>c
    DEF cargoVars, CargoInv, CargoTypeOK, IsFetched, NewestExists,
        ManifestIsNewest
  <1> USE DEF AndroidTypeOK, Steps, RunInv, ArchiveInv, Compiled, LibCopied,
              ProverCopied, Bindings, Goto, Finish
  <1>1. CASE Begin
    <2>1. CargoInv'
      BY <1>1, <1>c DEF Begin
    <2> QED
      BY <1>1, <1>t, <2>1 DEF Begin, moduleVars, cargoVars, CargoInv, AndroidInv
  <1>2. CASE ResetJniLibs
    <2>1. CargoInv'
      BY <1>2, <1>c DEF ResetJniLibs
    <2> QED
      BY <1>2, <1>t, <2>1 DEF ResetJniLibs, cargoVars, CargoInv, AndroidInv
  <1>3. CASE ResetKotlin
    <2>1. CargoInv'
      BY <1>3, <1>c DEF ResetKotlin
    <2> QED
      BY <1>3, <1>t, <2>1 DEF ResetKotlin, cargoVars, CargoInv, AndroidInv
  <1>4. CASE CompileAbi
    <2>1. CASE Compile(Abi)
      BY <1>4, <1>t, <1>l, <2>1, CompileKeepsCargo
      DEF CompileAbi, moduleVars, CargoInv, AndroidInv
    <2>2. CASE CompileFails(Abi) /\ Finish("failed")
      BY <1>4, <1>t, <1>l, <2>2, CompileFailsKeepsCargo
      DEF CompileAbi, moduleVars, CargoInv, AndroidInv
    <2> QED
      BY <1>4, <2>1, <2>2 DEF CompileAbi
  <1>5. CASE CopyLib
    <2>1. CargoInv'
      BY <1>5, <1>c DEF CopyLib
    <2>2. [revision |-> revision, config |-> manifest] \in Lib
      BY <1>t DEF CargoTypeOK, Lib
    <2> QED
      BY <1>5, <1>t, <2>1, <2>2
      DEF CopyLib, cargoVars, CargoInv, AndroidInv, IsFetched
  <1>6. CASE CopyProver
    <2>1. CargoInv'
      BY <1>6, <1>c DEF CopyProver
    <2>2. IsFetched(Abi, manifest)
      BY <1>6, <1>t DEF CopyProver
    <2>3. FoundProver(Abi) \in Configs /\ (~Returns => FoundProver(Abi) = manifest)
      BY <1>l, <1>t, <2>2, FoundProverIsCandidate, FoundProverIsOfManifest
    <2> QED
      BY <1>6, <1>t, <2>1, <2>3
      DEF CopyProver, cargoVars, CargoInv, AndroidInv, IsFetched
  <1>7. CASE GenerateBindings
    <2>1. CargoInv'
      BY <1>7, <1>c DEF GenerateBindings
    <2>2. [revision |-> lib[Abi].revision, patched |-> FALSE] \in Kotlin
      BY <1>7, <1>t DEF GenerateBindings, CargoTypeOK, Kotlin
    <2> QED
      BY <1>7, <1>t, <2>1, <2>2
      DEF GenerateBindings, cargoVars, CargoInv, AndroidInv, IsFetched
  <1>8. CASE InjectLoadLibrary
    <2>1. CargoInv'
      BY <1>8, <1>c DEF InjectLoadLibrary
    <2>2. [kotlin EXCEPT !.patched = TRUE] = Bindings(TRUE)
      BY <1>8, <1>t, PatchedBindings DEF InjectLoadLibrary
    <2>3. Bindings(TRUE) \in Kotlin
      BY <1>8, BindingsAreKotlin DEF InjectLoadLibrary
    <2> QED
      BY <1>8, <1>t, <2>1, <2>2, <2>3
      DEF InjectLoadLibrary, cargoVars, CargoInv, AndroidInv, IsFetched
  <1>9. CASE GradleAssemble
    <2>1. CargoInv'
      BY <1>9, <1>c DEF GradleAssemble
    <2>2. [lib |-> jniLib, prover |-> jniProver, kotlin |-> kotlin] \in Aar
      BY <1>9, ModuleIsComplete DEF GradleAssemble
    <2> QED
      BY <1>9, <1>t, <2>1, <2>2
      DEF GradleAssemble, cargoVars, moduleVars, CargoInv, AndroidInv, IsFetched
  <1>10. CASE CopyAar
    <2>1. CargoInv'
      BY <1>10, <1>c DEF CopyAar
    <2>2. CASE aar' = gradleAar /\ Finish("success")
      <3>1. gradleAar = [lib |-> jniLib, prover |-> jniProver, kotlin |-> kotlin]
        BY <1>10, <1>t DEF CopyAar
      <3>2. gradleAar \in Aar /\ gradleAar.lib = lib[Abi]
        BY <1>10, <1>t, <3>1, ModuleIsComplete DEF CopyAar
      <3>3. Whole(gradleAar) /\ Linked(gradleAar)
        BY <1>10, <1>t, <3>1 DEF CopyAar, Whole, Linked
      <3> QED
        BY <1>10, <1>t, <2>1, <2>2, <3>2, <3>3
        DEF CopyAar, cargoVars, moduleVars, CargoInv, AndroidInv, Whole, Linked
    <2>3. CASE aar' \in {aar, Partial} /\ Finish("failed")
      BY <1>10, <1>t, <2>1, <2>3, NoFileIsNoAar
      DEF CopyAar, cargoVars, moduleVars, CargoInv, AndroidInv, Whole, Linked
    <2> QED
      BY <1>10, <2>2, <2>3 DEF CopyAar
  <1>11. CASE Edit
    <2>1. CargoInv' /\ UNCHANGED <<fetched, lib, clock>>
      BY <1>11, <1>t, EditKeepsCargo DEF Edit
    <2> QED
      BY <1>11, <1>t, <2>1 DEF Edit, moduleVars, CargoInv, AndroidInv
  <1>12. CASE UNCHANGED vars
    <2>1. CargoInv'
      BY <1>12, <1>c DEF vars
    <2> QED
      BY <1>12, <1>t, <2>1
      DEF vars, cargoVars, moduleVars, CargoInv, AndroidInv, IsFetched
  <1> QED
    BY <1>1, <1>2, <1>3, <1>4, <1>5, <1>6, <1>7, <1>8, <1>9, <1>10, <1>11, <1>12
    DEF AndroidNext, RunStep

LEMMA AndroidSpecInv == AndroidSpec => []AndroidInv
  BY AndroidInitInv, AndroidNextInv, PTL DEF AndroidSpec

\* Every path the run reads or writes holds what the code can have put there.
THEOREM AndroidTypeCorrect == AndroidSpec => []AndroidTypeOK
  BY AndroidSpecInv, PTL DEF AndroidInv

\* The archive's bindings are of its library's revision and load the prover
\* first, whatever failed runs left in the module's directories.
THEOREM ArchiveIsWhole == AndroidSpec => []AarIsWhole
  <1>1. AndroidInv => AarIsWhole
    BY DEF AndroidInv, ArchiveInv, AarIsWhole, Whole
  <1> QED
    BY <1>1, AndroidSpecInv, PTL

\* After a success the archive is of that run.
THEOREM ArchiveIsCurrent == AndroidSpec => []SuccessIsCurrent
  <1>1. AndroidInv => SuccessIsCurrent
    BY DEF AndroidInv, ArchiveInv, SuccessIsCurrent
  <1> QED
    BY <1>1, AndroidSpecInv, PTL

\* The archive's prover is the linked one as long as the developer does not
\* return to a configuration that was left.
THEOREM ArchiveProverIsLinked == ~Returns => (AndroidSpec => []PackagedProverIsLinked)
  <1> SUFFICES ASSUME ~Returns
               PROVE  AndroidSpec => []PackagedProverIsLinked
    OBVIOUS
  <1>1. AndroidInv => PackagedProverIsLinked
    BY DEF AndroidInv, ArchiveInv, PackagedProverIsLinked, Linked
  <1> QED
    BY <1>1, AndroidSpecInv, PTL

-----------------------------------------------------------------------------
(***************************************************************************)
(* AndroidApp: the views and the job of an activity.                       *)
(***************************************************************************)
Errors == {"none", "failed", "cancelled"}

AndroidJob == [statement : Statements, key : Keys \cup {NoKey}]

\* The views and the job of every activity, and what was asked to stop.
ViewsInv ==
    /\ created \in Nat \ {0}
    /\ destroyed \subseteq 1..created
    /\ DOMAIN status = Activities
    /\ running \in [Activities -> BOOLEAN]
    /\ DOMAIN step = Activities
    /\ error \in [Activities -> Errors]
    /\ \A a \in Activities : a > created => ~running[a]
    /\ \A a \in Activities :
            step[a] \in {"none", "launched"} /\ a \notin destroyed =>
                asked \cap ProofsOf(a) = {}
    /\ JobIsShown

\* The jobs of the activities and the keys under the aliases.
KeystoreInv ==
    /\ statement \in [Activities -> Statements]
    /\ job \in [Activities -> AndroidJob]
    /\ keystore \in [SigningStatements -> Keys \cup {NoKey}]
    /\ \A a \in Activities :
            step[a] \in {"load", "generate"} => job[a].statement \in SigningStatements
    /\ \A a \in Activities :
            created = 1 /\ step[a] = "generate" => keystore[job[a].statement] = NoKey

LEMMA InitViews == AppInit => ViewsInv
  <1> SUFFICES ASSUME AppInit
               PROVE  ViewsInv
    OBVIOUS
  <1>1. asked = {}
    BY DEF AppInit, Prove!AbsInit
  <1> QED
    BY <1>1
    DEF AppInit, ViewsInv, Activities, ProofsOf, Errors, JobIsShown

\* No activity is without proofs, and none has another's.
LEMMA ProofsApart ==
    /\ \A a : ProofsOf(a) # {} /\ ProofsOf(a) = {a} \X (1..Runs)
    /\ \A a, b : a # b => ProofsOf(a) \cap ProofsOf(b) = {}
  <1>1. \A a : ProofsOf(a) = {a} \X (1..Runs)
    BY DEF ProofsOf, Proofs
  <1>2. 1 \in 1..Runs
    BY SomeRuns
  <1>3. \A a : <<a, 1>> \in ProofsOf(a)
    BY <1>1, <1>2
  <1>4. ASSUME NEW a, NEW b, a # b
        PROVE  ProofsOf(a) \cap ProofsOf(b) = {}
    <2>1. \A p \in ProofsOf(a) : p[1] = a
      BY <1>1
    <2>2. \A p \in ProofsOf(b) : p[1] = b
      BY <1>1
    <2> QED
      BY <1>4, <2>1, <2>2
  <1> QED
    BY <1>1, <1>3, <1>4

\* A step of the job that stays within its block.
LEMMA BlockKeepsViews ==
    ASSUME ViewsInv, NEW a \in Activities, NEW s,
           step[a] # "none", s \notin {"none", "launched"},
           step' = [step EXCEPT ![a] = s],
           UNCHANGED <<created, destroyed, running, asked>>,
           DOMAIN status' = DOMAIN status, error' \in [Activities -> Errors]
    PROVE  ViewsInv'
  BY DEF ViewsInv, JobIsShown, Activities, ProofsOf, Proofs, IsCancelled

LEMMA ScreenKeepsViews ==
    ASSUME ViewsInv,
           \/ \E a \in Activities, s \in Statements : Select(a, s)
           \/ \E a \in Activities : Start(a) \/ Cancel(a) \/ Destroy(a)
           \/ Create
    PROVE  ViewsInv'
  <1> USE DEF ViewsInv, JobIsShown, Activities, OnScreen, IsCancelled, Errors
  <1>1. ASSUME NEW a \in Activities, NEW s \in Statements, Select(a, s)
        PROVE  ViewsInv'
    BY <1>1 DEF Select, ProofsOf, Proofs
  <1>2. ASSUME NEW a \in Activities, Start(a)
        PROVE  ViewsInv'
    BY <1>2 DEF Start, screen, ProofsOf, Proofs
  <1>3. ASSUME NEW a \in Activities, Cancel(a)
        PROVE  ViewsInv'
    <2>1. /\ asked' = asked \cup ProofsOf(a)
          /\ step[a] \notin {"none", "launched"}
      BY <1>3 DEF Cancel, Prove!Ask, ProofsOf
    <2>2. \A b \in Activities : b # a => asked' \cap ProofsOf(b) = asked \cap ProofsOf(b)
      BY <2>1, ProofsApart
    <2> QED
      BY <1>3, <2>1, <2>2 DEF Cancel, ProofsOf, Proofs
  <1>4. ASSUME NEW a \in Activities, Destroy(a)
        PROVE  ViewsInv'
    <2>1. /\ asked' = asked \cup ProofsOf(a) /\ destroyed' = destroyed \cup {a}
          /\ a \in 1..created
      BY <1>4 DEF Destroy, IsCreated, Prove!Ask, ProofsOf
    <2>2. \A b \in Activities : b # a => asked' \cap ProofsOf(b) = asked \cap ProofsOf(b)
      BY <2>1, ProofsApart
    <2> QED
      BY <1>4, <2>1, <2>2 DEF Destroy, ProofsOf, Proofs
  <1>5. CASE Create
    BY <1>5 DEF Create, ProofsOf, Proofs
  <1> QED
    BY <1>1, <1>2, <1>3, <1>4, <1>5

\* Only a job that has begun, or whose activity is destroyed, can be cancelled,
\* so that one that is shown on the screen goes on to its finally.
LEMMA JobKeepsViews ==
    ASSUME ViewsInv, NEW a \in Activities,
           JobStep(a) \/ \E o \in Prove!Outcomes : EndProof(a, o)
    PROVE  ViewsInv'
  <1> USE DEF Quiet, GoTo, Throw
  <1>1. DOMAIN status = Activities /\ error \in [Activities -> Errors]
    BY DEF ViewsInv
  <1>2. \A e \in Errors : [error EXCEPT ![a] = e] \in [Activities -> Errors]
    BY <1>1
  <1>3. {"failed", "cancelled"} \subseteq Errors
    BY DEF Errors
  <1>4. CASE BeginJob(a)
    <2>1. CASE IsCancelled(a) /\ GoTo(a, "none")
      <3>1. step[a] = "launched" /\ ProofsOf(a) \subseteq asked
        BY <1>4, <2>1 DEF BeginJob, IsCancelled
      <3>2. asked \cap ProofsOf(a) # {}
        BY <3>1, ProofsApart
      <3>3. a \in destroyed
        BY <3>1, <3>2 DEF ViewsInv
      <3> QED
        BY <1>4, <2>1, <3>3
        DEF BeginJob, ViewsInv, JobIsShown, Activities, ProofsOf, Proofs, IsCancelled
    <2>2. CASE ~IsCancelled(a)
      BY <1>1, <1>2, <1>3, <1>4, <2>2, BlockKeepsViews DEF BeginJob
    <2> QED
      BY <1>4, <2>1, <2>2 DEF BeginJob
  <1>5. CASE OpenSession(a)
    BY <1>1, <1>2, <1>3, <1>5, BlockKeepsViews DEF OpenSession
  <1>6. CASE LoadKey(a)
    BY <1>1, <1>2, <1>3, <1>6, BlockKeepsViews DEF LoadKey
  <1>7. CASE GenerateKey(a)
    BY <1>1, <1>2, <1>3, <1>7, BlockKeepsViews DEF GenerateKey
  <1>8. CASE ShowProgress(a)
    BY <1>1, <1>2, <1>3, <1>8, BlockKeepsViews DEF ShowProgress, screen
  <1>9. CASE MakeInputs(a)
    BY <1>1, <1>2, <1>3, <1>9, BlockKeepsViews DEF MakeInputs
  <1>10. CASE CallProve(a)
    BY <1>1, <1>2, <1>3, <1>10, BlockKeepsViews DEF CallProve, screen
  <1>11. ASSUME NEW o \in Prove!Outcomes, EndProof(a, o)
         PROVE  ViewsInv'
    <2>1. UNCHANGED asked
      BY <1>11 DEF EndProof, Prove!End
    <2> QED
      BY <1>1, <1>2, <1>3, <1>11, <2>1, BlockKeepsViews DEF EndProof, screen
  <1>12. CASE VerifyProof(a)
    BY <1>1, <1>2, <1>3, <1>12, BlockKeepsViews DEF VerifyProof
  <1>13. CASE FinishJob(a)
    <2>1. /\ asked' = asked \ ProofsOf(a) /\ step' = [step EXCEPT ![a] = "none"]
          /\ running' = [running EXCEPT ![a] = FALSE]
          /\ error' \in [Activities -> Errors] /\ DOMAIN status' = Activities
          /\ UNCHANGED <<created, destroyed>>
      BY <1>13 DEF FinishJob, ViewsInv, screen, ProofsOf, Errors
    <2>2. \A b \in Activities : b # a => asked' \cap ProofsOf(b) = asked \cap ProofsOf(b)
      BY <2>1, ProofsApart
    <2>3. \A b \in Activities :
            b # a /\ ProofsOf(b) \subseteq asked => ProofsOf(b) \subseteq asked'
      BY <2>1, ProofsApart
    <2> QED
      BY <2>1, <2>2, <2>3
      DEF ViewsInv, JobIsShown, Activities, ProofsOf, IsCancelled
  <1> QED
    BY <1>4, <1>5, <1>6, <1>7, <1>8, <1>9, <1>10, <1>11, <1>12, <1>13
    DEF JobStep

LEMMA NextViews == ViewsInv /\ [AppNext]_androidVars => ViewsInv'
  <1>1. ASSUME ViewsInv, UNCHANGED androidVars
        PROVE  ViewsInv'
    BY <1>1
    DEF androidVars, ViewsInv, JobIsShown, ProofsOf, Proofs, IsCancelled, Activities
  <1> QED
    BY <1>1, ScreenKeepsViews, JobKeepsViews DEF AppNext, Activities

LEMMA SpecViews == AppSpec => []ViewsInv
  BY InitViews, NextViews, PTL DEF AppSpec

\* An activity on the screen shows a run exactly while it has a job, and the
\* job of a destroyed one is cancelled, for any number of activities.
THEOREM ViewsFollowJob == AppSpec => []JobIsShown
  BY SpecViews, PTL DEF ViewsInv

\* No report of a cancelled run is shown, wherever the cancel finds the job.
THEOREM CancelledRunIsNotReported == AppSpec => NoReportAfterCancel
  <1> DEFINE Kept ==
        \A a \in Activities :
            IsCancelled(a) /\ status'[a] = "report" => status[a] = "report"
  <1>1. ASSUME ViewsInv, AppNext
        PROVE  Kept
    <2> SUFFICES ASSUME NEW b \in Activities, IsCancelled(b),
                        status'[b] = "report", status[b] # "report"
                 PROVE  FALSE
      OBVIOUS
    <2>1. DOMAIN status = Activities /\ error \in [Activities -> Errors]
      BY <1>1 DEF ViewsInv
    <2>2. ASSUME NEW a \in Activities, NEW s \in Statements, Select(a, s)
          PROVE  FALSE
      BY <2>1, <2>2 DEF Select
    <2>3. ASSUME NEW a \in Activities, Start(a)
          PROVE  FALSE
      BY <2>1, <2>3 DEF Start
    <2>4. ASSUME NEW a \in Activities, ShowProgress(a)
          PROVE  FALSE
      BY <2>1, <2>4 DEF ShowProgress
    <2>5. ASSUME NEW a \in Activities, FinishJob(a)
          PROVE  FALSE
      <3>1. PICK shown \in ResumedWith(a) :
                status' = [status EXCEPT ![a] = shown]
        BY <2>5 DEF FinishJob
      <3>2. b = a /\ shown = "report"
        BY <2>1, <3>1
      <3> QED
        BY <2>1, <3>1, <3>2 DEF ResumedWith, Errors
    <2>6. UNCHANGED status => FALSE
      OBVIOUS
    <2>7. ASSUME NEW a \in Activities, Quiet(a)
          PROVE  FALSE
      BY <2>6, <2>7 DEF Quiet
    <2>8. ASSUME NEW a \in Activities, JobStep(a)
          PROVE  FALSE
      BY <2>4, <2>5, <2>6, <2>7, <2>8
      DEF JobStep, BeginJob, OpenSession, LoadKey, GenerateKey, MakeInputs,
          CallProve, VerifyProof
    <2> QED
      BY <1>1, <2>2, <2>3, <2>6, <2>8
      DEF AppNext, Cancel, Destroy, Create, EndProof, Activities
  <1>2. ViewsInv /\ [AppNext]_androidVars => [Kept]_androidVars
    BY <1>1
  <1>3. AppSpec => [][Kept]_androidVars
    BY <1>2, SpecViews, PTL DEF AppSpec
  <1> QED
    BY <1>3 DEF NoReportAfterCancel, Activities

-----------------------------------------------------------------------------
(***************************************************************************)
(* AndroidApp: the keys in the Keystore.                                   *)
(***************************************************************************)
LEMMA InitKeystore == AppInit => KeystoreInv
  BY DEF AppInit, NewJob, SigningStatements, KeystoreInv, Activities, AndroidJob

\* While there is one activity, no other has a job.
LEMMA OneJob ==
    ASSUME ViewsInv, created = 1, NEW a \in Activities, step[a] # "none"
    PROVE  a = 1
  BY SomeActivities DEF ViewsInv, Activities, JobIsShown

\* A step that leaves the Keystore and the jobs alone.
LEMMA QuietKeepsKeystore ==
    ASSUME ViewsInv, KeystoreInv, NEW a \in Activities, NEW s,
           step' = [step EXCEPT ![a] = s], s \notin {"load", "generate"},
           UNCHANGED <<created, statement, job, keystore>>
    PROVE  KeystoreInv'
  BY DEF ViewsInv, KeystoreInv

LEMMA ScreenKeepsKeystore ==
    ASSUME ViewsInv, KeystoreInv,
           \/ \E a \in Activities, s \in Statements : Select(a, s)
           \/ \E a \in Activities : Start(a) \/ Cancel(a) \/ Destroy(a)
           \/ Create
    PROVE  KeystoreInv'
  <1> USE DEF KeystoreInv
  <1>1. ASSUME NEW a \in Activities, NEW s \in Statements, Select(a, s)
        PROVE  KeystoreInv'
    BY <1>1 DEF Select
  <1>2. ASSUME NEW a \in Activities, Start(a)
        PROVE  KeystoreInv'
    BY <1>2 DEF Start, screen, NewJob, AndroidJob, ViewsInv
  <1>3. ASSUME NEW a \in Activities, Cancel(a) \/ Destroy(a)
        PROVE  KeystoreInv'
    BY <1>3 DEF Cancel, Destroy
  <1>4. CASE Create
    <2>1. created' # 1
      BY <1>4 DEF Create, ViewsInv
    <2>2. statement' \in [Activities -> Statements]
      BY <1>4 DEF Create
    <2> QED
      BY <1>4, <2>1, <2>2 DEF Create
  <1> QED
    BY <1>1, <1>2, <1>3, <1>4

LEMMA JobOf ==
    ASSUME KeystoreInv, NEW a \in Activities, NEW k \in Keys \cup {NoKey}
    PROVE  /\ [job EXCEPT ![a].key = k] \in [Activities -> AndroidJob]
           /\ \A b \in Activities :
                [job EXCEPT ![a].key = k][b].statement = job[b].statement
  BY DEF KeystoreInv, AndroidJob

LEMMA JobKeepsKeystore ==
    ASSUME ViewsInv, KeystoreInv, NEW a \in Activities,
           JobStep(a) \/ \E o \in Prove!Outcomes : EndProof(a, o)
    PROVE  KeystoreInv'
  <1> USE DEF Quiet, GoTo, Throw
  <1>1. CASE BeginJob(a)
    BY <1>1, QuietKeepsKeystore DEF BeginJob
  <1>2. CASE OpenSession(a)
    <2>1. CASE GoTo(a, "load") /\ job[a].statement \in SigningStatements
      BY <1>2, <2>1
      DEF OpenSession, KeystoreInv, ViewsInv, SigningStatements
    <2> QED
      BY <1>2, <2>1, QuietKeepsKeystore DEF OpenSession
  <1>3. CASE LoadKey(a)
    <2> DEFINE k == keystore[job[a].statement]
    <2>0. step[a] = "load" /\ UNCHANGED <<created, statement>>
      BY <1>3 DEF LoadKey
    <2>1. CASE Throw(a, "failed")
      BY <2>0, <2>1, QuietKeepsKeystore
    <2>2. CASE k = NoKey /\ GoTo(a, "generate")
      BY <1>3, <2>2 DEF LoadKey, KeystoreInv, ViewsInv
    <2>3. CASE /\ job' = [job EXCEPT ![a].key = k]
               /\ step' = [step EXCEPT ![a] = "progress"]
               /\ UNCHANGED <<run, error, keystore>>
      <3>1. k \in Keys \cup {NoKey}
        BY <2>0 DEF KeystoreInv
      <3>2. /\ job' \in [Activities -> AndroidJob]
            /\ \A b \in Activities : job'[b].statement = job[b].statement
        BY <2>3, <3>1, JobOf
      <3> QED
        BY <2>0, <2>3, <3>2 DEF KeystoreInv, ViewsInv
    <2> QED
      BY <1>3, <2>1, <2>2, <2>3 DEF LoadKey
  <1>4. CASE GenerateKey(a)
    <2>0. step[a] = "generate" /\ UNCHANGED <<created, statement>>
      BY <1>4 DEF GenerateKey
    <2>1. CASE Throw(a, "failed")
      <3>1. /\ step' = [step EXCEPT ![a] = "returning"]
            /\ UNCHANGED <<job, keystore>>
        BY <2>1
      <3> QED
        BY <2>0, <3>1 DEF KeystoreInv, ViewsInv
    <2>2. ASSUME NEW k \in Keys,
                 job' = [job EXCEPT ![a].key = k],
                 \/ keystore' = [keystore EXCEPT !["rsa"] = k]
                 \/ keystore' = [keystore EXCEPT !["mldsa"] = k]
                 \/ keystore' = keystore,
                 step' = [step EXCEPT ![a] = "progress"]
          PROVE  KeystoreInv'
      <3>1. /\ job' \in [Activities -> AndroidJob]
            /\ \A b \in Activities : job'[b].statement = job[b].statement
        BY <2>2, JobOf
      <3>2. keystore' \in [SigningStatements -> Keys \cup {NoKey}]
        BY <2>2 DEF KeystoreInv
      <3>3. created = 1 => \A b \in Activities : step'[b] # "generate"
        BY <2>0, <2>2, OneJob DEF ViewsInv
      <3> QED
        BY <2>0, <2>2, <3>1, <3>2, <3>3 DEF KeystoreInv, ViewsInv
    <2>3. ASSUME NEW k \in Keys,
                 \/ keystore' = [keystore EXCEPT !["rsa"] = k]
                 \/ keystore' = [keystore EXCEPT !["mldsa"] = k]
                 \/ keystore' = keystore,
                 step' = [step EXCEPT ![a] = "returning"],
                 UNCHANGED job
          PROVE  KeystoreInv'
      <3>1. keystore' \in [SigningStatements -> Keys \cup {NoKey}]
        BY <2>3 DEF KeystoreInv
      <3>2. created = 1 => \A b \in Activities : step'[b] # "generate"
        BY <2>0, <2>3, OneJob DEF ViewsInv
      <3> QED
        BY <2>0, <2>3, <3>1, <3>2 DEF KeystoreInv, ViewsInv
    <2> QED
      BY <1>4, <2>1, <2>2, <2>3
      DEF GenerateKey, WithRsaKey, WithMlDsaKey
  <1>5. CASE ShowProgress(a)
    BY <1>5, QuietKeepsKeystore DEF ShowProgress, screen
  <1>6. CASE MakeInputs(a)
    BY <1>6, QuietKeepsKeystore DEF MakeInputs
  <1>7. CASE CallProve(a)
    BY <1>7, QuietKeepsKeystore DEF CallProve, screen
  <1>8. ASSUME NEW o \in Prove!Outcomes, EndProof(a, o)
        PROVE  KeystoreInv'
    BY <1>8, QuietKeepsKeystore DEF EndProof, screen
  <1>9. CASE VerifyProof(a)
    BY <1>9, QuietKeepsKeystore DEF VerifyProof
  <1>10. CASE FinishJob(a)
    <2>1. /\ job' = [job EXCEPT ![a].key = NoKey]
          /\ step' = [step EXCEPT ![a] = "none"]
          /\ UNCHANGED <<created, statement, keystore>>
      BY <1>10 DEF FinishJob, screen
    <2>2. /\ job' \in [Activities -> AndroidJob]
          /\ \A b \in Activities : job'[b].statement = job[b].statement
      BY <2>1, JobOf
    <2> QED
      BY <2>1, <2>2 DEF KeystoreInv, ViewsInv
  <1> QED
    BY <1>1, <1>2, <1>3, <1>4, <1>5, <1>6, <1>7, <1>8, <1>9, <1>10
    DEF JobStep

LEMMA NextKeystore ==
    ViewsInv /\ KeystoreInv /\ [AppNext]_androidVars => KeystoreInv'
  <1>1. ASSUME KeystoreInv, UNCHANGED androidVars
        PROVE  KeystoreInv'
    BY <1>1 DEF androidVars, KeystoreInv
  <1> QED
    BY <1>1, ScreenKeepsKeystore, JobKeepsKeystore DEF AppNext, Activities

LEMMA SpecKeystore == AppSpec => []KeystoreInv
  BY InitKeystore, NextKeystore, SpecViews, PTL DEF AppSpec

\* While the first activity is the only one, no key in the Keystore is replaced
\* or lost (GenerateKey of the two sessions).
FirstActivityKeepsKey ==
    [][ \A s \in SigningStatements :
            created = 1 /\ keystore[s] # NoKey => keystore'[s] = keystore[s] ]_androidVars

\* Until a second activity is created, a job that makes a key has found none, and
\* no key is replaced.
THEOREM FirstActivityKeepsItsKey == AppSpec => FirstActivityKeepsKey
  <1> DEFINE Kept ==
        \A s \in SigningStatements :
            created = 1 /\ keystore[s] # NoKey => keystore'[s] = keystore[s]
  <1>1. ASSUME ViewsInv, KeystoreInv, AppNext
        PROVE  Kept
    <2>1. ASSUME NEW a \in Activities, GenerateKey(a)
          PROVE  Kept
      <3> SUFFICES ASSUME created = 1
                   PROVE  Kept
        OBVIOUS
      <3>1. /\ step[a] = "generate" /\ job[a].statement \in SigningStatements
            /\ keystore[job[a].statement] = NoKey
            /\ DOMAIN keystore = SigningStatements
        BY <1>1, <2>1 DEF GenerateKey, KeystoreInv
      <3>2. \/ UNCHANGED keystore
            \/ \E k : job[a].statement = "rsa" /\ keystore' = [keystore EXCEPT !["rsa"] = k]
            \/ \E k : job[a].statement # "rsa" /\ keystore' = [keystore EXCEPT !["mldsa"] = k]
        BY <2>1
        DEF GenerateKey, Throw, WithRsaKey, WithMlDsaKey
      <3> QED
        BY <3>1, <3>2 DEF SigningStatements
    <2>2. UNCHANGED keystore => Kept
      OBVIOUS
    <2>3. ASSUME NEW a \in Activities, JobStep(a)
          PROVE  Kept
      BY <2>1, <2>2, <2>3
      DEF JobStep, BeginJob, OpenSession, LoadKey, ShowProgress, MakeInputs,
          CallProve, VerifyProof, FinishJob, GoTo, Throw
    <2> QED
      BY <1>1, <2>2, <2>3
      DEF AppNext, Select, Start, Cancel, Destroy, Create, EndProof, GoTo, Throw,
          Activities
  <1>2. ViewsInv /\ KeystoreInv /\ [AppNext]_androidVars
            => [Kept]_androidVars
    BY <1>1
  <1>3. AppSpec => [][Kept]_androidVars
    BY <1>2, SpecViews, SpecKeystore, PTL DEF AppSpec
  <1> QED
    BY <1>3 DEF FirstActivityKeepsKey

\* A key is made once, as examples/README.md has it, by an app with a single
\* activity: a second one is all that the counterexample needs.
THEOREM KeyIsMadeOnceByOneActivity ==
    ASSUME MaxActivities = 1
    PROVE  AppSpec => KeyMadeOnce
  <1>1. AppInit => created = 1
    BY DEF AppInit
  <1>2. created = 1 /\ [AppNext]_androidVars => (created = 1)'
    <2>1. ~(created = 1 /\ Create)
      BY DEF Create
    <2> QED
      BY <2>1
      DEF AppNext, androidVars, screen, Select, Start, Cancel, Destroy, JobStep,
          Quiet, BeginJob, OpenSession, LoadKey, GenerateKey, ShowProgress,
          MakeInputs, CallProve, VerifyProof, FinishJob, EndProof
  <1>3. AppSpec => [](created = 1)
    BY <1>1, <1>2, PTL DEF AppSpec
  <1> DEFINE Kept ==
        \A s \in SigningStatements :
            created = 1 /\ keystore[s] # NoKey => keystore'[s] = keystore[s]
      Once == \A s \in SigningStatements : keystore[s] # NoKey => keystore'[s] = keystore[s]
  <1>4. AppSpec => [][Kept]_androidVars
    BY FirstActivityKeepsItsKey DEF FirstActivityKeepsKey
  <1>5. created = 1 /\ [Kept]_androidVars => [Once]_androidVars
    OBVIOUS
  <1>6. AppSpec => [][Once]_androidVars
    BY <1>3, <1>4, <1>5, PTL
  <1> QED
    BY <1>6 DEF KeyMadeOnce
=============================================================================
