---------------------------- MODULE AndroidBuild ----------------------------
(***************************************************************************)
(* cargo xtask android-build: the run of android_build.rs over the Gradle  *)
(* module and target/, any number of times, with a failure possible at     *)
(* every command and file operation.  The run fills the module's source    *)
(* directories, lets Gradle package them and copies the archive out; a     *)
(* failed run leaves what it had written.                                  *)
(***************************************************************************)
EXTENDS CargoTarget

ASSUME OneAbi == Targets = {"arm64-v8a"}

CONSTANT Partial    \* a file that a failed copy left truncated

VARIABLES
    at,             \* the step the run is at, "idle" between runs
    exit,           \* the exit of the last run
    jniLib,         \* jniLibs/<abi>/lib<crate>.so
    jniProver,      \* jniLibs/<abi>/libhekate_prover_cdylib.so
    kotlin,         \* the generated Kotlin source, the only one under kotlin/
    gradleAar,      \* lib-release.aar, Gradle's output
    aar             \* target/aar/<crate>-release.aar, the file handed over

moduleVars == <<jniLib, jniProver, kotlin>>
vars == <<cargoVars, at, exit, moduleVars, gradleAar, aar>>

Abi == "arm64-v8a"

Kotlin == [revision : 0 .. MaxRevision, patched : BOOLEAN]
Aar == [lib : Lib, prover : Configs, kotlin : Kotlin]

Steps == {"idle", "resetJni", "resetKotlin", "compile", "copyLib", "copyProver",
          "bindings", "inject", "gradle", "copyAar"}

\* A path where nothing is and a truncated file are no archive.
ASSUME NoFileIsNoAar == NoFile \notin Aar /\ Partial \notin Aar

AndroidTypeOK ==
    /\ CargoTypeOK
    /\ at \in Steps
    /\ exit \in {"none", "success", "failed"}
    /\ jniLib \in Lib \cup {NoFile, Partial}
    /\ jniProver \in Configs \cup {NoFile, Partial}
    /\ kotlin \in Kotlin \cup {NoFile, Partial}
    /\ gradleAar \in Aar \cup {NoFile}
    /\ aar \in Aar \cup {NoFile, Partial}

AndroidInit ==
    /\ CargoInit
    /\ at = "idle" /\ exit = "none"
    /\ jniLib = NoFile /\ jniProver = NoFile /\ kotlin = NoFile
    /\ gradleAar = NoFile /\ aar = NoFile
-----------------------------------------------------------------------------
Goto(step) == at' = step /\ UNCHANGED exit
Finish(code) == at' = "idle" /\ exit' = code

\* find_workspace_root, read_build_info and the check for android/ change
\* nothing when they fail.
Begin ==
    /\ at = "idle"
    /\ at' = "resetJni" /\ exit' = "none"
    /\ UNCHANGED <<cargoVars, moduleVars, gradleAar, aar>>

\* reset_dir of jniLibs; a removal that fails may have removed one of the two.
ResetJniLibs ==
    /\ at = "resetJni"
    /\ \/ jniLib' = NoFile /\ jniProver' = NoFile /\ Goto("resetKotlin")
       \/ /\ jniLib' \in {jniLib, NoFile} /\ jniProver' \in {jniProver, NoFile}
          /\ Finish("failed")
    /\ UNCHANGED <<cargoVars, kotlin, gradleAar, aar>>

ResetKotlin ==
    /\ at = "resetKotlin"
    /\ \/ kotlin' = NoFile /\ Goto("compile")
       \/ kotlin' \in {kotlin, NoFile} /\ Finish("failed")
    /\ UNCHANGED <<cargoVars, jniLib, jniProver, gradleAar, aar>>

\* cargo_ndk_build, then the check for the crate's library, find_prover_cdylib
\* and the mkdir, which may fail over what cargo has built.
CompileAbi ==
    /\ at = "compile"
    /\ \/ Compile(Abi) /\ (Goto("copyLib") \/ Finish("failed"))
       \/ CompileFails(Abi) /\ Finish("failed")
    /\ UNCHANGED <<moduleVars, gradleAar, aar>>

CopyLib ==
    /\ at = "copyLib"
    /\ \/ jniLib' = lib[Abi] /\ Goto("copyProver")
       \/ jniLib' \in {NoFile, Partial} /\ Finish("failed")
    /\ UNCHANGED <<cargoVars, jniProver, kotlin, gradleAar, aar>>

CopyProver ==
    /\ at = "copyProver"
    /\ \/ jniProver' = FoundProver(Abi) /\ Goto("bindings")
       \/ jniProver' \in {NoFile, Partial} /\ Finish("failed")
    /\ UNCHANGED <<cargoVars, jniLib, kotlin, gradleAar, aar>>

\* generate_kotlin_bindings and find_generated_kotlin.
GenerateBindings ==
    /\ at = "bindings"
    /\ \/ /\ kotlin' = [revision |-> lib[Abi].revision, patched |-> FALSE]
          /\ Goto("inject")
       \/ /\ kotlin' \in {NoFile, [revision |-> lib[Abi].revision, patched |-> FALSE]}
          /\ Finish("failed")
    /\ UNCHANGED <<cargoVars, jniLib, jniProver, gradleAar, aar>>

\* Mutant of InjectLoadLibrary: an anchor that is not found is passed over.
InjectIfAnchored ==
    /\ at = "inject"
    /\ kotlin' \in {kotlin, [kotlin EXCEPT !.patched = TRUE]}
    /\ Goto("gradle")
    /\ UNCHANGED <<cargoVars, jniLib, jniProver, gradleAar, aar>>

\* inject_prover_load_call: the anchor must be found exactly once.
InjectLoadLibrary ==
    /\ at = "inject"
    /\ \/ kotlin' = [kotlin EXCEPT !.patched = TRUE] /\ Goto("gradle")
       \/ kotlin' \in {kotlin, Partial} /\ Finish("failed")
    /\ UNCHANGED <<cargoVars, jniLib, jniProver, gradleAar, aar>>

\* gradle_assemble packages what the module's directories hold.  A build that
\* fails keeps Gradle's last archive or loses it.
GradleAssemble ==
    /\ at = "gradle"
    /\ \/ /\ gradleAar' = [lib |-> jniLib, prover |-> jniProver, kotlin |-> kotlin]
          /\ Goto("copyAar")
       \/ gradleAar' \in {gradleAar, NoFile} /\ Finish("failed")
    /\ UNCHANGED <<cargoVars, moduleVars, aar>>

\* Mutant of CopyAar: a failed copy is not looked at.
CopyAarUnchecked ==
    /\ at = "copyAar"
    /\ aar' \in {gradleAar, aar}
    /\ Finish("success")
    /\ UNCHANGED <<cargoVars, moduleVars, gradleAar>>

\* The copy opens the old archive for writing before it fails or succeeds.
CopyAar ==
    /\ at = "copyAar"
    /\ \/ aar' = gradleAar /\ Finish("success")
       \/ aar' \in {aar, Partial} /\ Finish("failed")
    /\ UNCHANGED <<cargoVars, moduleVars, gradleAar>>

RunStep ==
    \/ ResetJniLibs \/ ResetKotlin \/ CompileAbi \/ CopyLib \/ CopyProver
    \/ GenerateBindings \/ InjectLoadLibrary \/ GradleAssemble \/ CopyAar

Edit ==
    /\ at = "idle"
    /\ EditSource \/ \E c \in Configs : EditManifest(c)
    /\ UNCHANGED <<at, exit, moduleVars, gradleAar, aar>>

AndroidNext == Begin \/ RunStep \/ Edit

AndroidSpec == AndroidInit /\ [][AndroidNext]_vars
-----------------------------------------------------------------------------
(***************************************************************************)
(* Properties.                                                             *)
(***************************************************************************)

\* The archive under target/aar outlives failed runs.  Unless a copy truncated
\* it, its bindings are of its library's own revision and load the prover first,
\* whatever the failed runs left in the module's directories.
AarIsWhole ==
    aar \in Aar =>
        aar.kotlin = [revision |-> aar.lib.revision, patched |-> TRUE]

\* After a run that exits with success the archive is of that run, not one that
\* an earlier run left in its place.
SuccessIsCurrent ==
    exit = "success" =>
        /\ aar \in Aar
        /\ aar.lib = lib[Abi]

\* The archive's prover is the one its library was built and linked with: the
\* mode the app reports, ct or public, is the mode it runs.
PackagedProverIsLinked ==
    aar \in Aar => aar.prover = aar.lib.config
=============================================================================
