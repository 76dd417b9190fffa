------------------------------ MODULE IosBuild ------------------------------
(***************************************************************************)
(* cargo xtask ios-build: the run of ios_build.rs over target/, any number *)
(* of times, with a failure possible at every command and file operation.  *)
(* A failed run leaves behind what it had written; the next run starts on  *)
(* top of it.  The developer edits the crate between two runs.             *)
(*                                                                         *)
(* A file is what it was made from: a framework binary is the library it   *)
(* was copied from, a binding the revision it was generated from.          *)
(***************************************************************************)
EXTENDS CargoTarget, Sequences

CONSTANT Partial    \* a framework directory that a failed step left incomplete

SLICES == <<"ios", "sim">>

ASSUME TargetsAreSlices == Targets = {"ios", "sim"}

VARIABLES
    at,             \* the step the run is at, "idle" between runs
    slice,          \* index into SLICES of the loop it is in
    signing,        \* "unsigned", "team", or "none": neither flag nor team id
    version,        \* the prover version read_build_info took from Cargo.toml
    exit,           \* the exit of the last run
    proverFw,       \* [Targets -> HekateProverCdylib.framework of the slice]
    devFw,          \* [Targets -> the crate's framework of the slice]
    swift,          \* target/swift/<Name>: the revision of the bindings
    proverXcf,      \* HekateProverCdylib.xcframework
    devXcf          \* <Name>.xcframework

frameworkVars == <<proverFw, devFw>>
xcfVars == <<proverXcf, devXcf>>
runVars == <<at, slice, signing, version, exit>>
vars == <<cargoVars, runVars, frameworkVars, swift, xcfVars>>

Revisions == 0 .. MaxRevision
ProverFw == [prover : Configs, version : Configs]
DevFw == [lib : Lib, relinked : BOOLEAN, bindings : Revisions \cup {NoFile}]
Xcf(fw) == [slices : [Targets -> fw], signed : BOOLEAN]

Steps == {"idle", "compile", "wrapProver", "wrapDev", "relink", "bindings",
          "wire", "clean", "assembleProver", "assembleDev", "sign",
          "signProver", "signDev"}

\* A path where nothing is is no xcframework.
ASSUME NoFileIsNoXcf == NoFile \notin Xcf(ProverFw) \cup Xcf(DevFw)

IosTypeOK ==
    /\ CargoTypeOK
    /\ at \in Steps
    /\ slice \in DOMAIN SLICES
    /\ signing \in {"unsigned", "team", "none"}
    /\ version \in Configs
    /\ exit \in {"none", "success", "failed"}
    /\ proverFw \in [Targets -> ProverFw \cup {NoFile, Partial}]
    /\ devFw \in [Targets -> DevFw \cup {NoFile, Partial}]
    /\ swift \in Revisions \cup {NoFile}
    /\ proverXcf \in Xcf(ProverFw) \cup {NoFile}
    /\ devXcf \in Xcf(DevFw) \cup {NoFile}

IosInit ==
    /\ CargoInit
    /\ at = "idle" /\ slice = 1 /\ exit = "none"
    /\ signing = "unsigned"
    /\ version = First
    /\ proverFw = [t \in Targets |-> NoFile]
    /\ devFw = [t \in Targets |-> NoFile]
    /\ swift = NoFile
    /\ proverXcf = NoFile
    /\ devXcf = NoFile
-----------------------------------------------------------------------------
Slice == SLICES[slice]

Goto(step) == at' = step /\ UNCHANGED <<slice, signing, version, exit>>
Finish(code) ==
    at' = "idle" /\ exit' = code /\ UNCHANGED <<slice, signing, version>>

\* The end of one round of a loop over SLICES.
NextSlice(again, after) ==
    /\ IF slice < Len(SLICES)
       THEN at' = again /\ slice' = slice + 1
       ELSE at' = after /\ slice' = 1
    /\ UNCHANGED <<signing, version, exit>>

\* find_workspace_root and read_build_info change nothing when they fail.
Begin(s) ==
    /\ at = "idle"
    /\ at' = "compile" /\ slice' = 1 /\ exit' = "none"
    /\ signing' = s
    /\ version' = manifest
    /\ UNCHANGED <<cargoVars, frameworkVars, swift, xcfVars>>

\* cross_compile, then the check for the crate's library, find_prover_cdylib and
\* read_prover_load_dylib, which may fail over what cargo has built.
CompileSlice ==
    /\ at = "compile"
    /\ \/ Compile(Slice) /\ (Goto("wrapProver") \/ Finish("failed"))
       \/ CompileFails(Slice) /\ Finish("failed")
    /\ UNCHANGED <<frameworkVars, swift, xcfVars>>

\* Mutant of WrapProver: its failure is not looked at.
WrapProverUnchecked ==
    /\ at = "wrapProver"
    /\ proverFw' \in {[proverFw EXCEPT ![Slice] = f] : f \in
            {Partial, [prover |-> FoundProver(Slice), version |-> version]}}
    /\ Goto("wrapDev")
    /\ UNCHANGED <<cargoVars, devFw, swift, xcfVars>>

\* wrap_framework removes the old directory, then fills a new one.
WrapProver ==
    /\ at = "wrapProver"
    /\ \/ /\ proverFw' = [proverFw EXCEPT ![Slice] =
                            [prover |-> FoundProver(Slice), version |-> version]]
          /\ Goto("wrapDev")
       \/ /\ proverFw' \in {proverFw, [proverFw EXCEPT ![Slice] = Partial]}
          /\ Finish("failed")
    /\ UNCHANGED <<cargoVars, devFw, swift, xcfVars>>

WrapDev ==
    /\ at = "wrapDev"
    /\ \/ /\ devFw' = [devFw EXCEPT ![Slice] =
                [lib |-> lib[Slice], relinked |-> FALSE, bindings |-> NoFile]]
          /\ Goto("relink")
       \/ /\ devFw' \in {devFw, [devFw EXCEPT ![Slice] = Partial]}
          /\ Finish("failed")
    /\ UNCHANGED <<cargoVars, proverFw, swift, xcfVars>>

\* relink_prover_ref, the last step of the loop over the slices.
Relink ==
    /\ at = "relink"
    /\ \/ /\ devFw' = [devFw EXCEPT ![Slice].relinked = TRUE]
          /\ NextSlice("compile", "bindings")
       \/ /\ devFw' \in {devFw, [devFw EXCEPT ![Slice] = Partial]}
          /\ Finish("failed")
    /\ UNCHANGED <<cargoVars, proverFw, swift, xcfVars>>

\* Mutant of GenerateBindings: bindings that are there are not written again.
GenerateMissing ==
    /\ at = "bindings"
    /\ swift' = IF swift = NoFile THEN lib[SLICES[1]].revision ELSE swift
    /\ Goto("wire")
    /\ UNCHANGED <<cargoVars, frameworkVars, xcfVars>>

\* generate_swift_bindings reads the library of the first slice.
GenerateBindings ==
    /\ at = "bindings"
    /\ \/ swift' = lib[SLICES[1]].revision /\ Goto("wire")
       \/ swift' \in {swift, NoFile} /\ Finish("failed")
    /\ UNCHANGED <<cargoVars, frameworkVars, xcfVars>>

\* Mutant of WireBindings: the loop ends after the first slice.
WireFirstSlice ==
    /\ at = "wire"
    /\ devFw' = [devFw EXCEPT ![Slice].bindings = swift]
    /\ Goto("clean")
    /\ UNCHANGED <<cargoVars, proverFw, swift, xcfVars>>

\* wire_bindings_into_framework, in a second loop over the slices.
WireBindings ==
    /\ at = "wire"
    /\ \/ /\ devFw' = [devFw EXCEPT ![Slice].bindings = swift]
          /\ NextSlice("wire", "clean")
       \/ /\ devFw' \in {devFw, [devFw EXCEPT ![Slice] = Partial]}
          /\ Finish("failed")
    /\ UNCHANGED <<cargoVars, proverFw, swift, xcfVars>>

\* target/xcframeworks is removed; a removal that fails may have removed some.
CleanXcframeworks ==
    /\ at = "clean"
    /\ \/ /\ proverXcf' = NoFile /\ devXcf' = NoFile
          /\ Goto("assembleProver")
       \/ /\ proverXcf' \in {proverXcf, NoFile} /\ devXcf' \in {devXcf, NoFile}
          /\ Finish("failed")
    /\ UNCHANGED <<cargoVars, frameworkVars, swift>>

\* assemble_xcframework.  xcodebuild does not overwrite an output.
AssembleProver ==
    /\ at = "assembleProver"
    /\ \/ /\ proverXcf = NoFile
          /\ proverXcf' = [slices |-> proverFw, signed |-> FALSE]
          /\ Goto("assembleDev")
       \/ UNCHANGED proverXcf /\ Finish("failed")
    /\ UNCHANGED <<cargoVars, frameworkVars, swift, devXcf>>

AssembleDev ==
    /\ at = "assembleDev"
    /\ \/ /\ devXcf = NoFile
          /\ devXcf' = [slices |-> devFw, signed |-> FALSE]
          /\ Goto("sign")
       \/ UNCHANGED devXcf /\ Finish("failed")
    /\ UNCHANGED <<cargoVars, frameworkVars, swift, proverXcf>>

\* --unsigned ends the run here; so does a missing HEKATE_IOS_TEAM_ID, with
\* both xcframeworks written.
ChooseSigning ==
    /\ at = "sign"
    /\ \/ signing = "unsigned" /\ Finish("success")
       \/ signing = "none" /\ Finish("failed")
       \/ signing = "team" /\ Goto("signProver")
    /\ UNCHANGED <<cargoVars, frameworkVars, swift, xcfVars>>

\* Mutant of SignProver: its failure is not looked at.
SignProverUnchecked ==
    /\ at = "signProver"
    /\ proverXcf' \in {proverXcf, [proverXcf EXCEPT !.signed = TRUE]}
    /\ Goto("signDev")
    /\ UNCHANGED <<cargoVars, frameworkVars, swift, devXcf>>

SignProver ==
    /\ at = "signProver"
    /\ \/ proverXcf' = [proverXcf EXCEPT !.signed = TRUE] /\ Goto("signDev")
       \/ UNCHANGED proverXcf /\ Finish("failed")
    /\ UNCHANGED <<cargoVars, frameworkVars, swift, devXcf>>

SignDev ==
    /\ at = "signDev"
    /\ \/ devXcf' = [devXcf EXCEPT !.signed = TRUE] /\ Finish("success")
       \/ UNCHANGED devXcf /\ Finish("failed")
    /\ UNCHANGED <<cargoVars, frameworkVars, swift, proverXcf>>

RunStep ==
    \/ CompileSlice \/ WrapProver \/ WrapDev \/ Relink \/ GenerateBindings
    \/ WireBindings \/ CleanXcframeworks \/ AssembleProver \/ AssembleDev
    \/ ChooseSigning \/ SignProver \/ SignDev

Edit ==
    /\ at = "idle"
    /\ EditSource \/ \E c \in Configs : EditManifest(c)
    /\ UNCHANGED <<runVars, frameworkVars, swift, xcfVars>>

IosNext ==
    \/ \E s \in {"unsigned", "team", "none"} : Begin(s)
    \/ RunStep
    \/ Edit

IosSpec == IosInit /\ [][IosNext]_vars
-----------------------------------------------------------------------------
(***************************************************************************)
(* Properties.                                                             *)
(***************************************************************************)

\* A run that exits with success leaves a release that belongs together,
\* whatever earlier runs failed at and left behind: in both slices the crate's
\* library that was built last, relinked to the prover framework, with the
\* bindings that the app compiles, and both xcframeworks signed if asked.
SuccessIsWhole ==
    exit = "success" =>
        /\ devXcf # NoFile /\ proverXcf # NoFile
        /\ \A t \in Targets :
                /\ devXcf.slices[t] = [lib |-> lib[t], relinked |-> TRUE,
                                       bindings |-> lib[t].revision]
                /\ proverXcf.slices[t].version = lib[t].config
        /\ \A t \in Targets : swift = lib[t].revision
        /\ devXcf.signed <=> signing = "team"
        /\ proverXcf.signed <=> signing = "team"

\* Even what a failed run leaves in target/xcframeworks never pairs a library
\* with the bindings of another revision, or a device slice with a simulator
\* slice of another revision.
NoSkewedXcframework ==
    devXcf # NoFile =>
        \A t, u \in Targets :
            /\ devXcf.slices[t].relinked
            /\ devXcf.slices[t].bindings = devXcf.slices[u].lib.revision

\* An xcframework is never signed over a release that a later failure
\* abandoned: when the crate's is signed, the prover's beside it is signed and
\* is the one of the same run.
SignedTogether ==
    devXcf # NoFile /\ proverXcf # NoFile /\ devXcf.signed =>
        /\ proverXcf.signed
        /\ \A t \in Targets :
                proverXcf.slices[t].version = devXcf.slices[t].lib.config

\* The prover that is packaged is the one the crate's library was built and
\* linked with: the mode the app reports, ct or public, is the mode it runs.
PackagedProverIsLinked ==
    exit = "success" =>
        \A t \in Targets : proverXcf.slices[t].prover = lib[t].config
=============================================================================
