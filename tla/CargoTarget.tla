---------------------------- MODULE CargoTarget -----------------------------
(***************************************************************************)
(* The part of target/ that the two xtask builds read.  Cargo keeps one    *)
(* build directory of hekate-prover-sys for each configuration it was ever *)
(* built in (its version and its mode, ct or public), with the prover      *)
(* library its build script fetched; it does not run the script again when *)
(* it returns to a configuration.  The crate's own library has one place,  *)
(* which the last build overwrites.  find_prover_cdylib picks the prover   *)
(* library to package by its modification time.                            *)
(***************************************************************************)
EXTENDS Naturals

CONSTANTS
    Targets,        \* the Rust targets built
    Configs,        \* prover configurations: version and mode in Cargo.toml
    First,          \* the configuration the crate was generated with
    Returns,        \* TRUE: the developer may return to an earlier configuration
    MaxRevision,    \* bound on the edits of the crate's source
    NoFile          \* what is at a path where nothing is

ASSUME FirstIsConfig == First \in Configs
ASSUME ReturnsIsBoolean == Returns \in BOOLEAN
ASSUME MaxRevisionIsNat == MaxRevision \in Nat
ASSUME NoFileIsNoConfig == NoFile \notin Configs

VARIABLES
    manifest,       \* the configuration Cargo.toml names
    used,           \* the configurations it has named so far
    revision,       \* the revision of the crate's source
    fetched,        \* [Targets -> [Configs -> mtime of the prover library in
                    \* the build directory of the configuration, 0 for none]]
    lib,            \* [Targets -> the crate's library: what it was built from]
    clock           \* the last mtime given to a prover library

cargoVars == <<manifest, used, revision, fetched, lib, clock>>

Lib == [revision : 0 .. MaxRevision, config : Configs]

CargoTypeOK ==
    /\ manifest \in Configs
    /\ used \subseteq Configs
    /\ revision \in 0 .. MaxRevision
    /\ fetched \in [Targets -> [Configs -> Nat]]
    /\ lib \in [Targets -> Lib \cup {NoFile}]
    /\ clock \in Nat

CargoInit ==
    /\ manifest = First
    /\ used = {First}
    /\ revision = 0
    /\ fetched = [t \in Targets |-> [c \in Configs |-> 0]]
    /\ lib = [t \in Targets |-> NoFile]
    /\ clock = 0
-----------------------------------------------------------------------------
\* The developer, between two builds.
EditSource ==
    /\ revision < MaxRevision
    /\ revision' = revision + 1
    /\ UNCHANGED <<manifest, used, fetched, lib, clock>>

EditManifest(c) ==
    /\ c # manifest
    /\ Returns \/ c \notin used
    /\ manifest' = c
    /\ used' = used \cup {c}
    /\ UNCHANGED <<revision, fetched, lib, clock>>

\* The build script of hekate-prover-sys, which runs once per configuration.
Fetch(t) ==
    IF fetched[t][manifest] = 0
    THEN /\ fetched' = [fetched EXCEPT ![t][manifest] = clock + 1]
         /\ clock' = clock + 1
    ELSE UNCHANGED <<fetched, clock>>

\* cargo build --release --target t
Compile(t) ==
    /\ Fetch(t)
    /\ lib' = [lib EXCEPT ![t] = [revision |-> revision, config |-> manifest]]
    /\ UNCHANGED <<manifest, used, revision>>

\* cargo build that fails, before or after the build script has run.
CompileFails(t) ==
    /\ Fetch(t) \/ UNCHANGED <<fetched, clock>>
    /\ UNCHANGED <<manifest, used, revision, lib>>

\* find_prover_cdylib
Candidates(t) == {c \in Configs : fetched[t][c] > 0}

\* Mutant of FoundProver: the comparison of the mtimes is turned round.
OldestProver(t) ==
    CHOOSE c \in Candidates(t) :
        \A d \in Candidates(t) : fetched[t][d] >= fetched[t][c]

FoundProver(t) ==
    CHOOSE c \in Candidates(t) :
        \A d \in Candidates(t) : fetched[t][d] <= fetched[t][c]
=============================================================================
