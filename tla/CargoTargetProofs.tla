------------------------- MODULE CargoTargetProofs --------------------------
(***************************************************************************)
(* Lemmas about target/ for any targets and configurations, which the      *)
(* proofs of both builds cite.                                             *)
(*                                                                         *)
(* find_prover_cdylib chooses by modification time.  It finds something    *)
(* because the last library that was fetched is the newest (NewestExists), *)
(* and it finds the library of the manifest as long as the developer does  *)
(* not return to a configuration that was left (ManifestIsNewest).         *)
(***************************************************************************)
EXTENDS CargoTarget, TLAPS

IsFetched(t, c) == fetched[t][c] > 0

NewestExists(t) ==
    (\E c \in Configs : IsFetched(t, c)) =>
        \E c \in Configs : /\ IsFetched(t, c)
                           /\ \A d \in Configs : fetched[t][d] <= fetched[t][c]

ManifestIsNewest(t) ==
    IsFetched(t, manifest) =>
        \A d \in Configs \ {manifest} : fetched[t][d] < fetched[t][manifest]

CargoInv ==
    /\ CargoTypeOK
    /\ manifest \in used
    /\ \A t \in Targets, c \in Configs : fetched[t][c] <= clock
    /\ \A t \in Targets, c \in Configs : IsFetched(t, c) => c \in used
    /\ \A t \in Targets : NewestExists(t)
    /\ ~Returns => \A t \in Targets : ManifestIsNewest(t)

\* An empty target/ of the crate as it was generated.
LEMMA CargoInitInv == CargoInit => CargoInv
  BY FirstIsConfig, MaxRevisionIsNat
  DEF CargoInit, CargoInv, CargoTypeOK, IsFetched, NewestExists, ManifestIsNewest

\* The developer's edits write nothing under target/; a configuration that the
\* manifest never named has no prover library.
LEMMA EditKeepsCargo ==
    ASSUME CargoInv, EditSource \/ \E c \in Configs : EditManifest(c)
    PROVE  CargoInv' /\ UNCHANGED <<fetched, lib, clock>>
  <1>1. CASE EditSource
    BY <1>1, MaxRevisionIsNat
    DEF EditSource, CargoInv, CargoTypeOK, IsFetched, NewestExists,
        ManifestIsNewest
  <1>2. ASSUME NEW c \in Configs, EditManifest(c)
        PROVE  CargoInv' /\ UNCHANGED <<fetched, lib, clock>>
    <2>1. ~Returns => \A t \in Targets : ~IsFetched(t, c)
      BY <1>2 DEF EditManifest, CargoInv
    <2>2. \A t \in Targets : ~IsFetched(t, c) => ManifestIsNewest(t)'
      BY <1>2 DEF EditManifest, ManifestIsNewest, IsFetched
    <2> QED
      BY <1>2, <2>1, <2>2
      DEF EditManifest, CargoInv, CargoTypeOK, IsFetched, NewestExists
  <1> QED
    BY <1>1, <1>2

\* After the build script has run or been passed over, the target has the
\* manifest's prover library, and no newer one came from elsewhere.
LEMMA FetchKeepsCargo ==
    ASSUME CargoInv, NEW t \in Targets, Fetch(t), UNCHANGED <<manifest, used>>
    PROVE  /\ fetched' \in [Targets -> [Configs -> Nat]]
           /\ clock' \in Nat
           /\ IsFetched(t, manifest)'
           /\ \A u \in Targets, c \in Configs :
                    /\ fetched'[u][c] <= clock'
                    /\ IsFetched(u, c)' => c \in used
                    /\ IsFetched(u, c) => IsFetched(u, c)'
           /\ \A u \in Targets : NewestExists(u)'
           /\ ~Returns => \A u \in Targets : ManifestIsNewest(u)'
  <1>t. /\ fetched \in [Targets -> [Configs -> Nat]] /\ clock \in Nat
        /\ manifest \in Configs /\ manifest \in used
        /\ \A u \in Targets, c \in Configs : fetched[u][c] <= clock
        /\ \A u \in Targets, c \in Configs : IsFetched(u, c) => c \in used
    BY DEF CargoInv, CargoTypeOK
  <1>1. CASE fetched[t][manifest] = 0
    <2>1. /\ fetched' = [fetched EXCEPT ![t][manifest] = clock + 1]
          /\ clock' = clock + 1
      BY <1>1 DEF Fetch
    <2>2. /\ fetched' \in [Targets -> [Configs -> Nat]]
          /\ fetched'[t][manifest] = clock + 1
          /\ \A u \in Targets, c \in Configs :
                <<u, c>> # <<t, manifest>> => fetched'[u][c] = fetched[u][c]
      BY <1>t, <2>1
    <2>3. \A u \in Targets, c \in Configs :
                    /\ fetched'[u][c] <= clock'
                    /\ IsFetched(u, c)' => c \in used
                    /\ IsFetched(u, c) => IsFetched(u, c)'
      BY <1>1, <1>t, <2>1, <2>2 DEF IsFetched
    <2>4. \A d \in Configs \ {manifest} : fetched'[t][d] < fetched'[t][manifest]
      BY <1>t, <2>2
    <2>5. NewestExists(t)' /\ ManifestIsNewest(t)'
      BY <1>t, <2>2, <2>4 DEF NewestExists, ManifestIsNewest, IsFetched
    <2>6. ASSUME NEW u \in Targets, u # t
          PROVE  /\ NewestExists(u)'
                 /\ ~Returns => ManifestIsNewest(u)'
      <3>1. \A c \in Configs : fetched'[u][c] = fetched[u][c]
        BY <2>2, <2>6
      <3> QED
        BY <1>t, <3>1 DEF CargoInv, NewestExists, ManifestIsNewest, IsFetched
    <2> QED
      BY <1>t, <2>1, <2>2, <2>3, <2>5, <2>6 DEF IsFetched
  <1>2. CASE fetched[t][manifest] # 0
    BY <1>2, <1>t
    DEF Fetch, CargoInv, NewestExists, ManifestIsNewest, IsFetched
  <1> QED
    BY <1>1, <1>2

\* cargo build leaves the crate's library of the manifest and the source.
LEMMA CompileKeepsCargo ==
    ASSUME CargoInv, NEW t \in Targets, Compile(t)
    PROVE  /\ CargoInv'
           /\ IsFetched(t, manifest)'
           /\ \A u \in Targets, c \in Configs : IsFetched(u, c) => IsFetched(u, c)'
           /\ lib' = [lib EXCEPT ![t] = [revision |-> revision, config |-> manifest]]
           /\ lib'[t] = [revision |-> revision, config |-> manifest]
           /\ UNCHANGED <<manifest, used, revision>>
  <1>1. Fetch(t) /\ UNCHANGED <<manifest, used, revision>>
        /\ lib' = [lib EXCEPT ![t] = [revision |-> revision, config |-> manifest]]
    BY DEF Compile
  <1>2. /\ lib' \in [Targets -> Lib \cup {NoFile}]
        /\ lib'[t] = [revision |-> revision, config |-> manifest]
    BY <1>1 DEF CargoInv, CargoTypeOK, Lib
  <1> QED
    BY <1>1, <1>2, FetchKeepsCargo DEF CargoInv, CargoTypeOK

\* A build that fails keeps the crate's library it found.
LEMMA CompileFailsKeepsCargo ==
    ASSUME CargoInv, NEW t \in Targets, CompileFails(t)
    PROVE  CargoInv' /\ UNCHANGED <<manifest, used, revision, lib>>
  <1>1. UNCHANGED <<manifest, used, revision, lib>>
    BY DEF CompileFails
  <1>2. CASE Fetch(t)
    BY <1>1, <1>2, FetchKeepsCargo DEF CargoInv, CargoTypeOK
  <1>3. CASE UNCHANGED <<fetched, clock>>
    BY <1>1, <1>3
    DEF CargoInv, CargoTypeOK, NewestExists, ManifestIsNewest, IsFetched
  <1> QED
    BY <1>2, <1>3 DEF CompileFails

\* find_prover_cdylib finds a library of some configuration once one is there.
LEMMA FoundProverIsCandidate ==
    ASSUME CargoInv, NEW t \in Targets, IsFetched(t, manifest)
    PROVE  /\ FoundProver(t) \in Configs
           /\ \A d \in Candidates(t) : fetched[t][d] <= fetched[t][FoundProver(t)]
           /\ IsFetched(t, FoundProver(t))
  <1>1. PICK c \in Configs : /\ IsFetched(t, c)
                             /\ \A d \in Configs : fetched[t][d] <= fetched[t][c]
    BY DEF CargoInv, CargoTypeOK, NewestExists
  <1>2. \E x \in Candidates(t) : \A d \in Candidates(t) : fetched[t][d] <= fetched[t][x]
    BY <1>1 DEF Candidates, IsFetched
  <1>3. /\ FoundProver(t) \in Candidates(t)
        /\ \A d \in Candidates(t) : fetched[t][d] <= fetched[t][FoundProver(t)]
    BY <1>2 DEF FoundProver
  <1> QED
    BY <1>3 DEF Candidates, IsFetched

\* Without a return to an earlier configuration it is the manifest's.
LEMMA FoundProverIsOfManifest ==
    ASSUME CargoInv, ~Returns, NEW t \in Targets, IsFetched(t, manifest)
    PROVE  FoundProver(t) = manifest
  <1>t. manifest \in Configs /\ fetched \in [Targets -> [Configs -> Nat]]
    BY DEF CargoInv, CargoTypeOK
  <1>1. \A d \in Configs \ {manifest} : fetched[t][d] < fetched[t][manifest]
    BY DEF CargoInv, ManifestIsNewest
  <1>2. manifest \in Candidates(t)
    BY <1>t DEF Candidates, IsFetched
  <1>3. /\ FoundProver(t) \in Configs
        /\ fetched[t][manifest] <= fetched[t][FoundProver(t)]
    BY <1>2, FoundProverIsCandidate
  <1> QED
    BY <1>t, <1>1, <1>3
=============================================================================
