# TLA+ models of hekate-mobile

hekate-mobile lets an iPhone or Android app produce Hekate proofs: a Rust crate calls the proprietary prover, UniFFI
generates the Swift and Kotlin bindings, two small host libraries turn the blocking Rust call into a cancellable
`async` or `suspend` function, and an `xtask` packages the crate and the prover for both platforms. This directory
models the parts of it in which several things happen at once, something may fail half-way, or two pieces of code must
agree on the same numbers; it checks the models with TLC and proves most of their safety properties with TLAPS.

Run TLC with `tlc -config <run>.cfg <module>` and the proofs with `tlapm <module>Proofs.tla`. `PROJECT.json` lists
the runs, says for every definition which lines of the source it models, and names for every checked property a
plausible bug (a mutant of one definition) that TLC then catches.

## Inventory

| Component | State | Operations | Hard behaviour | Makes it correct |
|---|---|---|---|---|
| Rust prove calls, `examples/prover/src/{lib,rsa,mldsa,keccak,sha256}.rs` | the stage a call is in, its result | four `prove_*` functions: check, build, check, prove | requests between any two stages, panics, errors of every stage | a cancel is reported only if asked for; a request ends the call; one in time prevents the proof |
| `CancelToken`, same crate | `requested`, `inner` | `new`, `request` from any thread | two stores, tokens shared by calls, repeated requests | a stopped token stops all its calls |
| Rust verify calls, same files | none | four `verify_*` functions | the id and the length come from the caller | `Ok` only of what was proved; every returned proof verifies |
| Statements, `keccak.rs`, `sha256.rs`, `mldsa.rs` | the trace while it is written | capacity, block count, padding, published rows | boundaries of the grid, overflow, pads at block boundaries | the trace satisfies the program; the longest message that fits is the capacity |
| Swift package, `swift/Sources/Hekate` | task, handler, pool threads | `prove(inputs:priority:)` | cancel before, during and after; exhausted pool | each await ends once, cancelled only if its own task was |
| Kotlin library, `kotlin/lib` | job, block, continuation, handler, dispatcher threads | `HekateProver.prove` | prompt cancellation, cancels between any two lines, queueing | no proof for a cancelled coroutine, the right exception, nothing left running |
| `xtask ios-build` | frameworks, bindings, xcframeworks under `target/` | one run of some twenty steps | failure at any step, reruns over the leftovers, edits between runs | what a success packages belongs together |
| `xtask android-build` | the Gradle module's directories, the archive | one run of some ten steps | the same | the archive is whole, patched and of this run |
| Prover library in `target/` | one copy per configuration built | `find_prover_cdylib` | several configurations side by side | the packaged prover is the linked one |
| Template crate, `template/src` | its own `CancelToken` | `prove` | the prover is the only one to look at the token | as the Rust prove calls, less the checks |
| iOS app, `examples/ios` | `RunModel.phase`, the task, keys in the Keychain | select, start, cancel, progress | cancel against progress and result; half-made keys | the phase tells the outcome of the last run, of what is selected |
| Android app, `examples/android` | `job`, the views, keys in the Keystore | select, start, cancel, creation and end of activities | overlap of an old and a new activity and their runs | no report of a cancelled run; nothing left behind |
| `xtask doctor` | none | probes of the machine, hints | a probe that hides another or misreads, rules that differ from the builds', what has no probe | a success leaves no prerequisite unnamed; following the hints leads to it |
| determinism harness, reports | none | a single proof, formatting | none | - |

How they interact: an app's benchmark calls the host library's `prove`, which makes a `CancelToken`, calls the
generated binding of `prove_*` on a pool thread, and calls `request()` from whichever thread cancels. The Rust call
reads the token's own flag twice and hands the inner flag to the prover, which polls it. The builds run Cargo, read
what Cargo left in `target/`, and write the frameworks or the archive that the apps link.

## Modules

| Module | Models | Extends or uses |
|---|---|---|
| `CancellableProve` | the abstract promise of a cancellable proof to its caller | - |
| `ProveCall` | the Rust prove calls and `CancelToken` | instance of `CancellableProve` |
| `ProveCallProofs` | theorems about `ProveCall` | `ProveCall`, `TLAPS` |
| `SwiftProve` | the Swift package over the Rust call | `ProveCall`, instance of `CancellableProve` |
| `KotlinProve` | the Kotlin library over the Rust call | `ProveCall`, instance of `CancellableProve` |
| `CargoTarget` | the part of `target/` both builds read, and `find_prover_cdylib` | - |
| `IosBuild` | `cargo xtask ios-build`, run any number of times | `CargoTarget` |
| `AndroidBuild` | `cargo xtask android-build`, the same | `CargoTarget` |
| `TraceGrid` | the rows of a trace and the `usize` arithmetic of the capacities | - |
| `KeccakStatement`, `Sha256Statement`, `MlDsaStatement` | the program and the trace of a statement, as operators | `TraceGrid` |
| `RoundTrip` | from the inputs of a prove function to the verdict on its proof | instances of the three statements |
| `IosApp` | the iOS app: selection, phases, the task of a run, the Keychain | instance of `CancellableProve` |
| `AndroidApp` | the Android app: activities, their jobs, the Keystore | instance of `CancellableProve` |
| `Doctor` | `cargo xtask doctor` and the developer who follows it | - |
| `SwiftProveProofs`, `KotlinProveProofs` | theorems about the host libraries | the library's module, `ProveCallProofs` |
| `CargoTargetProofs` | lemmas about `target/` | `CargoTarget`, `TLAPS` |
| `IosProofs` | theorems about `IosBuild` and `IosApp` | `IosBuild`, `IosApp`, `CargoTargetProofs` |
| `AndroidProofs` | theorems about `AndroidBuild` and `AndroidApp` | `AndroidBuild`, `AndroidApp`, `CargoTargetProofs` |
| `RoundTripProofs` | theorems about `RoundTrip` | `RoundTrip`, `TLAPS` |
| `DoctorProofs` | what a success of `doctor` is worth | `Doctor`, `TLAPS` |

`RoundTrip` is sequential: `ProveCall` has the interleavings of the same functions, with what their stages compute
abstracted, and `RoundTrip` has what they compute. The apps stand on `CancellableProve` instead of on the host
libraries: `SwiftProve` and `KotlinProve` are shown to implement it, and the apps rely on nothing else of them.

### CancellableProve

Per call an `outcome` (`idle`, `pending`, or how it ended) and the set `asked` of calls somebody asked to stop. A call
begins once and ends once. It ends with `Cancelled` only if asked. `LateProof` distinguishes two strengths: `TRUE`
lets a proof that won the race be delivered (the Rust call and the Swift await), `FALSE` forbids a proof once the
cancel was asked for (the Kotlin suspend call).

### ProveCall

`at[c]` is the index of the stage call `c` is in; `Stages` lists the stages of each statement in the order of the
code, ending with those of `run_prover`: `check` (`ensure_not_cancelled`), `id`, `seed`, `prover`. `Refusals` gives
the errors the code maps a failure of the stage to. The actions are what may happen to a call: `Call`, `Check`,
`Work` (the stage succeeds), `Refuse` (an early return), `Panic` (unwinding caught by `guard`), `Poll` (the prover
sees its token and `map_prover_error` keeps the code), `Finish` (the prover returns a proof, whether or not it was
asked to stop after its last poll). A panic in `ensure_not_cancelled` is left out: it reads one flag. `request()` is
two actions, `SetRequested` then `SetInner`, of a host thread that may be interleaved with everything else. Tokens are
arbitrary: calls may share one or have none.

The prove call of the template crate is a fifth statement: it has no `check`, so only the prover looks at the token.
It takes the tokens of its own crate, whose `request()` has one store; the first of the two in the model is then seen
by nobody. `NoProofWhenRequestedInTime` is not claimed of it (`BeforeProver` leaves it out), the rest is.

Abstracted: inputs, traces and proofs. Whether a signature verifies or a message fits is the choice between `Work` and
`Refuse`. The prover is external; it is modelled by what `run_prover` relies on.

### SwiftProve

The await of call `c` is `task[c]`: `Enter` (the token, `withTaskCancellationHandler`), `Detach`, `StartProof` on a
pool thread, the steps of the Rust call, `Resume`. `handler[c]` is the cancellation handler: armed until the operation
returns, due once the task is cancelled, then the two stores of `request()` as steps of its own. It runs on the thread
that cancels, or on the awaiting thread when the task was cancelled already, and there before the operation.
`Threads` is the size of the cooperative pool; a running Rust call keeps its thread, a suspended await holds none.

Assumed of Swift: a detached task does not inherit cancellation, the value of a task is delivered to an awaiter even
if that awaiter is cancelled, and the cancellation handler runs at most once.

### KotlinProve

The block of `withContext` is `phase[c]`; one action per line of the library: `Enter` (`withContext` looks at the job
and dispatches), `Start`, `OpenContinuation`, `RegisterHandler`, `StartProof`, the steps of the Rust call,
`ResumeWith`, `Complete`, `Resume`. `Job.cancel()` is three actions on the thread that cancels: the caller's job, the
block's job, the continuation (which runs the handler, again in the two stores of `request()`); the block may move
between any two of them.

Assumed of kotlinx.coroutines: a block cancelled in the queue is not run; a continuation opened under a cancelled job
is born cancelled; a handler registered on a cancelled continuation runs at once; a cancelled continuation ignores
`resumeWith`; a suspended value, but not an exception, is dropped when the job is cancelled by the time it is handed
over (prompt cancellation). `Inside` are calls made by a coroutine that already runs on the dispatcher, as the Android
benchmark's are: `withContext` then dispatches neither the block nor the return.

### CargoTarget

Cargo keeps one build directory of `hekate-prover-sys` per configuration (version and mode), each with the prover
library its build script fetched, and does not run the script again when a configuration returns. The crate's own
library has one path, overwritten by each build. `FoundProver` is `find_prover_cdylib`: the newest of the candidates.
A clock that grows by one at each fetch stands for the modification times.

### IosBuild and AndroidBuild

`at` is the step of the run, with one action per step of `run` and a failure in each; a failed run keeps what it wrote
(a framework or a copied file may be left `Partial`), and the next run starts on top of it. A file is the thing it was
made from: a framework holds the library it was copied from, bindings the revision they were generated from. Between
two runs the developer may edit the source (`EditSource`) or the configuration in `Cargo.toml` (`EditManifest`). With
`Returns = FALSE` a configuration that was left is not returned to.

Assumed: `xcodebuild` and Gradle write their output last or not at all, and Gradle packages what the directories
hold. The developer does not edit during a run: the run takes no lock and promises nothing then.

### TraceGrid, KeccakStatement, Sha256Statement, MlDsaStatement

Each statement module has two sides that the code writes separately. `Program(len)` is what `build_program` fixes,
constrains and publishes, computed from the length of the message. `EmptyTrace`, `WriteCall` and `WriteRest` are
`build_trace`, one turn of its loop at a time over the calls of the sponge or the blocks of the padded message.
`Satisfies` says that a trace is a witness of a program: the fixed columns agree, the boundary values, the gated
constraints and the published rows hold. A lane of the Keccak state is the set of the terms that were added to it, so
that adding twice cancels, as it does in the field; an output of the permutation is a term of its own. The eight words
of a SHA-256 chaining value are one value. `Capacity` is `keccak_capacity` and `sha256_capacity` with `usize` of
`UsizeBits` bits. `PowerOfTwo` is the shift of a one, as a recursive function over the width of `usize`. In
`MlDsaStatement` the pipeline may list its words in another order (`Layouts`); `EnsurePublished`
is what notices.

### RoundTrip

`phase` goes through `called`, `witness`, `prover`, `proved`, `verified` or `refused`; `Verify` is a second caller who
may ask any verify function about any length, values, id and bytes. The prover does not check a witness and returns a
proof in any case; the verifier accepts a proof of a satisfied program under the same label, program and public values
if the id is that program's. A program id is the program, of which it is a hash.

Left out: errors of building a statement that takes no argument (RSA, ML-DSA: always or never), and the contents of
messages and signatures, of which only their lengths and whether they verify are kept. The witness of RSA and
`BLOCK_ROWS` come from gadget crates; 25 rows stand for the latter.

### IosApp

`statement`, `inputSize` and `phase` are `RunModel`'s, changed by the pickers (`SelectStatement`, `SelectSize`), the
buttons (`Start`, `Cancel`) and the task. `step` is where the task is between two visits to the main actor: it reads
the conditions (`Prepare`), opens the session (`LoadKey`, `CreateKey`, `StoreKey`), and for each proof shows progress,
makes the inputs, proves and verifies; `FinishTask` and `Catch` write the outcome. `stored` is the Keychain, which
outlives `Kill`, the end of the process at any moment. A step of the task may fail wherever the code may throw.

Assumed: the view shows the phase before the next tap, so a disabled picker is not tapped; the device can sign ML-DSA
and keeps having or lacking a Secure Enclave. The two hashes are one statement, `hash`.

### AndroidApp

Each activity has its views (`status`, `running`), its job and its scope; `Destroy` cancels the scope and `Create`
brings the next activity while the old job still goes on. The system may destroy the old activity first (a
re-creation) or only later (the user goes back and starts the app again). `step` is where a job is: launched,
dispatched to the benchmark's `withContext`, at its key, on the main thread for a progress line, at a proof, or on its
way back. A job looks at its cancellation where a coroutine does, never inside a key generation. Every key store
access may fail; `GenerateKey` replaces what is under the alias, as `generateKeyPair` does, also when the session then
refuses the pair.

Assumed: the main looper begins the launched block before the Cancel button is drawn, so that no tap cancels a job
whose block has not begun.

### Doctor

The machine is what the probes or the builds can tell apart, `hints` what the last run of `doctor` printed. A check is
the set of hints it fails with. `FollowHint` does what one hint says, in any order, with runs of `doctor` between.
`Ready` is read off the commands of the two builds and off `gradlew`, not off the probes. Two things in it have no
probe: the Android SDK, and an older JDK under `JAVA_HOME`, which `gradlew` prefers to the one on `PATH` that `doctor`
asks. `ReadsAsNone` is the substring test on the number of identities. `doctor` refuses an early-access JDK whose
version does not parse; that is a hint too many, and harmless. Whether an identity belongs to the team id, whether the
tools that come with Xcode run, and whether Gradle can download its dependencies are left out of `Ready`.

## Runs

| Run | Shows | Instance |
|---|---|---|
| `Prove` | `CancelledWasRequested`, `StoppedTokenStopsOthers`, `ImplementsPromise`, `RequestEndsCall`, `NoProofWhenRequestedInTime`, types | 2 calls, 1 token or none, 1 requesting thread, all five statements; 202 000 states |
| `Swift` | `AwaitKeepsPromise`, `CancelledBeforeCallIsRefused`, `CancelStopsRunningProof`, `CancelAllReturnsAll`, `EveryAwaitReturns`, types | 2 awaits, 1 thread; 21 000 states |
| `SwiftLateProof` | finding: `CancelledAwaitThrows` is violated | 1 await |
| `Kotlin` | `SuspendKeepsPromise`, `RustCancelIsNotThrown`, `NoProofBehindCaller`, `CancelledBeforeHandlerIsRefused`, `CancelStopsRunningProof`, `CancelAllReturnsAll`, `EveryCallReturns`, types | 2 calls, one of them `Inside`, 1 thread; 56 000 states |
| `IosBuild` | `SuccessIsWhole`, `NoSkewedXcframework`, `SignedTogether`, `PackagedProverIsLinked`, types | 2 slices, 2 configurations, 2 revisions, no return; 545 000 states |
| `IosReturn` | finding: `PackagedProverIsLinked` is violated | with returns, 1 revision |
| `AndroidBuild` | `AarIsWhole`, `SuccessIsCurrent`, `PackagedProverIsLinked`; its types are proved (`AndroidTypeCorrect`) | 1 ABI, 2 configurations, 2 revisions, no return |
| `RoundTrip` | `ReturnedProofVerifies`, `VerifiedIsProved`, `CapacityDrawsTheLine` | 22 lengths of hash messages, 2 of signed ones, 6 grids; 10 600 states |
| `IosApp` | `ReportIsOfSelection`, `ReportedKeyIsKept`, `OutcomeStays`, `CancelEndsRun` | 3 proofs per run, 2 sizes, 2 keys; 6 500 states |
| `AndroidApp` | `JobIsShown`, `NoReportAfterCancel`, `CancelEndsRun`, `DestroyedActivityStopsProving` | 2 activities, 2 proofs per run, ML-DSA and a hash; 221 000 states |
| `AndroidKeyRace` | finding: `KeyMadeOnce` is violated | 2 activities, 1 proof per run, RSA |
| `Doctor` | finding: `HintsLeadToReady` is violated | every machine the probes and the builds tell apart, 0, 1 or 10 identities, each platform and both; 266 000 states |

Why the bounds suffice. The properties of the calls are about one call, or about two calls and a token between them.
The statements differ in their stages only, and `Prove` takes all five. One thread fewer than there are calls is what
makes a pool exhausted; one thread is the tightest pool there is. Two configurations and two revisions are what a mix
needs; runs are not bounded, so a leftover may be of any earlier run. `MaxRevision` is the only bound on a counter of
the builds; the clock of `CargoTarget` is bounded by the number of build directories. The lengths of `RoundTrip` lie
on both sides of every boundary: one block, two, many, the last lane of a block, the last length of a grid, lengths
that are not accepted. Of the grids, 2^17 makes the shift of a `usize` of 16 bits fail and 2^14 the product of
Keccak's capacity; 2^8 is the least grid a statement takes (the capacities answer for less, and no statement has so
few rows). `WordSize` 512 stands for the 2^32 of a word, so that a message's bits need the second word. Of two or
three proofs in a run there is a first, a last and one with a next. Two activities are what an overlap needs;
`MaxActivities` bounds their number.

`CHECK_DEADLOCK` stays on except in two runs that really stop: a round trip ends with its verdict (`RoundTrip`), and
the last activity that the bound allows may be destroyed (`AndroidApp`, `AndroidKeyRace`). In `SwiftProve` and
`KotlinProve` a run whose calls have all returned and been cancelled has nothing left to do: the action `Terminated`
stutters in exactly those states. In `ProveCall` a token may be requested for ever; in the builds the developer may
start another run, in the iOS app the user, and `doctor` may be run again.

### Fairness

Weak fairness is on the steps that a scheduled thread takes anyway: the checks and the successful stages of a running
call, the prover's next poll once its token is requested, the second store of a request that began, a handler that was
invoked, a queued block or detached task while a thread stays free. None is on calling, cancelling, requesting,
refusing or panicking. That proofs end is assumed (`ProofsEnd`) only in the two properties that ask
whether every call returns without any cancel (`EveryAwaitReturns`, `EveryCallReturns`); the others hold for a proof
that would never end. Weak
fairness on `Poll` is the documented behaviour of the prover, "the prover stops at its next poll".

In the apps weak fairness is on the steps of a task or a job, which the main thread and the pool run when queued, and
on the end of a proof that was asked to stop: that is `AskedEnds` of `CancellableProve`, which `SwiftProve` and
`KotlinProve` establish as `CancelStopsRunningProof` and its companions. No other proof need end, and no user need tap.
In `Doctor` the fairness is the developer's: who stops following the hints is not helped by them.

## Findings

- **A cancelled Swift await may return a proof** (`SwiftLateProof`). `swift/README.md` says that after a cancel "the
  `await` throws `ProveError.Cancelled`". If the request comes after the prover's last poll, the detached task ends
  with a proof and `.value` hands it over. Kotlin's library does not have the case: coroutines drop the value. A
  caller that treats "returned" as "not cancelled" has to look at `Task.isCancelled` itself.
- **The builds may package another prover than the one that was linked** (`IosReturn`). Build with `ct`, switch to
  `public` to measure, as `examples/README.md` suggests, switch back and build: the newest prover library in `target/`
  is the public one, and `find_prover_cdylib` of either build takes it. The crate, and the app's report, say `ct`.
  Without a return to an earlier configuration the newest library is always the linked one (`IosBuild`,
  `AndroidBuild`), which is what hides it.
- **A second Android activity may replace the signing key of a run** (`AndroidKeyRace`). A session loads its key and
  generates one if there is none. The job of an earlier activity that is inside the generation finishes it, cancelled
  by the end of the activity or not; the run of the next activity has found no key either, generates another under the
  same alias, and the first key is gone. `examples/README.md` says that each proof signs "with a key made on first
  use". A run that was cancelled reports nothing, which is why nobody sees it, but the order may also be the reverse:
  then the run that is shown signs with, or fails on, a key that is no longer under its alias.
- **`doctor` does not name every missing prerequisite** (`Doctor`). `README.md` says that it does, "and prints the
  fix". Gradle also takes the Android SDK (`examples/README.md`: "Gradle finds the SDK through `ANDROID_HOME`"), which
  no check looks for: the run ends with a success of `doctor android` on a machine without it, whose `android-build`
  fails at its last step. Two more kinds of machine break the sentence, which a run that stops at its first
  counterexample does not show. With a JDK older than 17 under `JAVA_HOME`, `doctor` asks the `javac` on `PATH` and
  `gradlew` runs `JAVA_HOME` first. And with ten identities in the keychain, or twenty, `doctor` reads "10 valid
  identities found" as "0 valid identities found": it fails for ever, with a hint to sign in that changes nothing. A
  success overlooks nothing else than the first two: that is `SuccessIsReady`.

## Proofs

Each theorem holds for every value of the constants under the assumptions the modules name; its module is the
component's with `Proofs` appended, `IosProofs` and `AndroidProofs` for the build and the app.

| Theorem | States |
|---|---|
| `ProveTypeCorrect` | `ProveSpec => []ProveTypeOK`, including that no call walks past its last stage |
| `CancelIsNeverSpurious` | `ProveSpec => []CancelledWasRequested` |
| `StoppedTokenStopsEveryCall` | `ProveSpec => StoppedTokenStopsOthers` |
| `RequestInTimePreventsProof` | `ProveSpec => NoProofWhenRequestedInTime` |
| `ProveCallImplementsPromise` | `ProveSpec => ImplementsPromise`, the refinement of `CancellableProve` |
| `SwiftTypeCorrect` | `SwiftSpec => []SwiftTypeOK` |
| `SwiftImplementsPromise` | `SwiftSpec => AwaitKeepsPromise`, the refinement of `CancellableProve` |
| `CancelBeforeCallRefuses` | `SwiftSpec => CancelledBeforeCallIsRefused` |
| `KotlinTypeCorrect` | `KotlinSpec => []KotlinTypeOK` |
| `CancelIsCancellationException` | `KotlinSpec => []RustCancelIsNotThrown` |
| `NoProofIsLeftRunning` | `KotlinSpec => []NoProofBehindCaller` |
| `CancelBeforeHandlerRefuses` | `KotlinSpec => CancelledBeforeHandlerIsRefused` |
| `KotlinImplementsPromise` | `KotlinSpec => SuspendKeepsPromise`, the refinement without late proofs |
| `IosTypeCorrect` | `IosSpec => []IosTypeOK` |
| `ReleaseIsWhole` | `IosSpec => []SuccessIsWhole` |
| `XcframeworkIsOfOneRevision` | `IosSpec => []NoSkewedXcframework` |
| `SignedReleaseIsOfOneRun` | `IosSpec => []SignedTogether` |
| `ReleaseProverIsLinked` | `~Returns => (IosSpec => []PackagedProverIsLinked)` |
| `AndroidTypeCorrect` | `AndroidSpec => []AndroidTypeOK` |
| `ArchiveIsWhole` | `AndroidSpec => []AarIsWhole` |
| `ArchiveIsCurrent` | `AndroidSpec => []SuccessIsCurrent` |
| `ArchiveProverIsLinked` | `~Returns => (AndroidSpec => []PackagedProverIsLinked)` |
| `ReportFollowsSelection` | `AppSpec => []ReportIsOfSelection` (of `IosApp`) |
| `ReportedKeyIsInKeychain` | `AppSpec => []ReportedKeyIsKept` |
| `OutcomeIsNotOverwritten` | `AppSpec => OutcomeStays` |
| `ViewsFollowJob` | `AppSpec => []JobIsShown` (of `AndroidApp`) |
| `CancelledRunIsNotReported` | `AppSpec => NoReportAfterCancel` |
| `FirstActivityKeepsItsKey` | `AppSpec => FirstActivityKeepsKey` |
| `KeyIsMadeOnceByOneActivity` | `MaxActivities = 1 => (AppSpec => KeyMadeOnce)` |
| `VerifiedWasProved` | `RoundTripSpec => []VerifiedIsProved` |
| `ReturnedProofIsVerified` | `RoundTripSpec => []ReturnedProofVerifies` |
| `CapacityIsExact` | `RoundTripSpec => []CapacityDrawsTheLine` |
| `SuccessIsReady` | `DoctorSpec => [](exit = "success" /\ ~Unprobed => Ready)` |

`ProveCallProofs`. `CancelledWasRequested` is not inductive: `Poll` reads the inner flag, and nothing in it says that
the other flag is set. `ProveInv` adds `InnerIsRequested`, which holds because `request()` writes `requested` first: a
token whose inner flag is set, or which a thread is in the middle of requesting, is requested. With types it is
inductive. For `RequestInTimePreventsProof` a second invariant, relative to one call that was requested before
`run_prover` went to work, says that the call stays before the last check or has returned something other than a
proof: requests are never taken back, a check on a requested token ends the call, and only a check leads to the
`id`, `seed` and `prover` stages (`OnlyChecksLeadToProver`, a fact about the tables). The refinement maps a
`SetRequested` to `Ask` of every call that holds the token, a `Call` to `Begin`, and every return to `End`.
`NoProofWhenRequestedInTime` speaks of the statements of `examples/prover`; the template crate is not among them, and
`CancelledBeforeCallIsRefused` and `CancelledBeforeHandlerIsRefused` leave it out too: it has no `check`.

`SwiftProveProofs` and `KotlinProveProofs` reuse `ProveInv` and add what ties the host's state to the Rust call's. For
Swift (`AwaitInv`): every await has a token of its own, which is requested, or about to be, only when its task is
cancelled; the Rust call begins only in the detached task; and what the await returns is the call's result. So a
`Cancelled` of the Rust call always answers a cancel of the await, which is what `End` of the promise demands. For
Kotlin, `CancelTravels` says how far a cancel has come, from the caller's job to the block's job, the continuation and
the token, each only after the one before it, and `BlockFollowsCall` which phases of the block go with which states of
continuation and call. A `ProveError.Cancelled` then finds the continuation cancelled already, which drops it, and a
proof that is handed over finds no cancelled job. For `CancelBeforeHandlerRefuses` a third invariant, `Refused`,
follows one call whose continuation was cancelled before its handler was there: the handler runs as it is registered,
the Rust call waits for that, and then stays at its first check until it ends without a proof.

`IosProofs` and `AndroidProofs`, the builds. `SuccessIsWhole` and its companions say nothing of the middle of a
run, and a run starts on whatever earlier ones left. The invariant says for each step what the present run has written
by then; on iOS it follows the two loops slice by slice (`SliceInv`: compiled, wrapped, relinked, wired). A failed
step ends the run, which makes that part of it vacuous, and may only remove xcframeworks, which makes the rest weaker.
That `find_prover_cdylib` finds the manifest's library needs `ManifestIsNewest`: its build directory, once there, is
the newest. That holds only while no configuration is returned to; without the hypothesis the statement is false,
which is the finding of `IosReturn`. `NoFileIsNoXcf` and `NoFileIsNoAar` say that the value of an empty path is none
of the things a path can hold.

`IosProofs`, the app. `TaskIsShown`: the phase says that a run is under way exactly while there is a task. From it the
selection cannot change under the task, and no task is left to overwrite an outcome. `KeyInv`: a key is made only for
an empty account and is in the Keychain before the first proof.

`AndroidProofs`, the app. Only the `finally` of a job's block takes the views of a run back, so a job that is cancelled
before its block begins would leave the activity showing a run for ever, with nothing to tap. `JobIsShown` says that
it does not happen on the screen, and is not inductive: `ViewsInv` adds that none of a job's proofs is asked to stop
until its block has begun, unless its activity is destroyed. `FinishJob` gives that back, because `Cancel` cancels the
job and not the scope. It needs a run to have a proof (`SomeRuns`). `NoReportAfterCancel` needs of `ViewsInv` what a
block can have thrown. `KeystoreInv` says that the account of a job about to generate a key is still empty while one
activity was created, for then no other job runs (`OneJob`). So the first activity keeps its keys, and an app with a
single activity makes each key once: the finding of `AndroidKeyRace` takes a second activity. The build and the
app share no state, and each theorem of the module is about one of them.

`RoundTripProofs`. `ProofInv` carries what the prover wrote into the proof to the verdict. The rest of
`VerifiedIsProved` is arithmetic: two accepted lengths with the same program are equal, because `published` gives the
number of Keccak blocks and the first lane of the pad the rest, and `finalRow` the number of SHA-256 blocks, which an
accepted message fills. It needs that lengths are numbers (`LengthsAreNat`) and that a permutation has rows
(`BlockRowsAreRows`).

For `ReturnedProofVerifies`, `WitnessInv` says at every turn of `build_trace` what the first `b` blocks have left in
the trace (`KeccakWritten`, `Sha256Written`: the states or rows of those blocks, the selectors so far), and that what
comes to the prover satisfies the program. Satisfaction is where the two ways of writing a statement meet: the blocks
counted over lanes and over bytes are the same number, the pad of the program is what the last block absorbs
(`KeccakPadIsAbsorbed`, `Sha256PadIsLast`), the row below the last permutation takes over its capacity lanes, and the
words of ML-DSA that `ensure_published` compares are the ones the program publishes. That the trace fits needs that
`NextPowerOfTwo(n)` is a power of two not below `n`, which follows from the least exponent by well-foundedness. The
assumptions: `usize` holds the rows of a message (`UsizeHoldsRows`) and the host words (`MlDsaSizesAreNat`, which also
has a key hash fill its words), a message's bits fit two words (`BitsFitTwoWords`), and the rows of a permutation have
an odd factor (`BlockRowsHaveOddFactor`), as 25 has. From it no number of blocks fills a grid (`BlocksFillNoGrid`).
Without it Keccak's trace would have no row below its last permutation and an honest call would be refused. For ML-DSA
the theorem covers every order of the words in `Layouts`; for RSA the witness is the gadget's, and a signature that
verifies is taken to satisfy it.

For `CapacityDrawsTheLine`, and for `BlocksFillNoGrid`, the powers of two have to be known. `PowerOfTwo` is a recursive
function, and what its equation determines is proved by induction over the exponent: a solution exists
(`DoublingExists`, which extends one by one more power), so that `PowerOfTwo` is one (`PowerOfTwoDoubles`); it grows
(`PowersGrow`); an odd number greater than one divides none of its values (`PowerHasNoOddFactor`). An induction is
here a set that holds 0 and the successors of its members (`InductionOnSet`, from well-foundedness). Then a grid holds
the rows of a message exactly if it holds its blocks (`NumRowsHold`), and the rest divides by the rows of a block. The
theorem covers every grid the prover takes (`LogsAreOfGrids`): asked for less than `MIN_NUM_VARS`, from 2^5 rows on,
the functions name a length although no statement has so few rows.

`DoctorProofs`. `SuccessInv`: after a success there is no hint left, so that nobody changes the machine and every probe
of the platform stays true of it. From the probes `SuccessIsReady` derives what the builds take, except what
`Unprobed` names. `JdkTellsMajor` goes through the version strings that `parse_javac_major` has to tell apart.

TLC has checked each inductive invariant on the instance of its run.

What is only model-checked:

- the liveness properties (`RequestEndsCall`, those of the host libraries, the apps and `Doctor`): they rest on
  fairness and `ENABLED`, which TLAPS does not reason about;
- the findings, whose counterexamples are TLC's. Three of them have a theorem on their other side: without a return
  to an earlier configuration the linked prover is packaged, without a second activity a key is made once, and with
  the Android SDK and a fitting `JAVA_HOME` a success of `doctor` is one.

Every safety invariant and every action property that a passing run checks is also a theorem.

## Plan

1. Done: `CancellableProve`, `ProveCall` with its proofs, `SwiftProve`, `KotlinProve`, `CargoTarget`, `IosBuild`,
   `AndroidBuild`.
2. Done: the template crate in `ProveCall`; `TraceGrid`, `KeccakStatement`, `Sha256Statement`, `MlDsaStatement` and
   `RoundTrip`; `IosApp`, `AndroidApp`, `Doctor`.
3. Done: the proofs about `SwiftProve`, `KotlinProve`, the builds and `IosApp`; `VerifiedIsProved` and
   `ReturnedProofVerifies` of `RoundTrip`.
4. Done: `CapacityDrawsTheLine` of `RoundTrip`; `JobIsShown`, `NoReportAfterCancel` and the keys of `AndroidApp`.

Left: the liveness properties are checked on instances only.

## Not modelled

The prover, the verifier, UniFFI, the Swift runtime, kotlinx.coroutines, Cargo, Xcode and Gradle are external and
modelled by what the code here relies on. The gadgets' own constraints and chiplets (whether a Keccak permutation, a
SHA-256 compression or a signature check is what its name says) are the business of the gadget crates; `RoundTrip` has
what this code puts around them. The overlap of two calls inside one hash or signature statement is nothing to model:
they share no state. Reports, device conditions and memory footprints are formatting and
reads of the system. The determinism harness proves fixed inputs once; what it compares is the prover's output.
`Info.plist` contents, the module map rewrite and the Kotlin anchor are abstracted to succeeding or failing.
