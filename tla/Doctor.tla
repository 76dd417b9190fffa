------------------------------- MODULE Doctor -------------------------------
(***************************************************************************)
(* cargo xtask doctor (doctor.rs): probes of the machine, a hint for every *)
(* failed one, and an exit code for the platform asked about.  The         *)
(* developer follows the hints and asks again.  A probe may hide another:  *)
(* without rustup no target can be listed, and the team id is named only   *)
(* once there is an identity.  What a platform really takes is read from   *)
(* the commands of ios_build.rs and android_build.rs and from gradlew.     *)
(*                                                                         *)
(* Two things a build takes have no probe: the Android SDK, and that the   *)
(* JDK under JAVA_HOME, which gradlew prefers, is as new as the javac on   *)
(* PATH.  And one probe misreads what it finds: a number of identities     *)
(* that ends in 0 passes for none.                                         *)
(***************************************************************************)
EXTENDS Naturals, Sequences

CONSTANTS
    NoJavac,        \* javac cannot be run, or exits with an error
    NotNumber       \* a component of a version that u32 cannot parse

IosTriples == {"aarch64-apple-ios", "aarch64-apple-ios-sim"}
AndroidTriples == {"aarch64-linux-android"}

\* The javac of a release: what it prints after its name, the components of the
\* first token that starts with a digit (<<>> if there is none), and its major.
Javacs == {
    [version |-> <<1, 8, NotNumber>>, major |-> 8],     \* 1.8.0_392
    [version |-> <<11, 0, 20>>, major |-> 11],
    [version |-> <<17, 0, 5>>, major |-> 17],
    [version |-> <<NotNumber>>, major |-> 22],          \* 22-ea
    [version |-> <<>>, major |-> 17]}

\* How many identities a keychain may hold: none, one, and a number that ends
\* in the digit of none.
IdentityCounts == {0, 1, 10}

VARIABLES
    sdk, cargoNdk,  \* whether the machine has it
    androidSdk,     \* whether Gradle finds the Android SDK (ANDROID_HOME)
    identities,     \* the valid codesigning identities in the keychain
    rustup,         \* whether rustup is on PATH
    targets,        \* the targets rustup has installed
    team,           \* HEKATE_IOS_TEAM_ID: "unset", "empty" or "set"
    ndkHome,        \* ANDROID_NDK_HOME: "unset", "gone" (no directory) or "dir"
    javac,          \* a member of Javacs, or NoJavac
    javaHome,       \* JAVA_HOME: "unset", "older" (than 17) or "fits"
    platform,       \* what the developer asks about: "ios", "android", "both"
    exit,           \* the exit of the last run of doctor
    hints           \* the hints it printed that are not yet followed

machine == <<sdk, cargoNdk, androidSdk, identities, rustup, targets, team,
             ndkHome, javac, javaHome>>
vars == <<machine, platform, exit, hints>>

\* A machine without rustup lists no target.
DoctorInit ==
    /\ sdk \in BOOLEAN /\ cargoNdk \in BOOLEAN /\ androidSdk \in BOOLEAN
    /\ identities \in IdentityCounts
    /\ rustup \in BOOLEAN
    /\ targets \in SUBSET (IosTriples \cup AndroidTriples)
    /\ ~rustup => targets = {}
    /\ team \in {"unset", "empty", "set"}
    /\ ndkHome \in {"unset", "gone", "dir"}
    /\ javac \in Javacs \cup {NoJavac}
    /\ javaHome \in {"unset", "older", "fits"}
    /\ platform \in {"ios", "android", "both"}
    /\ exit = "none"
    /\ hints = {}
-----------------------------------------------------------------------------
(* A check is the set of hints it fails with: {} is Status::Ok. *)

Unless(found, hint) == IF found THEN {} ELSE {hint}

XcodeIosSdk == Unless(sdk, "sdk")

\* ios_targets and android_targets, with rustup_installed_targets.
TargetsCheck(wanted, hint) ==
    IF rustup THEN Unless(wanted \subseteq targets, hint) ELSE {"rustup"}

AndroidNdk == Unless(ndkHome = "dir", "ndk")

CargoNdk == Unless(cargoNdk, "cargoNdk")

\* parse_javac_major: 1.x is x; NotNumber where the code answers None.
JavacMajor(version) ==
    CASE version = <<>> -> NotNumber
      [] version # <<>> /\ version[1] # 1 -> version[1]
      [] version # <<>> /\ version[1] = 1 ->
            IF Len(version) = 1 THEN NotNumber ELSE version[2]

Jdk ==
    Unless(/\ javac # NoJavac
           /\ JavacMajor(javac.version) # NotNumber
           /\ JavacMajor(javac.version) >= 17, "jdk")

\* Whether the output of `security find-identity` for n identities, which ends
\* in "<n> valid identities found", contains "0 valid identities found".
ReadsAsNone(n) == n % 10 = 0

CodesignIdentity ==
    IF ReadsAsNone(identities) THEN {"identity"} ELSE Unless(team = "set", "team")

IosChecks ==
    XcodeIosSdk \cup TargetsCheck(IosTriples, "iosTargets") \cup CodesignIdentity

AndroidChecks ==
    AndroidNdk \cup TargetsCheck(AndroidTriples, "androidTargets")
        \cup CargoNdk \cup Jdk

\* run and report.
RunDoctor ==
    LET failed == (IF platform # "android" THEN IosChecks ELSE {})
                  \cup (IF platform # "ios" THEN AndroidChecks ELSE {})
    IN  /\ hints' = failed
        /\ exit' = IF failed = {} THEN "success" ELSE "failed"
        /\ UNCHANGED <<machine, platform>>

Gets(hint, has, value) == has' = IF hint \in hints \ hints' THEN value ELSE has

\* What the developer does is what the hint says.  A new rustup has no mobile
\* target; an installed JDK is the one on PATH, and JAVA_HOME is set to it or
\* left, for only one of the four hints of jdk names it; who signs in to the
\* account gets an identity, or has them already.
FollowHint ==
    /\ \E h \in hints : hints' = hints \ {h}
    /\ Gets("sdk", sdk, TRUE)
    /\ Gets("rustup", rustup, TRUE)
    /\ targets' = targets
            \cup (IF "iosTargets" \in hints \ hints' THEN IosTriples ELSE {})
            \cup (IF "androidTargets" \in hints \ hints' THEN AndroidTriples ELSE {})
    /\ Gets("identity", identities, IF identities = 0 THEN 1 ELSE identities)
    /\ Gets("team", team, "set")
    /\ Gets("ndk", ndkHome, "dir")
    /\ Gets("cargoNdk", cargoNdk, TRUE)
    /\ Gets("jdk", javac, [version |-> <<17, 0, 5>>, major |-> 17])
    /\ \E home \in {javaHome, "fits"} : Gets("jdk", javaHome, home)
    /\ UNCHANGED <<androidSdk, platform, exit>>

DoctorNext == RunDoctor \/ FollowHint

DoctorSpec ==
    DoctorInit /\ [][DoctorNext]_vars /\ WF_vars(RunDoctor) /\ WF_vars(FollowHint)
-----------------------------------------------------------------------------
\* cross_compile builds every slice with the iOS SDK; run then asks for a team
\* id that is not empty and signs with an identity.
IosBuildFinds == IosTriples \subseteq targets /\ sdk /\ team = "set" /\ identities > 0

\* cargo_ndk_build takes the subcommand, the NDK and the target.
CargoNdkFinds == AndroidTriples \subseteq targets /\ cargoNdk /\ ndkHome = "dir"

\* gradlew (template/android/gradlew:122) runs Gradle on the JDK of JAVA_HOME,
\* and without it on the one on PATH; the module compiles for Java 17
\* (template/android/lib/build.gradle.kts:18) against the Android SDK.
GradleFinds ==
    /\ androidSdk
    /\ IF javaHome # "unset" THEN javaHome = "fits"
                             ELSE javac # NoJavac /\ javac.major >= 17

AndroidBuildFinds == CargoNdkFinds /\ GradleFinds

Ready ==
    /\ platform # "android" => IosBuildFinds
    /\ platform # "ios" => AndroidBuildFinds

\* README.md: "doctor names every missing prerequisite and prints the fix".  So
\* a developer who follows its hints, in any order and with runs of doctor
\* between any two, comes to a success, and then the builds of the platform
\* asked about find what they take, whatever the machine lacked at first.
\* Nothing but a hint changes the machine, so that a success that came too early
\* is never repaired, nor a hint that changes nothing.
HintsLeadToReady == <>[](exit = "success" /\ Ready)
=============================================================================
