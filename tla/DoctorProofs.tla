---------------------------- MODULE DoctorProofs ----------------------------
(***************************************************************************)
(* What a success of doctor is worth.  It is not what README.md says, as   *)
(* the run Doctor shows; but the Android SDK and an older JDK under        *)
(* JAVA_HOME are all it overlooks.  A success is of the machine as it is:  *)
(* it prints no hint, and without one nobody changes the machine.          *)
(***************************************************************************)
EXTENDS Doctor, TLAPS

IosPasses == platform # "android" => IosChecks = {}
AndroidPasses == platform # "ios" => AndroidChecks = {}

\* The successes, of which every probe of the platform is still true.
SuccessInv ==
    /\ platform \in {"ios", "android", "both"}
    /\ identities \in Nat
    /\ javac \in Javacs \cup {NoJavac}
    /\ javaHome \in {"unset", "older", "fits"}
    /\ exit = "success" => hints = {} /\ IosPasses /\ AndroidPasses

\* What Gradle takes and no probe looks for.
Unprobed == platform # "ios" /\ (~androidSdk \/ javaHome = "older")

LEMMA DoctorInitInv == DoctorInit => SuccessInv
  BY DEF DoctorInit, SuccessInv, IdentityCounts

\* What the probes say depends on nothing but the machine.
LEMMA MachineDecides ==
    ASSUME UNCHANGED <<machine, platform>>
    PROVE  UNCHANGED <<IosPasses, AndroidPasses>>
  <1>1. IosPasses' = IosPasses
    BY DEF machine, IosPasses, IosChecks, XcodeIosSdk, TargetsCheck, CodesignIdentity
  <1>2. AndroidPasses' = AndroidPasses
    BY DEF machine, AndroidPasses, AndroidChecks, AndroidNdk, TargetsCheck, CargoNdk, Jdk
  <1> QED
    BY <1>1, <1>2

\* RunDoctor says success only when the probes do, and leaves the machine alone.
LEMMA RunDoctorKeepsInv ==
    ASSUME SuccessInv, RunDoctor
    PROVE  SuccessInv'
  <1>1. /\ UNCHANGED <<machine, platform>>
        /\ exit' = "success" => hints' = {} /\ IosPasses /\ AndroidPasses
    BY DEF RunDoctor, IosPasses, AndroidPasses
  <1> QED
    BY <1>1, MachineDecides DEF SuccessInv, machine

\* After a success there is no hint to follow; before it, there is nothing to
\* keep but the types.
LEMMA FollowHintKeepsInv ==
    ASSUME SuccessInv, FollowHint
    PROVE  SuccessInv'
  <1>1. exit' # "success" /\ platform' = platform
    BY DEF SuccessInv, FollowHint
  <1>2. identities' \in Nat
    BY DEF SuccessInv, FollowHint, Gets
  <1>3. javac' \in Javacs \cup {NoJavac}
    BY DEF SuccessInv, FollowHint, Gets, Javacs
  <1>4. javaHome' \in {"unset", "older", "fits"}
    BY DEF SuccessInv, FollowHint, Gets
  <1> QED
    BY <1>1, <1>2, <1>3, <1>4 DEF SuccessInv

LEMMA DoctorNextInv == SuccessInv /\ [DoctorNext]_vars => SuccessInv'
  <1>1. ASSUME SuccessInv, UNCHANGED vars
        PROVE  SuccessInv'
    <2>1. UNCHANGED <<machine, platform, exit, hints>>
      BY <1>1 DEF vars
    <2>2. UNCHANGED <<IosPasses, AndroidPasses>>
      BY <2>1, MachineDecides
    <2> QED
      BY <1>1, <2>1, <2>2 DEF SuccessInv, machine
  <1> QED
    BY <1>1, RunDoctorKeepsInv, FollowHintKeepsInv DEF DoctorNext

LEMMA NoIdentityReadsAsNone == ReadsAsNone(0)
  BY DEF ReadsAsNone

\* Where parse_javac_major sees 17 or more, the JDK is a 17 or newer.
LEMMA JdkTellsMajor ==
    ASSUME javac \in Javacs \cup {NoJavac}, Jdk = {}
    PROVE  javac # NoJavac /\ javac.major >= 17
  <1>1. /\ javac # NoJavac
        /\ JavacMajor(javac.version) # NotNumber
        /\ JavacMajor(javac.version) >= 17
    BY DEF Jdk, Unless
  <1> QED
    BY <1>1 DEF Javacs, JavacMajor

\* On a success every build of the platform asked about finds what it takes,
\* but for what no probe looks for: no other prerequisite goes unnamed, whichever
\* probe hid it at first and in whichever order the hints were followed.
THEOREM SuccessIsReady == DoctorSpec => [](exit = "success" /\ ~Unprobed => Ready)
  <1>1. SuccessInv /\ exit = "success" /\ ~Unprobed => Ready
    <2> SUFFICES ASSUME SuccessInv, exit = "success", ~Unprobed
                 PROVE  Ready
      OBVIOUS
    <2>1. ASSUME platform # "android"
          PROVE  IosBuildFinds
      <3>1. /\ XcodeIosSdk = {}
            /\ TargetsCheck(IosTriples, "iosTargets") = {}
            /\ CodesignIdentity = {}
        BY <2>1 DEF SuccessInv, IosPasses, IosChecks
      <3>2. identities > 0 /\ team = "set"
        BY <3>1, NoIdentityReadsAsNone DEF SuccessInv, CodesignIdentity, Unless
      <3> QED
        BY <3>1, <3>2 DEF IosBuildFinds, XcodeIosSdk, TargetsCheck, Unless
    <2>2. ASSUME platform # "ios"
          PROVE  AndroidBuildFinds
      <3>1. /\ AndroidNdk = {}
            /\ TargetsCheck(AndroidTriples, "androidTargets") = {}
            /\ CargoNdk = {}
            /\ Jdk = {}
        BY <2>2 DEF SuccessInv, AndroidPasses, AndroidChecks
      <3>2. CargoNdkFinds
        BY <3>1 DEF CargoNdkFinds, AndroidNdk, TargetsCheck, CargoNdk, Unless
      <3>3. androidSdk /\ (javaHome # "unset" => javaHome = "fits")
        BY <2>2 DEF Unprobed, SuccessInv
      <3> QED
        BY <3>1, <3>2, <3>3, JdkTellsMajor DEF SuccessInv, AndroidBuildFinds, GradleFinds
    <2> QED
      BY <2>1, <2>2 DEF Ready
  <1>2. DoctorSpec => []SuccessInv
    BY DoctorInitInv, DoctorNextInv, PTL DEF DoctorSpec
  <1> QED
    BY <1>1, <1>2, PTL
=============================================================================
