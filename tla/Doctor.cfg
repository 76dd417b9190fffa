\* Every machine the probes and the builds tell apart, for each platform asked
\* about: one that doctor passes, or fails for ever, although it should not.
CONSTANTS
    NoJavac = NoJavac
    NotNumber = NotNumber

SPECIFICATION DoctorSpec

PROPERTY HintsLeadToReady
