\* A daemon, supervisor, host or publisher crashes; a changed fabric
\* restarts the supervisor; the run directory may be lost.
CONSTANTS
    m1 = m1
    m2 = m2
    Members = {m1, m2}
    Stranger = m2
    Foreign = {"memo"}
    Confs = {"base", "note", "alt", "memo", "torn"}
    Base = "base"
    Torn = "torn"
    FabricOf <- MCFabricOf
    Valid <- MCValid
    Carries <- MCCarries
    MaxGen = 1
    W = 1
    MaxSever = 1
    MaxCrash = 1
    MaxLate = 1
SPECIFICATION Spec
PROPERTIES GenerationOnce AttemptEnds
