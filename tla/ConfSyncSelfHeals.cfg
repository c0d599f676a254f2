\* A text whose fabric carries nothing is published once.
CONSTANTS
    m1 = m1
    m2 = m2
    Members = {m1, m2}
    Stranger = "none"
    Foreign = {}
    Confs = {"base", "bad", "torn"}
    Base = "base"
    Torn = "torn"
    FabricOf <- MCFabricOf
    Valid <- MCValid
    Carries <- MCCarries
    MaxGen = 1
    W = 1
    MaxSever = 0
    MaxCrash = 0
    MaxLate = 0
SPECIFICATION Spec
PROPERTY SelfHeals
