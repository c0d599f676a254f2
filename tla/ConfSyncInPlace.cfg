\* Comment-only edits, one of them valid on one member only, a partition and slow
\* supervisors: every re-apply is in place and the run directory survives.
\* The status of a member with one or two faults, one of which changes meanwhile.
\* Three members that measure.  Two supervisors and a teardown; the loop in units of
\* five seconds; three peers of the metrics endpoint.
CONSTANTS
    m1 = m1
    m2 = m2
    Members = {m1, m2}
    Stranger = m2
    Foreign = {"memo"}
    Confs = {"base", "note", "memo", "torn"}
    Base = "base"
    Torn = "torn"
    FabricOf <- MCFabricOf
    Valid <- MCValid
    Carries <- MCCarries
    MaxGen = 2
    W = 2
    MaxSever = 1
    MaxCrash = 0
    MaxLate = 1
    Ladder <- MCLadder
    Scenes <- MCScenes
    Wait = 1
    MaxMoves = 1
    Measurers = {"x", "y", "z"}
    LockAttempts = 2
    FloodLen = 2
    LockExpiry = 2
    MaxLeaseFaults = 5
    Runs = {"s1", "s2"}
    NoRun = NoRun
    MaxStarts = 3
    MaxDowns = 1
    MaxKills = 1
    WatchdogSec = 6
    FeedPeriod = 2
    ApplyBound = 13
    StopGrace = 2
    Refresh = 3
    BindRetry = 4
    MaxLoopFaults = 2
    Peers = {"p", "q", "r"}
    MaxInflight = 2
    ConnDeadline = 2
    MaxPages = 2
SPECIFICATION SafetySpec
INVARIANTS WitnessedByPeer RevertsToGood ReportsTrue OneFlood SoleOwner WatchdogTrue EndpointOpen
