\* An engine that outlasts the 10 s of restart_child.
CONSTANTS
    Names = {"engine", "shape-daemon", "conf-sync"}
    Engine = "engine"
    Restarted <- MCRestarted
    Unwilling = {"engine"}
    MaxDeath = 0
    MaxFail = 0
    MaxCmd = 1
SPECIFICATION Spec
INVARIANT OneEngine
