\* The shape daemon, which a re-apply restarts, and conf-sync, which it does not,
\* may ignore SIGTERM.
CONSTANTS
    Names = {"engine", "shape-daemon", "conf-sync"}
    Engine = "engine"
    Restarted <- MCRestarted
    Unwilling = {"shape-daemon", "conf-sync"}
    MaxDeath = 1
    MaxFail = 1
    MaxCmd = 2
SPECIFICATION Spec
INVARIANTS NoStray NoChildLost
PROPERTIES KeepsGoing
