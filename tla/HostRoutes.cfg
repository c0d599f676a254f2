\* One workload leg with one VM; a hold-down of two ticks, an ageing time of two
\* probe cycles; any three failures or outside events.  Declarations of three
\* members, one wire down at a time; two edits of one of them; three requests to the
\* engines that run it; two mishaps with its rulesets.
CONSTANTS
    l1 = l1
    v1 = v1
    own = own
    Legs = {l1}
    VMs = {v1}
    Own = own
    Routes = {v1, own}
    Absent = Absent
    Live = Live
    Holddown = 2
    Ageing = 6
    DefaultAgeing = 6
    MaxIfindex = 3
    MaxFaults = 3
    Names = {"m1", "m2", "m3"}
    Declarations <- MCDeclarations
    MaxDown = 1
    OctetBits = 3
    Ten = 1
    MinLen = 8
    MaxVid = 30
    Original <- MCOriginal
    Drafts <- MCEdits
    MaxEdits = 2
    Fabrics <- MCFabrics
    Vms <- MCVms
    MaxRequests = 3
    MaxRefused = 1
    Local = "m1"
    Others <- MCOthers
    Policies <- MCPolicies
    Flows <- MCFlows
    Nil = Nil
    MaxMishaps = 2
SPECIFICATION HostSpec
INVARIANTS EngineInStep PathsOrdered Coherent ConfigHolds PolicyHolds
PROPERTIES VmsKept Converges ImplementsDamper
