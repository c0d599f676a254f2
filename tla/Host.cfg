\* Three wires and four mishaps: a removal cut off, what is left of it met by the other shape,
\* a wire that goes and comes back beside it.  Two rows, two changes of the host.
\* Two ports and a bond; a sequence number that wraps after four requests and a receive
\* buffer of two answers; one netdev to come.  Two engine processes and two clients; a state
\* timeout between the client's patience and its I/O limit, as in the code.
\* The announcer of one row.
CONSTANTS
    LegWires = {"h", "x", "y"}
    HomeWire = "h"
    NoWire = "no-wire"
    MaxLegMishaps = 4
    PfRows = {"r", "s"}
    MaxPfUpsets = 2
    BondPorts = {"p", "q"}
    BondName = "b"
    Rungs = {"up", "other"}
    SeqLimit = 5
    RecvBuf = 2
    CallDeadline = 2
    MaxNetdevs = 4
    MaxNetEvents = 2
    Engines = {e1, e2}
    NoEngine = NoEngine
    Stale = Stale
    Askers = {c1, c2}
    NoAsker = NoAsker
    ProtoSpan = 1
    ClientIO = 1
    StateTimeout = 2
    Patience = 3
    MaxServeFaults = 2
    Period = 4
    BurstLen = 2
    TickEvery = 3
    VmMacs = {"v"}
    MaxAnnounceFaults = 1
SPECIFICATION HostSpec
SYMMETRY MCSymmetry
INVARIANTS LegSound VerbsAgree KernelTalkSound EngineOwns ConversationsEnd FrameRate
