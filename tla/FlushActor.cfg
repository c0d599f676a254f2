\* Two addresses compete for one slot, leases run out, reads and writes fail, and
\* the kernel forgets an entry, learns a MAC or keeps an entry without one.
CONSTANTS
    Keys <- OneRow
    RowOf <- MCRowOf
    m = m
    n = n
    Macs = {m, n}
    Cap = 1
    MaxClaim = 2
    MaxOver = 1
    Burst = 3
    Bare = TRUE
    MaxKernel = 1
    MaxFail = 1
SPECIFICATION Spec
INVARIANTS HandoverSound
PROPERTIES Restored
