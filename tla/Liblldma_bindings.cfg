SPECIFICATION CarefulSpec
CONSTANTS
    r1 = r1
    r2 = r2
    t1 = t1
    Procs = {p1, p2}
    Fds <- TwoFds
    Files <- TwoFdFiles
    Channels = {r1, r2}
    Rx = {r1, r2}
    Available = {r1}
    Entries <- MixedEntries
    Connectors = {c1}
    MaxRefs = 1
    NoConnector = NoConnector
    NoChannel = NoChannel
    NoFile = NoFile
INVARIANTS
    HeldIsActive
SYMMETRY ProcSymmetry
