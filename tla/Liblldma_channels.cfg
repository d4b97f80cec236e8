SPECIFICATION FairCarefulSpec
CONSTANTS
    r1 = r1
    r2 = r2
    t1 = t1
    Procs = {p1, p2}
    Fds <- TwoFds
    Files <- TwoFdFiles
    Channels = {r1, t1}
    Rx = {r1}
    Available = {r1, t1}
    Entries <- HostEntries
    Connectors = {c1}
    MaxRefs = 0
    NoConnector = NoConnector
    NoChannel = NoChannel
    NoFile = NoFile
INVARIANTS
    HeldIsOwned
    OwnedIsHeld
    UsedIsOwned
    ActiveIsOwned
PROPERTIES
    IsLock
    KeepsDiscipline
    DeadReleases
