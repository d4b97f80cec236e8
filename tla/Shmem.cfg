SPECIFICATION Spec
CONSTANTS
    FilePrefixes = {x, y}
    Clients = {c}
    Sockets = {0, 1}
    None = None
    Requests <- MCRequests
    Limit <- MCLimit
    MaxForks = 2
    MaxCalls = 3
    MaxFaults = 1
INVARIANTS
    OneEntryPerPrefix
    PagesWithinLimit
    NoticeSparesFinished
PROPERTIES
    EntryEndsWithManager
    RequestAnswered
    SignalledEnds
CHECK_DEADLOCK FALSE
