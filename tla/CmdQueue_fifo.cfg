SPECIFICATION FairPromptSpec
CONSTANTS
    Producers = {p1, p2}
    Consumers = {c1, c2}
    NoCommand = NoCommand
    N = 3
    p1 = p1
    p2 = p2
    Passes <- MCPasses
INVARIANTS
    ExclusiveDescriptor
    PublishedIsComplete
PROPERTIES
    IsFifo
    IsFairFifo
