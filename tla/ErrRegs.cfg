SPECIFICATION ErrSpec
CONSTANTS
    KERNEL_NUM = 4
    EXTIFINV   = FALSE
    ProbeLanes <- MCProbeLanes
    ProbeIds   <- MCProbeIds
    ProbeBits  <- MCProbeBits
    MaxSets    = 2
    MaxRaise   = 2
INVARIANT
    NoFaultLost
PROPERTY
    RefinesBank
