SPECIFICATION Spec
CONSTANTS
    KERNEL_NUM = 4
    caller     = caller
    rival      = rival
    Threads    = {caller, rival}
    CallsOf    <- MCCallsOf
    WORD       = 4
    MaxMoves   = 2
    MaxSetback = 1
INVARIANTS
    NeverUnderReports
    ReadsOwnCounter
    WaitMissesNothing
PROPERTIES
    EveryCallReturns
