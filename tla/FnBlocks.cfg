SPECIFICATION Spec
CONSTANTS
    KERNEL_NUM_FUNC = 2
    KERNEL_NUM_CONV = 2
    LIBFUNCTION_FUNCTION_MAX = 2
    Libs = {"x"}
    AppOps <- MCAppOps
    Params <- MCParams
    MaxMoves = 5
    MaxSets = 2
INVARIANTS
    NoDangling
    JsonOwned
    NeverRunsMixed
