SPECIFICATION Spec
CONSTANTS
    Procs = {p, q}
    Cards = {a, b, c}
    None = None
    FPGA_MAX_DEVICES = 2
    XPCIE_KERNEL_LANE_MAX = 3
    Modules <- MCModules
    Layouts <- MCLayouts
    NameLists <- MCNameLists
    MaxProbes = 3
    MaxCalls = 4
SYMMETRY Symmetry
INVARIANTS
    FilesAreEntries
    FileIsOfName
    MapIsHardware
PROPERTIES
    NumCountsOpen
CHECK_DEADLOCK FALSE
