SPECIFICATION Spec
CONSTANTS
    Plugins = {p1, p2, p3}
    Levels = {"INFO", "DEBUG"}
    Priorities = {2, 3, 4, 6, 7}
    LogLevels = {"INFO", "ERROR"}
    BatchMax = 2
    MaxEntries = 2
    MaxRounds = 2
CHECK_DEADLOCK FALSE
SYMMETRY Symmetry
INVARIANTS OnlyFailedUnloaded EntriesHandedOver ScansOwnSubnet
