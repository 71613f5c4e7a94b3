CONSTANTS
    Hashes = {h1}
    Bios = {b1, b2}
    NoContext = NoContext
    LegacyVersions = {4, 19}
    MaxContexts = 2
    MaxRows = 2
    MaxLaunches = 2
    Elsewhere = FALSE
SPECIFICATION HistorySpec
INVARIANT MergedOnce
CHECK_DEADLOCK FALSE
