CONSTANTS
    Hashes = {h1}
    Bios = {b1, b2}
    NoContext = NoContext
    LegacyVersions = {4, 19}
    MaxContexts = 2
    MaxRows = 2
    MaxLaunches = 2
    Elsewhere = FALSE
SPECIFICATION HistorySpec
INVARIANTS EvidenceKeptApart RowsKeepTheirContext NoGhostRun
PROPERTIES AdoptionKeepsAll InFlightKept
CHECK_DEADLOCK FALSE
