CONSTANTS
    Size = 2
    Limit = 3
    Attempts = 3
    EntryCount = 3
    Existing = {1, 3}
    MaxSecond = 2
SPECIFICATION Spec
INVARIANT TypeOK
INVARIANT OriginalsKept
PROPERTY PreparedIsWhole
PROPERTY ImplementsStore
