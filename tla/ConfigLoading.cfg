CONSTANTS
    Scale = 100
    Contents <- MCContents
    InitialFiles <- MCInitialFiles
    Cwds <- MCCwds
    Roots <- MCRoots
    Unwritable <- MCUnwritable
    Leads <- MCLeads
    Parts = 10
    Infinite = Infinite
    NaN = NaN
    None = None
    Empty = Empty
    MaxStarts = 2
    MaxEdits = 2
SPECIFICATION Spec
INVARIANTS TypeOK SoundBeforeWork SameRootSameStores
CHECK_DEADLOCK FALSE
