SPECIFICATION FairSpec
CONSTANTS
    Names = {n1, n2}
    MaxCandidates = 3
    MaxOthers = 2
    Empty = Empty
    Foreign = Foreign
INVARIANT StoredIsThere
INVARIANT ReportsOnce
PROPERTY NeverClobbered
PROPERTY ReportsInTheEnd
CHECK_DEADLOCK FALSE
