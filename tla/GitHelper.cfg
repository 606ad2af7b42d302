SPECIFICATION GitSpec
CONSTANTS
    Timeout = 2
    Second = 2
    Late = 1
    Cap = 6
    FreshCap = 4
    Methods = {"vault.status", "secret.list"}
    Tokens = {t1, t2}
    NoToken = NoToken
    MaxNotes = 1
INVARIANT Exposure
INVARIANT LocksOnlyIdle
PROPERTY RightPassword
PROPERTY NeverBlocks
