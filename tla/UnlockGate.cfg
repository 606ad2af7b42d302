SPECIFICATION PromptSpec
CONSTANTS
    NoOne = NoOne
    Patient = {r1, r2}
    Unlockers = {u1}
    Lockers = {}
    Cancellers = {c1}
    Readers = {r1, r2}
    PoolSize = 3
INVARIANT CancelWakes
PROPERTY CancelReleases
PROPERTY ControlAnswered
CHECK_DEADLOCK FALSE
