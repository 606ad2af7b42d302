SPECIFICATION TimedSpec
CONSTANTS
    NoOne = NoOne
    Patient = {r1}
    Unlockers = {u1}
    Lockers = {l1}
    Cancellers = {c1}
    Readers = {r1, r2}
    PoolSize = 1
INVARIANT TypeOK
PROPERTY Answered
CHECK_DEADLOCK FALSE
