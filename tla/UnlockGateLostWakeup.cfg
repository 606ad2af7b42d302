SPECIFICATION Spec
CONSTANTS
    NoOne = NoOne
    Patient = {r1, r2}
    Unlockers = {u1}
    Lockers = {l1}
    Cancellers = {c1}
    Readers = {r1, r2}
    PoolSize = 5
INVARIANT UnlockWakes
CHECK_DEADLOCK FALSE
