SPECIFICATION SmallSpec
CONSTANTS
    r1 = r1
    r2 = r2
    Requests = {r1, r2}
    Links = {s1, s2}
    Timers = {t1, t2}
    First = First
    None = None
    Follow <- RetryOnce
    MaxTries = 2
    MaxBreaks = 2
INVARIANT TypeOK
INVARIANT NoOrphan
INVARIANT CalledOnce
INVARIANT PendingAlive
PROPERTY RequestAnswered
CHECK_DEADLOCK FALSE
