SPECIFICATION SmallSpec
CONSTANTS
    n1 = n1
    n2 = n2
    v1 = v1
    v2 = v2
    m1 = m1
    p1 = p1
    p2 = p2
    Threads = {t1, t2}
    Calls <- EveryKind
    Names = {n1, n2}
    Values = {v1, v2}
    Metas = {NoMeta, m1}
    NoMeta = NoMeta
    Passwords = {p1, p2}
    Salts = {1, 2}
    Costs <- Both
    Kdf <- Default
    MaxRequests = 4
    NoFile = NoFile
    Torn = Torn
    NoSession = NoSession
    NoEntry = NoEntry
    NoOne = NoOne
    Absent = Absent
    Unknown = Unknown
SYMMETRY ThreadSymmetry
INVARIANT TypeOK
INVARIANT SaveMatchesMemory
INVARIANT PasswordCurrent
INVARIANT NeverSealedShut
INVARIANT AckedDurable
INVARIANT AckedVisible
PROPERTY NothingElseLost
CHECK_DEADLOCK FALSE
