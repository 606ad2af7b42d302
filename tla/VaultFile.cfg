SPECIFICATION Spec
CONSTANTS
    Writers = {w1, w2}
    Serial = {w1, w2}
    Docs = {d1, d2}
    Inodes = {i1, i2, i3, i4}
    NoFile = NoFile
    Empty = Empty
    Torn = Torn
SYMMETRY Symmetry
INVARIANT TypeOK
INVARIANT NeverHalfWritten
PROPERTY RollbackKept
PROPERTY VaultStays
PROPERTY ImplementsAtomicVault
