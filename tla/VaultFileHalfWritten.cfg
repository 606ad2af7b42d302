SPECIFICATION Spec
CONSTANTS
    Writers = {w1, w2}
    Serial = {w1}
    Docs = {d1, d2}
    Inodes = {i1, i2, i3, i4}
    NoFile = NoFile
    Empty = Empty
    Torn = Torn
SYMMETRY Symmetry
INVARIANT NeverHalfWritten
