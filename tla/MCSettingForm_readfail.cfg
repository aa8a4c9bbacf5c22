CONSTANTS
    s1 = s1
    s2 = s2
    v1 = v1
    v2 = v2
    None = None
    Empty = Empty
    Absent = Absent
    Settings <- MCSettings
    FieldOrder <- MCFieldOrder
    Val <- MCVal
    ReadMayFail = TRUE
    AddMayFail = FALSE
SYMMETRY ValSymmetry
SPECIFICATION Spec


PROPERTY UntouchedKeepsEffective
