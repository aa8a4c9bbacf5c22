CONSTANTS
    a = a
    b = b
    Empty = Empty
    Absent = Absent
    KeyVals <- MCKeyVals
    DataVals <- MCDataVals
    MaxRows = 3
    Grow = TRUE
    SortOrder = "descending"
    HasSetMethod = TRUE
SPECIFICATION Spec
INVARIANT TypeOK
INVARIANT MatrixStored
 
PROPERTY ImplementsMatrixStore
