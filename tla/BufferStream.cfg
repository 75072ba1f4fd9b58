SPECIFICATION Spec
CONSTANTS
    CheapPrepend = 1
    InitSize = 4
    StackBuf = 2
    MaxAppend = 3
    MaxBytes = 9
INVARIANTS
    TypeOK
    BytesInOrder
    BoundedMemory
