SPECIFICATION Spec
CONSTANTS
    p1 = p1
    p2 = p2
    Producers = {p1, p2}
    Locks = {"nolock"}
    CAPACITY = 12
    LenSize = 2
    Reserved = 2
    Lengths = {1}
    UserLengths = {1}
    OutSize = 2
    MaxRecords = 2
    MaxUserRecords = 2
INVARIANT DeliversInOrder
