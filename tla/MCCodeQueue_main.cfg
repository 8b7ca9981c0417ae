SPECIFICATION FairSpec
CONSTANTS
    p1 = p1
    p2 = p2
    Producers = {p1, p2}
    Locks = {"nobody", "nolock"}
    CAPACITY = 10
    LenSize = 2
    Reserved = 2
    Lengths = {1, 2, 3}
    UserLengths = {1}
    OutSize = 2
    MaxRecords = 4
    MaxUserRecords = 2
INVARIANTS TypeOK MainLogInOrder PushFits CopiesStayInside
PROPERTY FifoSpec
