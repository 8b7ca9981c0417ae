SPECIFICATION StreamSpec
CONSTANTS
    SIZE = 4
    LenSize = 2
    Lengths = {3}
    ROOM = 3
    MaxPackets = 2
INVARIANT KeepsEveryPacket
