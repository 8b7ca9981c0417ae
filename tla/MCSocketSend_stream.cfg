SPECIFICATION FairStreamSpec
CONSTANTS
    SIZE = 4
    LenSize = 2
    Lengths = {3, 4}
    ROOM = 4
    MaxPackets = 3
INVARIANTS StreamIntact KeptIsArmed FramesIntact
PROPERTIES TakenIsSent LostOnlyByBurst TakenArrives ImplementsSend
