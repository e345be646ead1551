SPECIFICATION FairDeepSpec
CONSTANTS
    p1 = p1  p2 = p2
    MaxThoughts = 4
    MaxFan = 2
    MaxRows = 2
    MaxBytes = 4
    Bytes <- EvenBytes
    Message <- OnePill
    Pill <- OnePill
    Fan <- TwoFans
    MaxDepth = 2
    MaxInputs = 4
    None = None  Closed = Closed  Pending = Pending  NoFan = NoFan
CHECK_DEADLOCK FALSE
INVARIANTS TreeIsWhole PanelsFollowTheTree
PROPERTIES UsesTheTree ResonantChainsStay TrimStopsAtTheCaps PanelsStopWaiting
