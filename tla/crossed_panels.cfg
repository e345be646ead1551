SPECIFICATION DeepSpec
CONSTANTS
    p1 = p1  p2 = p2
    MaxThoughts = 2
    MaxFan = 1
    MaxRows = 2
    MaxBytes = 4
    Bytes <- EvenBytes
    Message <- Pills
    Pill <- Pills
    Fan <- OneFan
    MaxDepth = 2
    MaxInputs = 2
    None = None  Closed = Closed  Pending = Pending  NoFan = NoFan
CHECK_DEADLOCK FALSE
INVARIANT PanelShowsItsPill
