SPECIFICATION Spec
CONSTANTS
    t1 = t1  t2 = t2  a = a
    Scene <- TwoScenes
    Kept <- TwoScenes
    Task <- Tasks
    Value <- OneValue
    WordCount <- WordsOfA
    Offered <- NoEdits
    Limit <- OutsideLimits
    None = None  NoFile = NoFile  Unreadable = Unreadable  NoRow = NoRow
    NoIndex = NoIndex  Idle = Idle  Unknown = Unknown
CHECK_DEADLOCK FALSE
PROPERTY RebuildsAreComplete
