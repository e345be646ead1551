SPECIFICATION FairSpec
CONSTANTS
    t1 = t1  t2 = t2  a = a
    Scene <- ThreeScenes
    Kept <- TwoScenes
    Task <- Tasks
    Value <- OneValue
    WordCount <- WordsOfA
    Offered <- Mixed
    Limit <- ManuscriptLimits
    None = None  NoFile = NoFile  Unreadable = Unreadable  NoRow = NoRow
    NoIndex = NoIndex  Idle = Idle  Unknown = Unknown
CHECK_DEADLOCK FALSE
INVARIANTS EditsSurvive FilesAreSound
PROPERTIES EveryCommandEnds
