SPECIFICATION Spec
CONSTANTS
    p1 = p1  p2 = p2  p3 = p3  echo = echo  editor = editor  s1 = s1
    Pill <- TwoPills
    Scene <- OneScene
    InboxCap = 1
    Trigger <- TwoTriggers
    TwoStage <- NoTriggers
    Speaker <- OneSpeaker
    Cooldown <- Tireless
    MinPillInterval = 0
    Remembered <- SomethingLearned
    MaxTime = 0
    MaxSqlErrors = 1
    MaxInFlight = 1
    Offered <- LearningRequests
    NoScene = NoScene  Never = Never  Unminted = Unminted
    NoAttribution = NoAttribution  NoTick = NoTick
SYMMETRY PillSymmetry
CHECK_DEADLOCK FALSE
INVARIANTS TableCountsEachPillOnce RewardsMatchTheMint ResetForgets TuningFollowsTable
PROPERTIES KeepsTheLedger
