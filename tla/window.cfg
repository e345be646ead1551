SPECIFICATION SystemSpec
CONSTANTS
    p1 = p1  p2 = p2  p3 = p3  echo = echo  s1 = s1
    Pill <- TwoPills
    Scene <- OneScene
    InboxCap = 1
    Trigger <- OneTrigger
    TwoStage <- NoTriggers
    Speaker <- OneSpeaker
    Cooldown <- Tireless
    MinPillInterval = 0
    Remembered <- NothingLearned
    MaxTime = 0
    MaxSqlErrors = 0
    MaxInFlight = 1
    Offered <- WindowRequests
    NoScene = NoScene  Never = Never  Unminted = Unminted
    NoAttribution = NoAttribution  NoTick = NoTick
    MaxOnScreen = 1
    MaxStashed = 1
SYMMETRY PillSymmetry
CHECK_DEADLOCK FALSE
PROPERTY IsAService
