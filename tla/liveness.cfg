SPECIFICATION FairSpec
CONSTANTS
    p1 = p1  p2 = p2  p3 = p3  echo = echo  editor = editor  s1 = s1
    Pill <- TwoPills
    Scene <- OneScene
    InboxCap = 1
    Trigger <- TwoTriggers
    TwoStage <- Dissonance
    Speaker <- OneSpeaker
    Cooldown <- Tireless
    MinPillInterval = 0
    Remembered <- NothingLearned
    MaxTime = 0
    MaxSqlErrors = 0
    MaxInFlight = 2
    Offered <- LiveRequests
    NoScene = NoScene  Never = Never  Unminted = Unminted
    NoAttribution = NoAttribution  NoTick = NoTick
CHECK_DEADLOCK FALSE
PROPERTIES TerminalOutcomesSettle EveryPillIsAnswered
