SPECIFICATION Spec
CONSTANTS
    p1 = p1  p2 = p2  p3 = p3  echo = echo  editor = editor  s1 = s1
    Pill <- ThreePills
    Scene <- OneScene
    InboxCap = 1
    Trigger <- TwoTriggers
    TwoStage <- Dissonance
    Speaker <- TwoSpeakers
    Cooldown <- Resting
    MinPillInterval = 2
    Remembered <- NothingLearned
    MaxTime = 4
    MaxSqlErrors = 0
    MaxInFlight = 1
    Offered <- MintingRequests
    NoScene = NoScene  Never = Never  Unminted = Unminted
    NoAttribution = NoAttribution  NoTick = NoTick
SYMMETRY PillSymmetry
CHECK_DEADLOCK FALSE
INVARIANTS TypeOK MintsAreSpaced SpeakersRest AnnouncedOnce
PROPERTY ClosedProjectIsQuiet
