SPECIFICATION Spec
CONSTANTS
    c1 = c1  c2 = c2  n1 = n1  n2 = n2  s1 = s1
    geography = geography  locations = locations  u1 = u1  e1 = e1  w1 = w1
    Character <- Characters
    Name <- Names
    Scene <- Scenes
    Place <- Scenes
    PageSlug <- BuiltPages
    ListSlug <- BuiltLists
    UserSegment <- UserSegs
    Entry <- EntryIds
    Text <- Texts
    NumHues = 2
    MaxCommands = 6
    Blank = Blank  Gone = Gone  Torn = Torn  None = None  NoKey = NoKey
    Empty = Empty  Broken = Broken  NoSlug = NoSlug  Missing = Missing
SYMMETRY Interchangeable
CHECK_DEADLOCK FALSE
INVARIANTS PovIsPresent NamesAreRemembered RecordsAreSound LocationsExist
PROPERTIES GoneForGood DeletedEntriesStayAway
