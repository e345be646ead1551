SPECIFICATION DeskSpec
CONSTANTS
    near = near
    far = far
    weak = weak
    slow = slow
    Provider = {near, far}
    Chain <- MCChain
    Caller = {c1, c2}
    Capacity = 2
    Rate = 1
    Threshold = 2
    OpenFor = 2
    MaxTime = 2
    MaxDirect = 1
    Shut = Shut
    Offer <- MCOffer
    Model = {m1}
    Unset = Unset
    NothingSent = NothingSent
    Pending = {t1}
    MaxTests = 2
    Block = {b1, b2}
    Text = {weak}
    FindingsOf <- MCFindingsOf
    Long = {weak}
    Remark = {r1}
    Absent = Absent
    Never = Never
    PolishCap = 2
    PolishRest = 1
    MaxRows = 2
    MaxHours = 1
    MaxSaves = 2
    SceneFile = {f1}
    Draft = {d1}
    Gone = Gone
    Torn = Torn
    Hour = 1
    Day = 2
    Week = 4
    AllKept = 0
    HoursKept = 1
    DaysKept = 2
    MaxTicks = 3
    MaxSnaps = 3
    MaxCmds = 1
    Vocabulary <- MCVocabulary
    Being = {"was"}
    BeingWeak = {"was"}
    Participle = {"opened"}
    Adverb = {"softly"}
    SaidAdverb = {"softly"}
    Said = {"said"}
    Adjectival = {"softly"}
    Stopword = {"was"}
    Mistake <- MCMistake
    Often = 3
    Cluster = 2
    VarianceWindow = 2
    VarianceSpread = 1
    MaxWords = 4
    page = page
    other = other
    blank = blank
    alma = alma
    vale = vale
    PollEvery = 2
    Backoffs <- MCBackoffs
    BootTime = 2
    Manuscript = {s1, s2}
    Passage = {page, other, blank}
    Blank = blank
    CastIn <- MCCastIn
    PlacesIn <- MCPlacesIn
    Person = {alma}
    MaxStates = 2
    InputCap = 2
    OutputCap = 2
    TopToken = 3
    ChargeOf <- MCChargeOf
    Moment <- MCMoment
    FirstMoment <- MCFirstMoment
    Unknown = Unknown
    Token <- MCToken
    Plain <- MCPlain
    Named <- MCNamed
    EntriesOf <- MCEntriesOf
    Telling <- MCTelling
    Fields <- MCFields
    MinParagraphWords = 4
    MinContextWords = 2
    Sensitivity <- MCSensitivity
    PersonaList <- MCPersonaList
    CastMember = {alma, vale}
    Absentee = Absentee
    Nobody = Nobody
    RestOfPersona = 3
    RestOfCharacter = 2
    MintEvery = 1
    MaxPresent = 2
    OpenScene = {s1, s2}
    NoneOpen = NoneOpen
    ParagraphId = {x1}
    NoText = NoText
    WrittenText = WrittenText
    Debounce = 1
    ClientTimeout = 2
    HistoryCap = 2
    MaxAsks = 4
    Bud = {o1, o2}
    OfCharacter = {o2}
    Wording <- MCWording
    Echo <- MCEcho
    BouquetSize = 2
    MaxBouquets = 3
INVARIANT DismissedStaysSilent
CHECK_DEADLOCK FALSE
