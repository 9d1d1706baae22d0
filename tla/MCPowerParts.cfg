CONSTANTS
    s1 = s1  s2 = s2
    t1 = t1  t2 = t2
    p1 = p1  p2 = p2  p3 = p3
    def = def  boost = boost
    binder = binder  channel = channel  Worker = worker
    Sessions = {s1, s2}
    Tasks = {t1, t2}
    Ptrs = {p1, p2, p3}
    Lists <- MCLists
    Values = {0, 1}
    kWaitMs = 1
    kMinDurationMs = 1
    kMaxDurationMs = 4
    kDurationOffsetMs = 1
    Wrap = 16
    Durations <- MCDurations
    BoostSessions = {s1}
    Votes = {def, boost}
    DefaultVote = def
    BoostVotes = {boost}
    Threads = {binder, channel}
    Deadlines = {1, 2}
    MaxTime = 2
    MaxIds = 3
    kMaxNumOfRecords = 4
    Frames <- MCFrames
    JankDuration = 2
    LowRateInterval = 3
    ModerateJank = 1
    SevereJank = 2
    OffRatio = 2
    MaxFrames = 7
    MaxTurns = 2
SPECIFICATION PartsSpec
INVARIANTS
    MapSound
    HintSound
    VotesAccounted
    RecordsMatchWindow
    JankJustified
PROPERTIES
    ImplementsLinks
    ReleasedOnlyWhenDue
    RoutineProgress
    NoEarlyRetirement
    VotesRetired
