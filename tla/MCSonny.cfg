\* A counter of six values wraps as the 8-bit one does (256 % 5 = 6 % 5 = 1).
SPECIFICATION Spec
CONSTANTS
    Lo <- MCLo
    Hi <- MCHi
    Home <- MCHome
    SkillValues <- MCSkillValues
    OtherValues <- MCOtherValues
    NaN = NaN
    Absent = Absent
    Empty = Empty
    VMax = 3
    AMax = 3
    JMax = 1
    CmdCap = 1
    Size <- MCSize
    MaxMessages = 4
    MaxLoss = 2
    Cap = 3
    Budget = 2
    StatusEvery = 2
    MaxFrames = 5
    Writer = {rt, hal}
    Duration = {1, 3}
    MaxRecords = 2
    Width = 6
    LegMotors = 2
    Payloads <- MCPayloads
    NoiseBytes <- MCNoiseBytes
    MaxAnswers = 2
    MaxNoise = 1
    Files <- MCFiles
    Environments <- MCEnvironments
    Nothing = Nothing
INVARIANTS
    TypeOK
    CommandsInLimits
    NoForgedReading
    UsableMessagesKept
    PollCadence
    DecodedInOrder
    WaitsForPartialFrame
    WorkerNeverBlocks
    ScreenCountsFrames
    ScreenTellsLatch
    NoSampleLost
    SnapshotIsPlausible
    HalMatchesControl
PROPERTIES
    SmoothWhileFollowed
    JerkBounded
    ReleasedMockRests
    IntactFramesKept
    ScreenCatchesUp
CHECK_DEADLOCK FALSE
