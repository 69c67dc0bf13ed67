SPECIFICATION ASpec
CONSTANTS
    j1 = j1
    j2 = j2
    o1 = o1
    o2 = o2
    Absent = Absent
    NoWord = Absent
    NoFile = NoFile
    Jobs = {j1, j2}
    Dirs = {o1, o2}
    WordBits = 7
    SlotSpace = 64
    MaxFactors = 4
    Keccak <- MCKeccak
    KindOrder <- MCKindOrder
    Layout <- MCLayout
    BaseFee <- MCBaseFee
    LpOriginal = 3
    ModeOn = 3
    ModeOff = 2
    PinnedWords <- MCPinnedWords
    Documents <- MCDocuments
    Sources <- MCSources
    Installs <- MCInstalls
    Shipped <- MCShipped
    Engines <- MCEngines
    AcceptedEngine <- MCAcceptedEngine
    Starts <- MCStarts
    None = None
    MaxMoves = 1
    MaxUsed = 1
    MaxFree = 2
    AdmissionFree = 2
    RuntimeFree = 1
    MaxSamples = 2
    MaxGuards = 2
INVARIANTS
    ParallelAssignment
    LegacyParity
    PreparedIsOneDerivation
    WorldsAsPlanned
    StoodStill
    SummaryIsTrue
CHECK_DEADLOCK FALSE
