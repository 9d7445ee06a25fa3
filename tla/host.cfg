CONSTANTS
    BatchLimit = 2
    MaxSubmits = 5
    GenContext = 3
    GenPageTokens = 2
    GenMaxBatch = 2
    MaxNews <- NewTokens
    MaxPrompt = 4
    MayThrow = TRUE
    t1 = t1  t2 = t2  t3 = t3  k1 = k1  k2 = k2  k3 = k3  e = e
    EmptyKey = e
    NotFound = NotFound  Diverges = Diverges
    Cap = 4
    Lanes = 2
    Keys <- ThreeKeys
    Queries <- ThreeKeys
    Vals <- Bits
    Home <- Crowded
    Probes <- BothProbes
    Threads <- TwoThreads
    StaleReads = TRUE
    FreshKeysOnly = TRUE
    MaxLaunches = 3
    Functions <- AllFunctions
    ReallocFails = FALSE
    GivenUp = {"IvfFlatIndex"}
    NumStreams = 2
    MaxBatch = 3
    ImageBytes = {1, 2}
    NList = 2
    Coords = {0, 1}
    MaxVectors = 3
    kMaxK = 2
    Texts <- SomeTexts
    Merges <- SomeMerges
    Vocabulary <- SomeVocabulary
    Control = {9}
    Word = 64
    FileSizes = {0, 1, 12}
    Lengths = {5, 17, 63}
    Dims = {0, 1, 3, 8}
    Offsets = {0, 2, 3, 8, 62}
    MaxString = 16
    kMaxElements = 16
    MaxTensors = 2
SPECIFICATION HostSpec
INVARIANTS
    BatcherInv DrainedMeansHandled
    FeedsInOrder FinishTruthful DefaultPoolSuffices
    LinearTablesSound EntriesConserved LookupsMatchInserts
    MemorySafe NothingLost ErrorsAttributed
    FreshSlotsMatchSerial SearchesSound EncodeIsExact OpenFilesAreSound
PROPERTIES AcceptedAreHandled KeysStay HostReturns
CHECK_DEADLOCK FALSE
