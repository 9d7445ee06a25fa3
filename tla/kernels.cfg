CONSTANTS
    NumPoints = 4
    Nears <- SparseNears
    MinPts = {1, 3}
    NumNodes = 4
    Unreachable = 100
    Graphs <- SomeGraphs
    Warp = 4
    Block = 8
    TileX = 4
    TileY = 2
    ImageSizes <- SomeImages
    GroupSize = 8
    MaxGridDim = 2
    MatrixSizes <- SomeProducts
    HeadSizes <- SomeHeads
    Percentile = 90
    Matrices <- SomeMatrices
    PointSets <- SomePoints
    GridSide = 4
    CellSize = 2
    KnnSizes = {1, 3}
    WarpCounts = {1, 3}
    Signals <- SomeSignals
    Runners = {0, 1, 2}
    Rounds = 3
    BlockKernels <- AllBlockKernels
    l1 = l1  l2 = l2
    Lanes <- TwoLanes
    Iterations = 3
    MinerThreads = 2
    NonceSpace = 4
    MaxTries = 4
    Alphabet = {1, 2}
    PatternLists <- SomePatterns
    Batches <- SomePackets
    MatchLimits = {0, 2, 9}
SPECIFICATION KernelsSpec
INVARIANTS
    TreesAreClusters DbscanCorrect SsspExact
    KernelsMatchLoops BarriersOrderLoads LoadsSeeTheirRound FencedIsNeverTorn MinedTruthful ScansMatchSearch
PROPERTY KernelsReturn
CHECK_DEADLOCK FALSE
