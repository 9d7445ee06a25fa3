CONSTANTS
    NumStreams = 2
    MaxBatch = 3
    ImageBytes = {1}
SPECIFICATION StagingSpec
INVARIANT StreamsMatchSerial
