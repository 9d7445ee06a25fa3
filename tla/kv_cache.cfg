CONSTANTS
    a = a  b = b
    Junk = Junk  None = None
    NLayers = 2
    PageTokens = 2
    TotalPages = 4
    MaxContext = 2
    MaxLength = 2
    MaxSeqs = 2
    Vals <- TwoVals
    FaultLayers <- LaterLayers
SPECIFICATION Spec
SYMMETRY Interchangeable
INVARIANTS PagesAccounted TokensFinish
PROPERTY PrivateSequences
