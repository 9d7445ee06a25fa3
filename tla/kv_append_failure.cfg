CONSTANTS
    a = a  b = b
    Junk = Junk  None = None
    NLayers = 2
    PageTokens = 2
    TotalPages = 5
    MaxContext = 3
    MaxLength = 3
    MaxSeqs = 2
    Vals <- OneVal
    FaultLayers <- FirstLayer
SPECIFICATION Spec
INVARIANT AllPagesReturn
