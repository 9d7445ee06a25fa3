CONSTANTS
    t1 = t1  t2 = t2  s1 = s1  s2 = s2  s3 = s3  a = a  b = b
    Junk = Junk  None = None
    Threads <- TwoThreads
    SeqIds <- TwoSeqs
    Tokens <- TwoTokens
    TotalPages = 3
    PageTokens = 2
    Context = 2
    MaxBatch = 2
    CopyMayFail = FALSE
    KernelMayFail = FALSE
    ForkDuringStep = FALSE
SPECIFICATION Spec
SYMMETRY Interchangeable
INVARIANTS TypeOK AllocInv RefcountsExact OneStepAtATime
PROPERTY PrivateTokens
