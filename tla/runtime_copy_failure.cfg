CONSTANTS
    t1 = t1  t2 = t2  s1 = s1  s2 = s2  s3 = s3  a = a  b = b
    Junk = Junk  None = None
    Threads <- OneThread
    SeqIds <- TwoSeqs
    Tokens <- OneToken
    TotalPages = 3
    PageTokens = 2
    Context = 2
    MaxBatch = 2
    CopyMayFail = TRUE
    KernelMayFail = FALSE
    ForkDuringStep = FALSE
SPECIFICATION Spec
INVARIANT RefcountsExact
CHECK_DEADLOCK FALSE
