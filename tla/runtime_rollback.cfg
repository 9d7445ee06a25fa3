CONSTANTS
    t1 = t1  t2 = t2  s1 = s1  s2 = s2  s3 = s3  a = a  b = b
    Junk = Junk  None = None
    Threads <- OneThread
    SeqIds <- TwoSeqs
    Tokens <- TwoTokens
    TotalPages = 3
    PageTokens = 2
    Context = 3
    MaxBatch = 1
    CopyMayFail = TRUE
    KernelMayFail = TRUE
    ForkDuringStep = FALSE
SPECIFICATION FairSpec
INVARIANT RollbackExact
PROPERTIES PrivateTokens StepReturns
CHECK_DEADLOCK FALSE
