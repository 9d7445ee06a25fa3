CONSTANTS
    t1 = t1  t2 = t2  s1 = s1  s2 = s2  s3 = s3  a = a  b = b
    Junk = Junk  None = None
    Threads <- TwoThreads
    SeqIds <- TwoSeqs
    Tokens <- OneToken
    TotalPages = 3
    PageTokens = 1
    Context = 2
    MaxBatch = 1
    CopyMayFail = FALSE
    KernelMayFail = FALSE
    ForkDuringStep = TRUE
SPECIFICATION Spec
INVARIANT StoresArePrivate
CHECK_DEADLOCK FALSE
