SPECIFICATION ServiceSpec
CONSTANTS
    r1 = r1
    r2 = r2
    t1 = t1
    t2 = t2
    Requests <- MCRequests
    Tokens <- MCTokens
    TTL = 2
    MaxTime = 2
INVARIANT EntryWasValid
INVARIANT AcceptedWithinTTL
INVARIANT NoUseAfterClose
PROPERTY StopCompletes
