SPECIFICATION Spec
CONSTANTS
    r1 = r1
    r2 = r2
    r3 = r3
    t1 = t1
    t2 = t2
    Null = Null
    Int4Max = 4
    Requests <- MCRequests
    Events <- MCEvents
    MaxId = 3
    Today <- MCToday
    Scopes <- MCScopes
SYMMETRY Symmetry
INVARIANT CostTypeOK
INVARIANT OnePerTask
INVARIANT AnswerCoversAsked
PROPERTY SupersededNotCounted
PROPERTY TaskCountMonotone
