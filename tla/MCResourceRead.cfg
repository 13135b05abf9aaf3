SPECIFICATION Spec
CONSTANTS
    r1 = r1
    r2 = r2
    r3 = r3
    t1 = t1
    t2 = t2
    Requests <- MCRequests
    Events <- MCEvents
    MaxId = 3
    Today <- MCToday
    Subject = t1
SYMMETRY Symmetry
INVARIANT IdsUnique
INVARIANT AckedIsStored
INVARIANT IdsFollowRealTime
 
 
PROPERTY ImplementsEventLog
PROPERTY SummaryMonotone
