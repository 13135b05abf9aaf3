SPECIFICATION Spec
CONSTANTS
    r1 = r1
    r2 = r2
    r3 = r3
    t1 = t1
    t2 = t2
    Requests <- MCRequests
    Events <- MCEvents
    MaxId = 3
    Today <- MCToday
    ScanTask = t1
    PageLimits = {0, 9}
    MaxLimit = 2
INVARIANT ScanComplete
INVARIANT ScanAscending
PROPERTY ScanTerminates
