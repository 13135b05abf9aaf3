SPECIFICATION Spec
CONSTANTS
    MaxEvents = 2
    QueueMax = 2
INVARIANT RefusalsAreWarned
