SPECIFICATION MemSpec
CONSTANTS
    Null = Null
    Int4Max = 4
    Events <- MCEvents
    MaxId = 4
    MaxLimit = 2
    Queries <- MCQueries
    Namespace <- MCNamespace
    Scopes <- MCScopes
INVARIANT FindSubstitutes
INVARIANT CostSubstitutes
INVARIANT CursorCovers
PROPERTY ImplementsEventLog
CHECK_DEADLOCK FALSE
