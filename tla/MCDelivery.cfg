SPECIFICATION DeliverySpec
CONSTANTS
    MaxEvents = 3
    QueueMax = 2
    Requests <- MCRequests
    Events <- MCEvents
    MaxId = 2
    Today <- MCToday
INVARIANT TypeOK
INVARIANT StoreTypeOK
INVARIANT QueueIsNewest
INVARIANT OrderUnlessGivenUp
INVARIANT NoLostWakeup
INVARIANT CleanCloseFlushes
INVARIANT PrefixReadable
INVARIANT AnsweredIsReadable
PROPERTY ImplementsEmitter
PROPERTY ImplementsChannel
PROPERTY QueueMoves
PROPERTY ClosedDrainEnds
