CONSTANTS
    Empty = Empty
    Event = Event
    MaxCalls = 3
    MaxEvents = 1
SPECIFICATION FairSpec
PROPERTIES CloseReturns CloseDrainEnds
INVARIANT StopNotUndone
