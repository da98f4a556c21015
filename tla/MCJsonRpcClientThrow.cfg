CONSTANTS
    Empty = Empty
    Event = Event
    MaxCalls = 2
    MaxEvents = 0
SPECIFICATION RpcSpec
INVARIANT NoUncaughtException
