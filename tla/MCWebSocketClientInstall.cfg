CONSTANTS
    Empty = Empty
    Event = Event
    MaxCalls = 1
    MaxEvents = 1
SPECIFICATION Spec
PROPERTY ReceiveAfterInstall
