SPECIFICATION Spec
CONSTANTS
    Socket = {1, 2, 3}
    MaxTimers = 2
    MaxEvents = 2
    None = None
INVARIANTS
    ReadyIsMutual
PROPERTIES
    LinkImplemented
    Settles
\* the nodes settle, or one of them does not know the other any more
CHECK_DEADLOCK FALSE
