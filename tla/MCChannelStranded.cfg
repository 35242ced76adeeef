SPECIFICATION Spec
CONSTANTS
    Incoming = FALSE
    HandshakeTimeout = 5
    PingInterval = 10
    PongTimeout = 4
    ReconnectDelays <- Delays
    Responsive = FALSE
    PongTimer = {1, 2, 3, 4}
    MaxAge = 31
INVARIANTS
    RestartsOnFailure
