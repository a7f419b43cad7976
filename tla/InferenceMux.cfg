SPECIFICATION Spec
CONSTANTS
    Requests = {r1, r2}
    Peer = peer
    None = None
    FAILURE_THRESHOLD = 1
    OPEN_DURATION = 1
    QueueCapacity = 1
    MaxTime = 1
    MaxClients = 2
INVARIANTS
    TypeOK
    RoutedToOwner
PROPERTIES
    LiveClientKept
    ImplementsBreaker
    EveryRequestAnswered
CHECK_DEADLOCK FALSE
