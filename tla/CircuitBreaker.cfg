SPECIFICATION Spec
CONSTANTS
    Peers = {p1, p2}
    Requests = {r1, r2, r3}
    None = None
    FAILURE_THRESHOLD = 2
    OPEN_DURATION = 2
    MaxTime = 5
    MaxFailures = 4
SYMMETRY Symmetry
INVARIANTS
    TypeOK
    TrippedIffThreshold
    TripDates
PROPERTIES
    NoAdmissionDuringCooldown
    StragglersKeepCooldown
