SPECIFICATION Spec
CONSTANTS
    Peers = {p1}
    Requests = {r1, r2}
    None = None
    FAILURE_THRESHOLD = 3
    OPEN_DURATION = 1
    MaxTime = 2
    MaxFailures = 4
INVARIANT OneProbe
