SPECIFICATION Spec
CONSTANTS
    t1 = t1
    t2 = t2
    t3 = t3
    Tasks = {t1, t2, t3}
    Op <- OpOf
    Incoming = {q1}
    None = None
    MaxConns = 2
INVARIANTS
    TypeOK
    OnlyLateCallsHang
    AnsweredOnce
    HandlersAgree
PROPERTY ClosedConnectionEndsCalls
CHECK_DEADLOCK FALSE
