SPECIFICATION FairSpec
CONSTANTS
    Callbacks = {a, b}
    Keys = {x, y}
    Timeouts = {1, 3}
    TickMax = 12
    GapMax = 2
    BusyMax = 9
    None = None
INVARIANTS TypeOK CalledOnce NearestIsExact NotEarly NotLate
PROPERTY EventuallyCalled
CHECK_DEADLOCK FALSE
