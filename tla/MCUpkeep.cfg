SPECIFICATION FairSpec
CONSTANTS
    Publishes = {p}
    Interval = 2
    Intervals = {0, 2}
    PingTimeout = 1
    AckTimeout = 2
    LoopGap = 1
    Burst = 2
    Window = 2
    SystemLimit = 1
    Minutes = 2
INVARIANTS EventsLimited PingTimeoutNotEarly
PROPERTIES AckTimeoutInTime DeadPeerNoticed PublishEnds
