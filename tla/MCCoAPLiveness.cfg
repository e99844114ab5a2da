SPECIFICATION FairSpec
CONSTANTS
    MaxId = 1
    MaxRetransmit = 1
    AckTimeout = 1
    TransmitSpan = 1
    Rand = {0}
    ServerIds = {0}
    Kinds = {"key_change", "rejected"}
    ServerWindow = 0
    NoSync = NoSync
PROPERTIES RequestsEnd SynchronousEnds
