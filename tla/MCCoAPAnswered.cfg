SPECIFICATION Spec
CONSTANTS
    MaxId = 1
    MaxRetransmit = 1
    AckTimeout = 1
    TransmitSpan = 3
    Rand = {0}
    ServerIds = {0}
    Kinds = {"answered", "ignored"}
    ServerWindow = 2
    NoSync = NoSync
INVARIANTS TypeOK AtMostOnce NoRequestSwallowed PendingHasMessages ConnectedAfterHandshake
PROPERTIES SynchronousMeansAcknowledged ConnectedMeansAcknowledged
