SPECIFICATION Spec
CONSTANTS
    MaxId = 1
    MaxRetransmit = 1
    AckTimeout = 1
    TransmitSpan = 3
    Rand = {0}
    ServerIds = {0}
    Kinds = {"rejected"}
    ServerWindow = 2
    NoSync = NoSync
INVARIANT ConnectedAfterHandshake
