CONSTANTS
    MaxChunks = 3
    Files = {1, 3}
    MissedToSend = 2
    MinIncrease = 2
    FlightMax = 3
    UpdateTimeout = 2
    None = None
SPECIFICATION Spec
INVARIANTS TypeOK SuccessMeansAllChunks FlashUpdateMatchesTransfer
PROPERTIES NeverStuck TransferCompletes
