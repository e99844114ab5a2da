SPECIFICATION Spec
CONSTANTS
    Capacity = 2
    Slots <- PageSlots
    Values = {x}
    Erased = Erased
    Marginal = FALSE
    MaxLosses = 2
PROPERTY StoreSpec
