SPECIFICATION Spec
CONSTANTS
    Me = "me"
    Order <- TwoProducers
    producer_repetitions = 2
    uint16_range = 65536
    StaleAge = 12
    MaxAhead = 1
    JoinsLater = TRUE
    Promotes <- AtBlockTwoOrFour
    MayArrive <- OnTwoChains
    MaxSlot = 10
    MaxForeign = 7
    MaxFaults = 0
INVARIANTS NoContradiction
CHECK_DEADLOCK FALSE
