SPECIFICATION Spec
CONSTANTS
    Me = "me"
    Order <- TwoProducers
    producer_repetitions = 2
    uint16_range = 2
    StaleAge = 2
    MaxAhead = 2
    JoinsLater = FALSE
    Promotes <- Never
    MayArrive <- Anything
    MaxSlot = 6
    MaxForeign = 2
    MaxFaults = 1
INVARIANTS NoContradiction ShippedByOwnTimer LoopAlive WakesInTime
CHECK_DEADLOCK FALSE
