SPECIFICATION Spec
CONSTANTS
    producer_repetitions = 1
    maximum_tracked_dpos_confirmations = 8
    Accounts = {"sys", "a", "b", "c", "d"}
    system_account = "sys"
    Proposals <- FourThreeNone
    ConfirmChoices <- SinceWatermark
    MaxBlockNum = 17
    MaxSkipped = 2
INVARIANTS ConfirmCountExact CommitFailsOnlyAfterPromotion
CHECK_DEADLOCK FALSE
