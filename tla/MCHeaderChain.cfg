SPECIFICATION Spec
CONSTANTS
    producer_repetitions = 1
    maximum_tracked_dpos_confirmations = 4
    Accounts = {"sys", "a", "b", "c"}
    system_account = "sys"
    Proposals <- ThreeOrTwo
    ConfirmChoices <- AnyCount
    MaxBlockNum = 9
    MaxSkipped = 2
INVARIANTS TypeOK IInv ConfirmCountExact QuorumBehindProposed IrreversibleBehindProposed ImpliedByActive ProposalFollows ProducerValidatorAgree
CHECK_DEADLOCK FALSE
