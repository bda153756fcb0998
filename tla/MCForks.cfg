SPECIFICATION FairSpec
CONSTANTS
    Blocks <- ForkBlocks
    Genesis = "g"
    chain <- ForkChain
    Lib <- ForkLib
    Invalid = {"y7"}
    LocalBlocks = {"b6", "b8"}
    disable_replay_opts = FALSE
    Damage = FALSE
    MaxCrashes = 2
    MaxCloses = 1
INVARIANTS TypeOK HeadIsBest StateMatchesHead FetchByNumber DurableChain CanRevertToLib InvalidNeverKept NeverBroken RestartSucceeds
PROPERTIES LogsOnlyIrreversible IrreversibleStays ComesBackUp ConvergesToBest
CHECK_DEADLOCK FALSE
