SPECIFICATION Spec
CONSTANTS
    Blocks <- ShrinkBlocks
    Genesis = "g"
    chain <- ShrinkChain
    Lib <- ShrinkLib
    Invalid = {}
    LocalBlocks = {}
    disable_replay_opts = FALSE
    Damage = FALSE
    MaxCrashes = 1
    MaxCloses = 0
INVARIANT RestartSucceeds
CHECK_DEADLOCK FALSE
