SPECIFICATION Spec
CONSTANTS
    Blocks <- ShrinkBlocks
    Genesis = "g"
    chain <- ShrinkChain
    Lib <- ShrinkLib
    Invalid = {}
    LocalBlocks = {"b10", "b11", "b12"}
    disable_replay_opts = FALSE
    Damage = TRUE
    MaxCrashes = 1
    MaxCloses = 2
INVARIANTS StateMatchesHead DurableChain
CHECK_DEADLOCK FALSE
