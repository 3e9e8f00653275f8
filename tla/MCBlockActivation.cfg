SPECIFICATION Spec
CONSTANTS
    Threads = {t1, t2}
    None = None
    Blocks <- MCBlocks
    ChainWork <- MCChainWork
    Address <- MCAddress
    BadContext <- MCBadContext
    BadConnect <- MCBadConnect
    MAX_FORK_BACK_BLOCKS = 2
    MIN_BLOCKS_TO_KEEP = 1
    SerialActivation = TRUE
    AnyCommand = FALSE
    CrashAnytime = FALSE
    MaxCommands = 1
    MaxCrashes = 1
INVARIANTS
    AssertionsHold CheckBlockIndex BestChainActive ActiveChainValid
SYMMETRY Symmetry
