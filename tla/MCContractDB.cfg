SPECIFICATION Spec
CONSTANTS
    Contracts = {c1}
    Blocks <- MCBlocks
    CheckDepth = 1
    RedeemSafeHeight = 0
    MaxRewind = 3
INVARIANTS TypeOK   
