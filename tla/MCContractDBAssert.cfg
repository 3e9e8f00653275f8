SPECIFICATION Spec
CONSTANTS
    Contracts = {c1}
    Blocks <- MCFork
    CheckDepth = 1
    RedeemSafeHeight = 0
    MaxRewind = 3
INVARIANT OneHashAsserted
