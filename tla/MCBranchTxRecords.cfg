SPECIFICATION Spec
CONSTANTS
    NoBlock = NoBlock
    Blocks <- MCBlocks
    BlockTxs <- MCBlockTxs
    Ids <- MCIds
    Paid <- FirstPaid
    MaxPowForCreateChainMortgage = 2
    MaxCrashes = 1
INVARIANTS
    RecordsExact NoDoubleReceive PoolUnreceived
CHECK_DEADLOCK FALSE
