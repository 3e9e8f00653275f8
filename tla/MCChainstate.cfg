SPECIFICATION Spec
CONSTANTS
    Blocks <- MCBlocks
    NoBlock = NoBlock
    BlockTxs <- MainTxs
    OutPoints <- MCOutPoints
    NoCoin = NoCoin
    Addresses = {"x", "y"}
    AddressOf <- MCAddressOf
    MainChain = TRUE
    MaxCrashes = 2
INVARIANTS TipIsUtxo DiskIsUtxo ListsExact
