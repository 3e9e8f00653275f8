SPECIFICATION Spec
CONSTANTS
    OutPoints = {o1, o2}
    Coins = {k1, k2}
    NoCoin = NoCoin
    Hashes = {h1, h2}
    NullHash = NullHash
INVARIANTS TypeOK FlagsInv NeverMisapplied
PROPERTY CachesAreMaps
