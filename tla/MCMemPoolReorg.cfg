CONSTANTS
    N = 3
    Contracts = {1}
    Spends <- ReorgSpends
    Touches <- ReorgTouches
    Publishes = {}
    LimitAncestors = 25
    LimitDescendants = 25
    MaxOrder = 4
    MaxEvict = 1
    MaxHeight = 1
SPECIFICATION Spec
CHECK_DEADLOCK FALSE
INVARIANT NoAssertionFails
