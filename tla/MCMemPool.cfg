CONSTANTS
    N = 4
    Contracts = {1, 2}
    Spends <- MCSpends
    Touches <- MCTouches
    Publishes = {1}
    LimitAncestors = 4
    LimitDescendants = 4
    MaxOrder = 4
    MaxEvict = 1
    MaxHeight = 1
SPECIFICATION Spec
CHECK_DEADLOCK FALSE
INVARIANTS ListsExact InputsAvailable
PROPERTIES LinksKept CountsKept OrderKept
