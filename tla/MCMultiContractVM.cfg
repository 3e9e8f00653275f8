SPECIFICATION Spec
CONSTANTS
    Threads = {t1, t2, t3}
    Absent = Absent
    Contracts <- MCContracts
    Base <- MCBase
    Blocks <- MCBlocks
    Templates <- MCTemplates
    MaxGroups = 4
    MaxGroupSize = 8
INVARIANTS
     Serializable IndependentAccepted MinedSame MinedExact
PROPERTIES
    ExecuteReturns
