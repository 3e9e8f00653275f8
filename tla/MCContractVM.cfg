SPECIFICATION Spec
CONSTANTS
    Contracts = {a, b}
    User = User
    Absent = Absent
    Payments = {0, 2}
    Amounts = {1}
    MAX_INTERNAL_CALL_NUM = 4
    MaxTxs = 3
    MaxChanges = 1
INVARIANTS
    BooksBalance NoOverspend LuaStatesInUse SenderOfOutermost
CHECK_DEADLOCK FALSE
