\* Two messages, one client request, one server key.
CONSTANTS
    Handlers = {h1, h2}
    Senders = {s1}
    Keys = {k1}
    NoTx = NoTx
SPECIFICATION Spec
INVARIANTS PoolSound LiveIsMatchable ClosedAfterServing
PROPERTIES CancelCompletes EndedLeavesPool
CHECK_DEADLOCK FALSE
