SPECIFICATION Spec
CONSTANTS
    client = client
    a = a
    b = b
    ghost = ghost
    x = x
    y = y
    Names = {client, a, b}
    Listeners = {a, b}
    Accepts <- AllKinds
    Agents = {a, b}
    Peers <- MutualPeers
    Requests <- OneRequest
    Responses = {"Reply", "Send"}
    Targets = {a, b}
    Ids = {x, y, u1, u2, u3, u4, u5}
    MaxCalls = 1
    System = System
    Organism = Organism
    NoRoot = NoRoot
INVARIANT LedgerSettles
CHECK_DEADLOCK FALSE
