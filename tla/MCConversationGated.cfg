SPECIFICATION Spec
CONSTANTS
    client = client
    a = a
    b = b
    ghost = ghost
    x = x
    y = y
    Names = {client, a, b}
    Listeners = {a, b}
    Accepts <- AllKinds
    Agents = {b}
    Peers <- NoPeers
    Requests <- OneRequest
    Responses = {"Reply", "Send"}
    Targets = {b}
    Ids = {x, y, u1, u2, u3, u4, u5}
    MaxCalls = 1
    System = System
    Organism = Organism
    NoRoot = NoRoot
INVARIANT RepliesAreUngated
CHECK_DEADLOCK FALSE
