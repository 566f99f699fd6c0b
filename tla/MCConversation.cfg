SPECIFICATION FairSpec
CONSTANTS
    client = client
    a = a
    b = b
    ghost = ghost
    x = x
    y = y
    Names = {client, a, b}
    Listeners = {a, b}
    Accepts <- AllKinds
    Agents = {a, b}
    Peers <- SomePeers
    Requests <- OneRequest
    Responses = {"None", "Reply", "Send", "Spawn", "Err"}
    Targets = {a, b}
    Ids = {x, y, u1, u2, u3, u4, u5}
    MaxCalls = 2
    System = System
    Organism = Organism
    NoRoot = NoRoot
INVARIANTS TypeOK ChainsEndWithHandler ResponsesReachCaller
PROPERTY EveryCallAnswered
CHECK_DEADLOCK FALSE
