SPECIFICATION Spec
CONSTANTS
    client = client
    a = a
    b = b
    ghost = ghost
    x = x
    y = y
    Names = {client, ghost, a, b}
    Listeners = {a, b}
    Accepts <- AllKinds
    Agents = {a, b}
    Peers <- MutualPeers
    Requests <- OneInstance
    Responses = {"Reply"}
    Targets = {a, b}
    Ids = {x, y, u1, u2, u3, u4, u5}
    MaxCalls = 0
    System = System
    Organism = Organism
    NoRoot = NoRoot
PROPERTY RepliesGoToSender
CHECK_DEADLOCK FALSE
