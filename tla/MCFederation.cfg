SPECIFICATION MCSpec
CONSTANTS
    A = A
    B = B
    C = C
    alice = alice
    bob = bob
    NoNode = NoNode
    Nodes = {A, B, C}
    Names = {alice, bob}
    Listeners <- EverywhereBob
    Peers <- InARow
    Keys <- AllKeys
    Key <- PairKeys
    Labels = {A, B, C}
    Mark <- MarkByPeer
    Matrix <- AllowAll
    Requests <- SomeRequests
    Targets <- SomeTargets
    MaxCalls = 2
    MaxReceived = 4
    Base = 2
    MaxName = 5
    MaxPeers = 1
    NONCE_LEN = 1
    PeerKeys = {k1, k2}
    Ct = Ct
    None = None
    Letters = {"a"}
    MaxLen = 6
    NoKey = NoKey
    Messages = {m1, m2}
    Width = 4
    Digit = 2
    Bits = {0, 1, 3, 4, 5, 7, 8}
INVARIANTS OriginIsTheEdge TaintAccumulates HandledWhereAddressed
INVARIANTS OpensAsSealed IntactOpens
INVARIANTS AddressesAreRead InstanceIsKept MirrorReadsAddresses MarksAreKept
CHECK_DEADLOCK FALSE
