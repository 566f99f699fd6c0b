SPECIFICATION MCSpec
CONSTANTS
    t1 = t1
    t2 = t2
    m1 = m1
    m2 = m2
    m3 = m3
    m4 = m4
    Threads = {t1, t2}
    Messages = {m1, m2, m4}
    ThreadOf <- MCThreadOf
    Panicking = {m1}
    Workers = {w1, w2, w3}
    RoutedCap = 2
    Dispatcher = Dispatcher
    None = None
    Absent = Absent
    System = System
    Organism = Organism
    NoRoot = NoRoot
    NoKey = NoKey
    bob = bob
    amy = amy
    alice = alice
    carol = carol
    web = web
    peer = peer
    ids1 = ids1
    ids2 = ids2
    ids3 = ids3
    ids4 = ids4
    ids5 = ids5
    ids6 = ids6
    ids7 = ids7
    ids8 = ids8
    Names = {bob, amy, web, peer}
    Listeners = {bob, amy}
    Barred <- OfAmy
    Keys = {alice, carol}
    Entries <- SomeEntries
    Calls <- SomeCalls
    Refused <- NotThere
    Sends <- ToListeners
    MaxSends = 1
    Ids = {ids1, ids2, ids3, ids4, ids5, ids6, ids7, ids8}
INVARIANTS OneWorkerPerThread SerialPerThread InArrivalOrder LostOnlyBehindPanic
PROPERTIES DeliversSerially EveryMessageHandled WorkersEventuallyReaped
INVARIANTS InstanceSerial FailClosed
PROPERTY CallersAreServed
CHECK_DEADLOCK FALSE
