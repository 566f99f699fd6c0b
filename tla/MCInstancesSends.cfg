SPECIFICATION InstancesSpec
CONSTANTS
    System = System
    Organism = Organism
    NoRoot = NoRoot
    NoKey = NoKey
    Absent = Absent
    bob = bob
    amy = amy
    alice = alice
    carol = carol
    web = web
    peer = peer
    ids1 = ids1
    ids2 = ids2
    ids3 = ids3
    ids4 = ids4
    ids5 = ids5
    ids6 = ids6
    ids7 = ids7
    ids8 = ids8
    Names = {bob, amy, web, peer}
    Listeners = {bob, amy}
    Barred = {}
    Keys = {alice, carol}
    Entries <- FewEntries
    Calls <- FewCalls
    Refused <- NotThere
    Sends <- ToInstances
    MaxSends = 1
    Ids = {ids1, ids2, ids3, ids4, ids5, ids6, ids7, ids8}
INVARIANT InstanceSerial
CHECK_DEADLOCK FALSE
