SPECIFICATION Spec
CONSTANTS
    a = a
    b = b
    x = x
    u1 = u1
    u2 = u2
    u3 = u3
    Ids = {x, u1, u2, u3}
    External = {x}
    Names = {a, b}
    System = System
    Organism = Organism
    NoRoot = NoRoot
    MaxDepth = 5
SYMMETRY IdSymmetry
INVARIANTS MapsAreInverse ResponsesRetraceCalls
PROPERTY IdsKeepTheirChain
