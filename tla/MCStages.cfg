SPECIFICATION MCSpec
CONSTANTS
    t1 = t1
    t2 = t2
    Threads = {t1, t2}
    Kinds <- MixedKinds
    MaxFuel = 1
    MaxInjected = 4
    Cap = 2
    None = None
INVARIANTS TypeOK EndsInOrder
PROPERTIES OneLine RingDrains RingShutsDown
CHECK_DEADLOCK FALSE
