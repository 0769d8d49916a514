SPECIFICATION FairSpec
CONSTANTS
    t1 = t1
    t2 = t2
    t3 = t3
    x = x
    y = y
    Threads = {t1, t2, t3}
    Items = {x, y}
    MaxLength = 3
INVARIANTS
    NoLostWakeup
PROPERTIES
    ImplementsFifo
