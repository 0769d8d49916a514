SPECIFICATION FairSpec
CONSTANTS
    t1 = t1
    t2 = t2
    t3 = t3
    Threads = {t1, t2, t3}
    Count = 2
    MaxDowns = 3
PROPERTIES
    WaitersPass
CHECK_DEADLOCK FALSE
