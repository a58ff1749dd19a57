\* Two callers, two names and a registry of two boxes.
CONSTANTS
    t1 = t1
    t2 = t2
    n1 = n1
    n2 = n2
    Callers = {t1, t2}
    Names = {n1, n2}
    NoBox = NoBox
    Nobody = Nobody
    max_size = 2
SPECIFICATION FairSpec
PROPERTIES
    FindReturns
CHECK_DEADLOCK FALSE
