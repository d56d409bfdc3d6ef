CONSTANTS
    p1 = p1
    c1 = c1
    flush = flush
    h1 = h1
    a1 = a1
    Nobody = Nobody
    Callers = {1, 2, 3, 4}
    Permits = 2
    Keys = {k1, k2}
SPECIFICATION FairSpec
PROPERTIES EverySettles EveryRowEnds AdmitsInOrder PermitsInOrder
CHECK_DEADLOCK FALSE
