CONSTANTS
    Pools = {p1, p2, p3}
    Threads = {t1, t2}
    Loggers = {l1, l2, l3}
    nullptr = nullptr
    NoCall = NoCall
SPECIFICATION Spec
SYMMETRY Symmetry
INVARIANTS
    TypeOK
    OnlyAnEndedPoolTakesIt
    OneLoggerUnlessRaced
