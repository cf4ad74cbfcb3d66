CONSTANTS
    Workers = {w1, w2}
    Clients = {main, app}
    Owner = main
    Tasks = {a, b, c, d}
    QueueSize = 2
    NoThread = NoThread
    NoTask = NoTask
SPECIFICATION Spec
SYMMETRY Symmetry
INVARIANTS
    TypeOK
    SleepsOnlyWhenIdle
    FifoNoLoss
    DrainedWhenDestroyed
    RowOfTask
    LogIsSound
    NoWalkDuringGrowth
    NeverStandsStill
PROPERTY
    RowsGoForward
