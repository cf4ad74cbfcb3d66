CONSTANTS
    Workers = {w1, w2}
    Clients = {main}
    Owner = main
    Tasks = {a, b, c}
    QueueSize = 2
    NoThread = NoThread
    NoTask = NoTask
SPECIFICATION FairSpec
PROPERTIES
    AcceptedRuns
    DestructorReturns
    ImplementsTaskPool
