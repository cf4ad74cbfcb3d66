CONSTANTS
    Recievers = {r1, r2}
    NoReciever = NoReciever
    Fds = {f1, f2}
    NoFd = NoFd
    Task = Task
    Apps = {a1}
    Senders = {a1, Task}
    Peers = {}
    MaxOther = 0
    Backends = {"epoll", "kevent"}
SPECIFICATION FairSpec
PROPERTIES
    ImplementsReporter
    Reconnects
