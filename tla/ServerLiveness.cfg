CONSTANTS
    Recievers = {r1}
    NoReciever = NoReciever
    Fds = {f1, f2, f3}
    NoFd = NoFd
    Task = Task
    Apps = {a1}
    Senders = {a1, Task}
    Peers = {p1, p2}
    NoPeer = NoPeer
    MaxOther = 0
    Backends = {"epoll"}
SPECIFICATION FairSpec
PROPERTIES
    ImplementsReporter
    CutIsClosed
