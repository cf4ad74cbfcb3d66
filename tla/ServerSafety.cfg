CONSTANTS
    Recievers = {r1, r2}
    NoReciever = NoReciever
    Fds = {f1, f2, f3, f4, f5}
    NoFd = NoFd
    Task = Task
    Apps = {a1}
    Senders = {a1, Task}
    Peers = {p1, p2}
    NoPeer = NoPeer
    MaxOther = 1
    Backends = {"epoll", "kevent"}
SPECIFICATION Spec
SYMMETRY Symmetry
INVARIANTS
    EventsStayValid
    RepliesReachSender
    EpollLeaksNothing
PROPERTY
    ChecksOpenConnection
