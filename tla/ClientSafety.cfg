CONSTANTS
    Recievers = {r1, r2}
    NoReciever = NoReciever
    Fds = {f1, f2, f3}
    NoFd = NoFd
    Task = Task
    Apps = {a1, a2}
    Senders = {a1, a2, Task}
    Peers = {}
    MaxOther = 1
    Backends = {"epoll", "kevent"}
SPECIFICATION Spec
SYMMETRY Symmetry
INVARIANTS
    TypeOK
    WritesToOwnSocket
    OwnsWhatItNames
    ErasesListedSocket
    QuietAfterEnd
    ConnectsFreshSocket
