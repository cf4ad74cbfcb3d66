CONSTANTS
    Recievers = {r1}
    NoReciever = NoReciever
    Fds = {f1, f2}
    NoFd = NoFd
    Task = Task
    Apps = {a1}
    Senders = {a1, Task}
    Peers = {}
    MaxOther = 0
    Backends = {"epoll"}
SPECIFICATION FairSpec
PROPERTY
    RetryRecovers
