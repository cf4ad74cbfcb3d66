CONSTANTS
    m1 = m1
    m2 = m2
    m3 = m3
    Owner = Owner
    Task = Task
    Users = {Owner, App, Task}
    Requests = {m1, m2, m3}
    RequestSize <- MCRequestSize
    ReplySize <- MCReplySize
    Capacity = 2
    Reciever = Reciever
    NoReciever = NoReciever
    NoRequest = NoRequest
SPECIFICATION Spec
CHECK_DEADLOCK FALSE
INVARIANTS
    OnlyKnot
PROPERTY
    KnotStays
