CONSTANTS
    m1 = m1
    m2 = m2
    m3 = m3
    Owner = Owner
    Task = Task
    Users = {Owner}
    Requests = {m1, m2, m3}
    RequestSize <- MCRequestSize
    ReplySize <- MCReplySize
    Capacity = 2
    Reciever = Reciever
    NoReciever = NoReciever
    NoRequest = NoRequest
SPECIFICATION FairSpec
INVARIANTS
    AnswersInOrder
    OneSenderGoesOn
PROPERTIES
    Answered
    EndsReturn
