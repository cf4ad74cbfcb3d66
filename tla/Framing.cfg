CONSTANTS
    m0 = m0
    m1 = m1
    m2 = m2
    m3 = m3
    Senders = {s1, s2}
    Messages = {m0, m1, m2, m3}
    Size <- MCSize
    Capacity = 3
SPECIFICATION FairSpec
INVARIANTS
    TypeOK
    WholeAndInOrder
    NeverOutOfStep
    NeverWaitsInVain
PROPERTY
    SentIsRecieved
