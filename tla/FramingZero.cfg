CONSTANTS
    m0 = m0
    m1 = m1
    m2 = m2
    m3 = m3
    Senders = {s1}
    Messages = {m0, m1, m3}
    Size <- MCSizeSmall
    Capacity = 3
SPECIFICATION Spec
INVARIANT
    ZeroMeansCut
