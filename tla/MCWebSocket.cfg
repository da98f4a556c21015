CONSTANTS
    m1 = m1
    m2 = m2
    Msgs <- MCMsgs
    MaxSends = 3
SYMMETRY MCSymmetry
SPECIFICATION Spec
INVARIANTS
    TypeOK
    FifoDelivery
    QueueNeverStalls
