SPECIFICATION FairJobSpec
CONSTANTS
    w1 = w1
    w2 = w2
    Workers = {w1}
    MaxCreates = 2
    T = 3
    G = 2
    I = 1
    CreateTimeout = 1
    Quota = 1
    Setups <- LiveSetups
PROPERTIES GoneFoundOut JobSettles
