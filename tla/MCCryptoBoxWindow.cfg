CONSTANTS
    k1 = k1
    k2 = k2
    m1 = m1
    m2 = m2
    m3 = m3
    m4 = m4
    m5 = m5
    m6 = m6
    NoKey = NoKey
    NoNonce = NoNonce
    Keys <- MCKeys
    Msgs <- MCMsgs6
    Window = 2
    MaxCounter = 6
SYMMETRY MCSymmetry
SPECIFICATION Spec
INVARIANT IInv
INVARIANT NonceUnique
INVARIANT AtMostOnce
INVARIANT InWindowAccepted
PROPERTY ChannelSpec
