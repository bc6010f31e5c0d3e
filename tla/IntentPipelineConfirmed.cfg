SPECIFICATION Spec
CONSTANTS
    i1 = i1
    i2 = i2
    o1 = o1
    o2 = o2
    Intents <- MCIntents
    Ops <- MCOps
    NonceOf <- MCNonceOf
    MaxPolls = 2
INVARIANT
    ConfirmedIsMined
