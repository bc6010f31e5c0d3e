SPECIFICATION Spec
CONSTANTS
    c1 = c1
    c2 = c2
    mail = mail
    wallet = wallet
    u1 = u1
    u2 = u2
    n1 = n1
    NoUser = NoUser
    Calls <- MCCalls
    Emails <- MCEmails
    Wallets <- MCWallets
    UserIds <- MCUserIds
    Nonces <- MCNonces
    Ttl = 1
    Leeway = 0
    NonceTtl = 1
    MaxClock = 2
SYMMETRY Symmetry
CONSTRAINT FourTokens
INVARIANTS
    NonceSpentOnce
    RevokedStaysOut
PROPERTIES
    PromiseKept
