SPECIFICATION E2EFairSpec
CONSTANTS
    alice = alice
    bob = bob
    page = page
    wallet = wallet
    o1 = o1
    NoUser = NoUser
    NoHook = NoHook
    Users <- MCUsers
    LoginHooks <- MCLoginHooks
    WalletHooks <- MCWalletHooks
    MaxCalls = 2
    PollBudget = 2
    Ops <- MCOps
    NonceOf <- MCNonceOf
    MaxPolls = 1
INVARIANTS
    NoHiddenToken
    NothingLeftHanging
    ShownIsTrue
    ShownOnChain
PROPERTIES
    CallsReturn
