SPECIFICATION Spec
CONSTANTS
    Users = {alice, bob}
    NoUser = NoUser
    Calls = {c1, c2}
    s1 = s1
    t1 = t1
    t2 = t2
    Sends <- MCSends
    Scripts <- MCScripts
    Builds <- MCBuilds
    MaxKeys = 2
INVARIANTS
    AppIInv
    SessionIsThePages
    NonceClashHasCause
PROPERTIES
    ButtonsComeBack
