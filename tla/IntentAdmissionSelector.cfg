SPECIFICATION Spec
CONSTANTS
    c1 = c1
    c2 = c2
    s1 = s1
    e1 = e1
    alice = alice
    bob = bob
    base = base
    other = other
    t1 = t1
    t2 = t2
    f1 = f1
    f2 = f2
    Unparsable = Unparsable
    Creates <- MCCreates
    Issues <- MCIssues
    Executes <- MCExecutes
    Users <- MCUsers
    Chains <- MCChains
    Scopes <- MCScopes
    Ttls <- MCTtls
    Targets <- MCTargets
    Selectors <- MCSelectors
    Values <- MCValues
    Base = base
    Configured <- MCConfigured
    Half = 8
    MaxClock = 2
SYMMETRY Symmetry
CHECK_DEADLOCK FALSE
INVARIANT SelectorKept
