CONSTANTS
    Slots = {s1, s2}
    PullSlots = {p1}
    Keys = {all, bug}
    AllLabels = all
    NoKey = none
    MaxChanges = 2
    MaxQueries = 2
    Tables = {small, large}
    NoTable = none
    MaxPages = 2
    PagesOf <- MCPagesOf
    MaxDrafts = 2
    MaxPosts = 2
    MaxOthers = 1
    MaxLog = 3
    Cap = 2
    MaxDowns = 1
    Clicks = {c1, c2}
    MaxPulls = 1
    small = small
    large = large
SPECIFICATION Spec
INVARIANTS
    DashIInv
    ShownIsCurrent
    CalmHasCause
    StreamExact
    NothingRedUnlessMoved
    TwiceHasCause
    MemosAreKept
SYMMETRY RequestSymmetry
