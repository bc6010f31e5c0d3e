SPECIFICATION Spec
CONSTANTS
    r1 = r1
    q1 = q1
    q2 = q2
    client = client
    Runs <- MCRuns
    Polls <- MCPolls
    Docs <- MCDocs
    Clients <- MCClients
    Wide <- MCRuns
    MaxUnits = 6
    MaxDoc = 0
SYMMETRY Symmetry
INVARIANTS
    RunLoggedOnce
    LoggedIsCompleted
