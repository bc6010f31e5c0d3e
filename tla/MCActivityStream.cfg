SPECIFICATION StreamSpec
CONSTANTS
    inbox = inbox
    client = client
    Runs <- MCRuns
    Docs <- MCDocs
    Clients <- MCClients
    Wide <- MCWide
    MaxUnits = 6
    MaxDoc = 1
INVARIANTS
    SentBounded
    AlignedDelivers
PROPERTIES
    AlignedFollows
