\* One client and one worker, and SIGINT.
CONSTANTS
    k1 = k1
    k2 = k2
    Clients = {k1}
    NoClient = NoClient
    MaxSessions = 1
SPECIFICATION FairSpec
PROPERTIES
    CleanUpRuns
