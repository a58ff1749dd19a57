\* Every kind of client, with and without a pipe, and 0 to 2 sessions.
CONSTANTS
    k1 = k1
    k2 = k2
    Clients = {k1, k2}
    NoClient = NoClient
    MaxSessions = 2
SPECIFICATION MCFairSpec
INVARIANTS
    TypeOK
    RequestsConserved
    OneRequestAfterSigint
    PipedManagersAnswered
    FatalRequest
PROPERTIES
    AcceptedRequestsHandled
    CreateEnds
