CONSTANTS
    r1 = r1
    r2 = r2
    a1 = a1
    a2 = a2
    Requests = {r1, r2}
    ApiClients = {a1}
    ClientOf <- OneClient
    Checker = checker
    Person = person
    MaxSignIns = 2
    MaxGen = 1
    NoToken = NoToken
SPECIFICATION FairSpec
INVARIANTS TypeOK SignOutClears TokensInv
PROPERTIES RetryUsesNewToken RequestsEnd LoadingEnds
