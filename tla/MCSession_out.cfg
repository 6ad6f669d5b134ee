CONSTANTS
    r1 = r1
    r2 = r2
    a1 = a1
    a2 = a2
    Requests = {r1, r2}
    ApiClients = {a1, a2}
    ClientOf <- TwoClients
    Checker = checker
    Person = person
    MaxSignIns = 1
    MaxGen = 1
    NoToken = NoToken
SPECIFICATION Spec
INVARIANT SignedOutStaysOut
