\* The generated client, the repositories and the REST server on small inputs.
SPECIFICATION FairSpec
CONSTANTS
    Null = Null
    NoAddress = NoAddress
    NoToken = NoToken
    a1 = a1
    a2 = a2
    t1 = t1
    t2 = t2
    x1 = x1
    x2 = x2
    c1 = c1
    c2 = c2
    Mantissa = 2
    TTL = 2
    Height <- MCHeight
    Address <- MCAddress
    Token <- MCToken
    Hash <- MCHash
    Name <- MCName
    Clients <- MCClients
    Loads <- MCLoads
INVARIANTS
    TypeOK
    OutcomesAgree
    ReadsAgree
    RowsAreValid
    ExactWhileSmall
    CachedWasTrue
PROPERTIES
    RepositorySteps
    CacheCatchesUp
CHECK_DEADLOCK FALSE
