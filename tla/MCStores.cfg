SPECIFICATION FairSpec
CONSTANTS
    seller = seller
    rival = rival
    c1 = c1
    c2 = c2
    c3 = c3
    None = None
    Sellers = {seller, rival}
    Calls = {c1, c2, c3}
    Requests <- MCRequests
    Week = 3
    Target = 1
    Retention = 2
    AuditRetention = 4
    MaxFailures = 1
INVARIANTS
    TypeOK
    StoreTraced
PROPERTIES
    ErasedOnlyWhenDue
    ErasedInTheEnd
