SPECIFICATION FairSpec
CONSTANTS
    b1 = b1
    b2 = b2
    p1 = p1
    k1 = k1
    k2 = k2
    green = green
    gold = gold
    NoGrade = NoGrade
    Orders = {o1, o2, o3}
    Buyers = {b1, b2}
    Products = {p1}
    StockKeys = {k1, k2}
    Grades = {green, gold}
    ProductOf <- MCProductOf
    Price <- MCPrice
    Rate <- MCRate
    MinAmount <- MCMinAmount
    Requests <- AllRequests
    CartOwners <- MCCartOwners
    InitStock <- MCInitStock
    InitPoints <- MCInitPoints
    InitSpend <- MCInitSpend
    InitGrade <- MCInitGrade
INVARIANTS
    TypeOK
    StockConserved
    SoldOutAnnounced
    GradeCurrent
PROPERTIES
    EveryCallAnswered
    SpendAdds
    LedgerSpec
