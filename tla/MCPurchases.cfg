SPECIFICATION PurchaseSpec
CONSTANTS
    b1 = b1
    b2 = b2
    x = x
    i = i
    c1 = c1
    c2 = c2
    w1 = w1
    w2 = w2
    w3 = w3
    w4 = w4
    w5 = w5
    NoCall = NoCall
    NoReview = NoReview
    NoData = NoData
    Buyer = b1
    Buyers = {b1, b2}
    Orders = {x}
    Items = {i}
    Calls = {c1, c2}
    Writers = {w1, w2, w3, w4, w5}
    TabCalls = {c1}
    TabWriters = {w1, w2}
    BuyerOf <- MCBuyerOf
    Refund <- MCRefund
    InitPoints <- MCInitPoints
    OrderOf <- MCOrderOf
    Requests <- MCRequests
    ReviewRequests <- MCReviewRequests
INVARIANTS
    ReviewedWasDelivered
    ShownAtRest
    ReviewsCounted
CONSTRAINT Bounded
