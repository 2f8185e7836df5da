SPECIFICATION Spec
CONSTANTS
    b1 = b1
    b2 = b2
    x = x
    y = y
    NoCall = NoCall
    Buyers = {b1, b2}
    Orders = {x, y}
    Calls = {c1, c2}
    BuyerOf <- MCBuyerOf
    Refund <- MCRefund
    InitPoints <- MCInitPoints
    Requests <- PayAndCancel
INVARIANT RefundedOnce
