SPECIFICATION FairSpec
CONSTANTS
    None = None
    Sizes <- MCSizes
    MaxQuantity = 1
    Stock = 1
    Calls <- MCCalls
    Kinds <- MCKinds
INVARIANTS
    ChargedAsOrdered
PROPERTIES
    PaymentShown
CHECK_DEADLOCK FALSE
