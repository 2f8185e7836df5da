SPECIFICATION DashboardSpec
CONSTANTS
    i = i
    j = j
    NoOrder = NoOrder
    Items = {i, j}
    Price <- MCPrice
    Quantity <- MCQuantity
    MonthStarts <- MCMonthStarts
    YearStarts <- MCYearStarts
    FirstDay <- MCFirstDay
    LastDay = 16
INVARIANTS
    ShownAddsUp
PROPERTIES
    RolledOver
CHECK_DEADLOCK FALSE
