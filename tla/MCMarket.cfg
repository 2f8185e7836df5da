SPECIFICATION FairSpec
CONSTANTS
    owner = owner
    rival = rival
    buyer = buyer
    S = S
    c1 = c1
    c2 = c2
    c3 = c3
    M = M
    First = First
    NoRow = NoRow
    Users = {owner, rival, buyer}
    Owner = owner
    Sizes = {S, M}
    Forms <- MCForms
    FirstForm <- MCFirstForm
    Calls = {c1, c2, c3}
    Requests <- MCRequests
INVARIANTS
    ProductAsSaved
PROPERTIES
    EveryCallAnswered
    ShelfSpec
