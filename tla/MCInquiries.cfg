SPECIFICATION FairSpec
CONSTANTS
    asker = asker
    shop = shop
    rival = rival
    NoReply = NoReply
    Users = {asker, shop, rival}
    Sellers = {shop, rival}
    Asker = asker
    Shopkeeper = shop
    Calls = {c1, c2, c3}
    Requests <- MCRequests
INVARIANTS
    AnswerShown
    RepliesCounted
PROPERTIES
    EveryCallAnswered
    ReplyAnnounced
    DeskSpec
