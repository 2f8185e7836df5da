SPECIFICATION FairSpec
CONSTANTS
    ann = ann
    ben = ben
    tab = tab
    sold = sold
    None = None
    Users = {ann, ben}
    Tabs = {tab}
    Notes = {sold}
    NoteOf <- MCNoteOf
    MaxLogins <- MCMaxLogins
    Visitors <- MCVisitors
    MaxTokens <- MCMaxTokens
    MaxStreams <- MCMaxStreams
    MaxOpens <- MCMaxOpens
CHECK_DEADLOCK FALSE
INVARIANTS
    HubExact
    OwnNoticesShown
PROPERTIES
    NoticeShown
    StreamReopened
