SPECIFICATION Spec
CONSTANTS
    Text <- MCText
    BUFSIZE = 2
    Stamps = {2}
    FileMax = 2
    MaxPrinted = 4
INVARIANTS StreamKept PagesEndAtFormFeed
PROPERTIES OverwritesOnlyWhenFull NewNamesProcessed
