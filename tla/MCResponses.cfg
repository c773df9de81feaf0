\* Two readers and a writer of one file.
CONSTANTS
    Conns = {"reader1", "reader2", "writer"}
    Scripts <- ReadersAndWriter
    MaxAborts = 1
    Entries = {e1, e2, e3, e4}
    NoEntry = NoEntry
    NoPath = NoPath
    Paths = {"reg", "dir", "sock", "none"}
    Kind <- KindIsName
    FileSize = 2
    BodySize = 1
    Lifetime = 2
    MaxClock = 2
SPECIFICATION Spec
INVARIANTS
    TypeOK
    EntryInUseLives
    RefsAreWorks
    DeletedByOne
    OldEntryInvalidated
    HeadersMatchBody
PROPERTIES
    FreshIsRecent
    AllAnswered
CHECK_DEADLOCK FALSE
