\* Two clients, three handles, two addresses; a cache of 2 and entries of 1, 2 or 3.
SPECIFICATION FairSpec
CONSTANTS
    Clients = {c1, c2}
    Handles = {h1, h2, h3}
    NoHandle = NoHandle
    Objs = {o1, o2}
    NoObj = NoObj
    MaxSize = 2
    Sizes <- SizesAroundMax
    SizeMod = 16
INVARIANTS
    TypeOK
    HeldEntryStays
    RefcntIsHolders
    EvictableNotForgotten
    ResidentWithinMax
    CurAccounted
PROPERTY
    SomeOperationReturns
    ImplementsContract
