\* The flush signal arrives while clients hold entries.
SPECIFICATION FlushSpec
CONSTANTS
    Clients = {c1, c2}
    Handles = {h1, h2}
    NoHandle = NoHandle
    Objs = {o1, o2, o3}
    NoObj = NoObj
    MaxSize = 2
    Sizes <- SizesAroundMax
    SizeMod = 16
INVARIANT
    HeldEntryStays
