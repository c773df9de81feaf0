\* Pipelined requests cut into pieces of any size.
CONSTANTS
    Symbols <- Alphabet
    Scripts <- Pipelines
    MaxLine = 3
    MaxBody = 3
    CbufSize = 3
    SizeMod = 64
SPECIFICATION Spec
INVARIANTS TypeOK IntactUnlessTorn
PROPERTY AllAnswered
CHECK_DEADLOCK FALSE
