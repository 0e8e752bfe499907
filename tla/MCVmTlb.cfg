CONSTANTS
    Proc = {p1}
    Code = {0, 1}
    Data = {2, 3}
    Buffer = {}
    Image = {0, 2}
    NFrames = 12
    TLBN = 3
SPECIFICATION FairSpec
PROPERTIES
    InstructionRetires
