CONSTANTS
    Proc = {p1, p2}
    Code = {0}
    Data = {1}
    Buffer = {2}
    Image = {0}
    NFrames = 7
    TLBN = 1
SPECIFICATION Spec
INVARIANTS
    TlbCoherent
    FramesExact
    OwnSpace
SYMMETRY Symmetry
