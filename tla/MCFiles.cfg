CONSTANTS
    text = text
    File = {text}
    Dir = {root, sub}
    Dev = {}
    Root = root
    Blocks = 1
    Image <- MCImage
    Proc = {p1, p2}
    NFD = 2
    StdFds = 1
    MaxSize = 2
    MaxLost = 1
SPECIFICATION Spec
INVARIANT RefsExact
PROPERTY BlocksKept
SYMMETRY Symmetry
