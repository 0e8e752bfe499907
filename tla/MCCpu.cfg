CONSTANTS
    N = 3
    UserTop = 1
    IO = {2}
    Vector = 1
    NoAddr = NoAddr
    MultSteps = 3
SPECIFICATION Spec
PROPERTY CpuImplements
PROPERTY InstructionEnds
