SPECIFICATION RunningSpec
CONSTANTS
    SequenceModulus = 32
    FirstSequence = 5
    Instruments = {i1}
    Kinds = {}
    MaxParts = 3
    MaxSent = 3
    Late = 1
SYMMETRY Symmetry
INVARIANT
    HandedComplete
