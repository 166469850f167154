SPECIFICATION Spec
CONSTANTS
    SequenceModulus = 32
    FirstSequence = 5
    Instruments = {i1, i2}
    MaxParts = 3
    MaxSent = 5
    Late = 3
SYMMETRY Symmetry
INVARIANTS
    HandedWhole
    HandedFromOneSnapshot
    NoLeftOvers
