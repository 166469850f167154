SPECIFICATION Spec
CONSTANTS
    SequenceModulus = 32
    FirstSequence = 5
    Instruments = {i1, i2}
    Kinds = {"Trades"}
    MaxParts = 3
    MaxSent = 4
    Late = 3
SYMMETRY Symmetry
INVARIANTS
    TypeOK
    HandedFromOneUpdate
    PublishedOnceInOrder
PROPERTY
    FirstFrameOnly
