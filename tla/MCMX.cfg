SPECIFICATION Spec
CONSTANTS
    Esz = 8
    Mant = 4
    EBits = 5
    MBits = 3
    EMax = 8
    EMin <- Neg6
    ScaleBits = 2
    WordBits = 10
    BlockElems = 2
    Sizes = {28, 16, 8}
    Stacks <- MCStacks
    AllocatorFns = {"malloc", "realloc"}
    Sites = {"f", "0x3"}
    ListSites = FALSE
    Stores <- MCStores
    InitValues = {0}
INVARIANTS
    EncodedIsStable
PROPERTIES
    EncodesNearest
    InFootprint
