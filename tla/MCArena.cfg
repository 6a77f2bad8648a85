SPECIFICATION Spec
CONSTANTS
    Payloads = {0, 1, 5}
    Alignments = {2}
    Page = 4
    MinSb = 8
    ListMins <- MCListMins
    SearchLimit = 2
    Places = {0, 12, 24}
    Top = 36
    MaxLive = 3
INVARIANTS
    Tiled
    ListsExact
    RequestsHonoured
PROPERTIES
    ImplementsAllocator
