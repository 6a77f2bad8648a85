SPECIFICATION Spec
CONSTANTS
    Key = {1, 2, 3, 4, 5, 6, 7, 8, 9, 10}
    NIL = 0
INVARIANTS
    SearchTree
    RedBlack
PROPERTIES
    ImplementsOrderedMap
    FixupProgress
