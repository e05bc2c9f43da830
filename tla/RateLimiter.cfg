SPECIFICATION Spec
CONSTANTS
    Clients = {c1, c2, c3}
    Limit = 2
    Window = 3
    Capacity = 1
    MaxNow = 5
SYMMETRY Symmetry
INVARIANT SlidingBound
INVARIANT RefusalJustified
INVARIANT TableBounded
