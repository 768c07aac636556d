SPECIFICATION Spec
CONSTANTS
    Junk = Junk
    Cell = {a, b}
    StackSize = 5
    CellSize = 2
INVARIANT
    StackInv
PROPERTY
    PopsLast
