SPECIFICATION Spec
CONSTANTS
    Junk = Junk
    Cell = {a, b}
    StackSize = 30
    CellSize = 24
INVARIANT
    CellsInBounds
