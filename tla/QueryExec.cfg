SPECIFICATION Spec
CONSTANTS
    None = None
    q1 = q1
    q2 = q2
    id = id
    file = file
    note = note
    kind = kind
    othKind = othKind
    Query = {q1, q2}
    Program <- MCPrograms
    StackSize = 2
    MaxRows = 3
    Faults = TRUE
    Id = id
    Std = {file}
    Elem = {note, kind}
    OtherOf <- MCOtherOf
INVARIANTS
    StatementLifecycle
    RowsKept
    SearchesOwnRegex
    PairedRowsComplete
