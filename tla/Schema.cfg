SPECIFICATION Spec
CONSTANTS
    None = None
    s1 = s1
    s2 = s2
    s3 = s3
    s4 = s4
    s5 = s5
    e1 = e1
    e2 = e2
    c1 = c1
    c2 = c2
    Proc = {p1, p2}
    SpecFile = {s4, s5}
    Enum = {e1}
    Cfd = {c1}
    Cat = {k1}
    SpecEnums <- MCSpecEnums
    SpecCfds <- MCSpecCfds
    Elems <- MCElems
    Fields <- MCFields
    MaxRef = 1
    Faults = TRUE
SYMMETRY Symmetry
INVARIANTS
    IInv
    ListedHasTable
    ExclusiveDefinition
    FieldsResolve
    CfdPartialOnlyInFlight
    WriterHasSchema
    ColumnsDescribed
    OtherColumnPresent
PROPERTY
    ListedOnlyGrows
