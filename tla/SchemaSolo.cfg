SPECIFICATION FairSpec
CONSTANTS
    None = None
    s1 = s1
    s2 = s2
    s3 = s3
    s4 = s4
    s5 = s5
    e1 = e1
    e2 = e2
    c1 = c1
    c2 = c2
    Proc = {p1}
    SpecFile = {s1, s2, s3, s4}
    Enum = {e1, e2}
    Cfd = {c1, c2}
    Cat = {k1, k2}
    SpecEnums <- MCSpecEnums
    SpecCfds <- MCSpecCfds
    Elems <- MCElems
    Fields <- MCFields
    MaxRef = 2
    Faults = FALSE
INVARIANTS
    RefcountCovers
PROPERTY
    AcceptedIsLoaded
