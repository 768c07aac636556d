SPECIFICATION Spec
CONSTANTS
    StackDepth = 100
    Specs <- MCSpecs
    Versions <- MCVersions
    KnownEnums = {"known"}
    KnownCatalogues = {"known"}
INVARIANTS VerdictIsOfTheSpec TablesAsDefined CopiesKept CutOffKeepsWhole ReleasedOnce
CHECK_DEADLOCK FALSE
