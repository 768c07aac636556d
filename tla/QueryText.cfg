SPECIFICATION Spec
CONSTANTS
    StackDepth = 11
    Tokens <- MCTokens
    MaxTokens = 10
    MaxPasses = 6
    Catalogues = {"music"}
    Refused = {"nofile", "("}
    Texts <- MCTexts
INVARIANTS TablesAgree RefusesAtOnce InstructionsFollowText PreparedIsReadable
CHECK_DEADLOCK FALSE
