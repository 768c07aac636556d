SPECIFICATION Spec
CONSTANTS
    StackDepth = 11
    Tokens <- MCTokens
    MaxTokens = 8
    MaxPasses = 6
    Catalogues = {"music"}
    Refused = {"re"}
    Texts <- NoTexts
INVARIANT ParseReturns
CHECK_DEADLOCK FALSE
