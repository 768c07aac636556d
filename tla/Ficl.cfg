CONSTANTS
  CellBits = 6
  IntBits = 6
  MaxWordlists = 3
  MaxLocals = 4
  StackSize = 12
  DictionarySize = 44
  CoreNames <- MCCoreNames
  Texts <- MCTexts
  TextOf <- MCTextOf
  Numerals <- MCNumerals
  Sessions <- MCSessions
SPECIFICATION Spec
INVARIANT PromptBalanced
INVARIANT ListsIntact
INVARIANT BranchesInside
INVARIANT FramesPaired
PROPERTY CatchComesBack
PROPERTY JumpsKeepTheirWay
PROPERTY DivisionExact
CHECK_DEADLOCK FALSE
