SPECIFICATION Spec
CONSTANTS
  MaxInt = 511
  MaxUInt = 1023
  MaxInt64 = 4095
  MaxUInt64 = 8191
  Throws = Throws
  Wild = Wild
  StackLimit = 4
  KeyOrder <- Sorting
  Files <- AllFiles
  Functions <- Sets
INVARIANT LastSetterWins
INVARIANT ListedOptionsStart
INVARIANT ConversionsAgree
INVARIANT WrittenIsRead
INVARIANT GrammarIsKept
INVARIANT DigitsAreExact
CHECK_DEADLOCK FALSE
