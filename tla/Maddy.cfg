SPECIFICATION Spec
CONSTANTS
  Documents <- MCDocuments
  Words <- MCWords
  Tokens <- MCTokens
INVARIANTS
  Balanced
  TextKept
  EmptyLineEnds
  RowsFirst
