SPECIFICATION Spec
CONSTANTS
  Documents <- QuoteDocuments
  Words <- MCWords
  Tokens <- MCTokens
INVARIANTS
  AllFinished
