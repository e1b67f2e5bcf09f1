SPECIFICATION Spec
CONSTANTS
  Chars <- MCChars
  Statements <- MCStatements
  MaxLength = 3
  Uris <- MCUris
  BadPath <- Bad
  NULL = NULL
INVARIANTS
  TypeOK
  FirstAsked
  TableAgrees
  LongestPrefix
  CatchAll
