SPECIFICATION RoundTripSpec
CONSTANTS
  Chars <- MCChars
  Files <- MCFiles
  PortKey <- MCKey
  Stoi <- MCStoi
INVARIANTS
  Nested
  PortAsked
  AcceptsGrammar
  RoundTrip
