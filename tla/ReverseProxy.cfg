SPECIFICATION Spec
CONSTANTS
  Chars <- MCChars
  Dest = "D"
  location_path_ <- U
  Uris <- MCUris
  Messages <- MCMessages
  Malformed <- MCMalformed
  MaxCalls = 8
  NULL = NULL
INVARIANTS
  Relayed
  Followed
  OnlyCyclesOverflow
  WellFormedSafe
