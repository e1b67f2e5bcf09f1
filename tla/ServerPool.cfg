SPECIFICATION OrderedSpec
CONSTANTS
  Threads = {t1, t2}
  Sessions = {"s1", "s2", "s3"}
  Uris <- BareUris
  BadRequestUri = "/badrequest"
  dispatch <- Bare
  Inputs <- AllInputs
  ProxyCodes = {302, 500}
  MaxFds = 2
  NULL = NULL
INVARIANTS
  TypeOK
  AcceptArmed
  SessionConfined
  CountNeverOvershoots
PROPERTIES
  ReplyStable
  ImplementsConnections
  Answered
