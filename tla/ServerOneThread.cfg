SPECIFICATION OrderedSpec
CONSTANTS
  Threads = {t1}
  Sessions = {"s1", "s2", "s3", "s4"}
  Uris <- ProxyUris
  BadRequestUri = "/badrequest"
  dispatch <- Proxying
  Inputs <- ProxyInputs
  ProxyCodes = {500}
  MaxFds = 3
  NULL = NULL
INVARIANTS
  CountExact
  BoardExact
  PageExact
  NeverCrashes
PROPERTIES
  Answered
  Listening
