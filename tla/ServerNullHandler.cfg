SPECIFICATION Spec
CONSTANTS
  Threads = {t1}
  Sessions = {s1, s2}
  Uris <- BareUris
  BadRequestUri = "/badrequest"
  dispatch <- Bare
  Inputs <- BareInputs
  ProxyCodes = {302, 500}
  MaxFds = 2
  NULL = NULL
INVARIANT NeverCrashes
