SPECIFICATION Spec
CONSTANTS
  Threads = {t1, t2}
  Sessions = {s1, s2, s3}
  Uris <- MCUris
  BadRequestUri = "/badrequest"
  dispatch <- Shipped
  Inputs <- WholeInputs
  ProxyCodes = {302, 500}
  MaxFds = 2
  NULL = NULL
INVARIANT BoardExact
