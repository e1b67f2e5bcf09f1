SPECIFICATION LiveSpec
CONSTANTS
  Threads = {main, t1, t2}
  Main = main
  NULL = NULL
  MaxSignals = 1
  PoolSize = 1
  Ten = 2
  Earlier = 2
  MaxRequests = 2
INVARIANTS
  Exclusive
  PageRecent
  PoolOutlivesUse
PROPERTIES
  HangIsFinal
  SignalEnds
  Served
