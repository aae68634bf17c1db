\* One caller, one backoff, two transports.
CONSTANTS
  Callers = {1}
  Objects = {11}
  Ranges = {{11}}
  BackoffIDs = {1}
  MaxBackoffs = 1
  MaxAcks = 1
  MaxGeneration = 2
  MaxBlocks = 1

SPECIFICATION LiveSpec

INVARIANTS
  NothingForgotten
  AckSafe

PROPERTY EveryCallReturns

CHECK_DEADLOCK FALSE
