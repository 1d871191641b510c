SPECIFICATION FairSpec
CONSTANTS
  MAX_FAILED_ATTEMPTS = 2
  CounterModulus = 256
  MaxReboots = 1
  NvsFaults = FALSE
PROPERTIES
  QuietLocks
