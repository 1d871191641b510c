SPECIFICATION FairSpec
CONSTANTS
  MAX_FAILED_ATTEMPTS = 2
  CounterModulus = 5
  MaxReboots = 3
  NvsFaults = FALSE
INVARIANTS
  TypeOK
  S3Supervised
  LockoutSupervised
  FreshGrant
  AnsweredFailuresBounded
  NoVerifyUnderStoredLockout
PROPERTIES
  WrapNeedsReboots
  GateHolds
  ImplementsAccessControl
  QuietReturnsToDefault
  StoredLockoutServed
