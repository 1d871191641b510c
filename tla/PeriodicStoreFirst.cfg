SPECIFICATION FairSpec
CONSTANTS
  Dids = {d1, d2}
  NoDid = NoDid
  Slots = 3
  StoreFirst = TRUE
INVARIANTS
  TypeOK
  LateFramesBounded
PROPERTIES
  OnlyRegisteredSampled
  RegisteredSampled
