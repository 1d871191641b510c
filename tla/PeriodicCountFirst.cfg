SPECIFICATION Spec
CONSTANTS
  Dids = {d1, d2}
  NoDid = NoDid
  Slots = 3
  StoreFirst = FALSE
PROPERTIES
  OnlyRegisteredSampled
