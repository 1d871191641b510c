SPECIFICATION FairSpec
CONSTANTS
  a = a
  b = b
  Bytes = {a, b}
  VIN_SIZE = 2
  FACTORY <- MCFactory
  Payloads <- MCPayloads
  VinDid = vin
  OtherDids = {dyn}
  Slices <- MCSlices
  Junk = Junk
  Absent = Absent
  None = None
  HasNvs = TRUE
INVARIANTS
  TypeOK
  VinDurable
  DynamicReadsCurrent
  ResetAnnounced
PROPERTIES
  AnsweredOnce
  ResetHappens
  VinIsRegister
