SPECIFICATION Spec
CONSTANTS
  Image = 3
  MaxPayload = 2
  Bases <- MCBases
  Word = 5
  BlockMod = 2
  Disciplined = FALSE
PROPERTIES
  IngestOnlyCleared
