SPECIFICATION Spec
CONSTANTS
  Routines = {r1, r2}
  Groups = {g1, g2}
  None = None
PROPERTIES
  ConfirmedOnlyIfCleared
