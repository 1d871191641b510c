SPECIFICATION FairSpec
CONSTANTS
  Routines = {r1, r2}
  Groups = {g1, g2}
  None = None
INVARIANTS
  TypeOK
  WorkMatchesDebt
  RoutineSupervised
  ClearSupervised
PROPERTIES
  RoutineAnswered
  ClearAnswered
  RoutineServed
  ClearServed
  RunOnceAnswerOnce
