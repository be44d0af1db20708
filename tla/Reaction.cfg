CONSTANTS
  a = a
  b = b
  Suits <- MCSuits
  Top = 3
  CardCount <- MCCardCount
  HandSize = 3
  Positions <- MCPositions
  Drawn <- MCDrawn
SPECIFICATION Spec
INVARIANTS
  OneReading
  MeantIsCalled
CHECK_DEADLOCK FALSE
