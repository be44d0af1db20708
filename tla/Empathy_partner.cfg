SPECIFICATION Spec
CONSTANTS
  NumPlayers = 2
  HandSize = 2
  Us = 0
  Ids <- TwoSuits
  CardCount <- TwoSuitsCount
  Clues <- RankAndColour
  MaxMoves = 2
CHECK_DEADLOCK FALSE
INVARIANTS
  PartnerTruthStaysPossible
