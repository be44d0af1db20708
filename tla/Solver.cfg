SPECIFICATION SolverSpec
CONSTANTS
  norm = norm
  inv = inv
  Suits = {norm, inv}
  Reversed = {}
  Inverted = {inv}
  Top = 4
  CardCount <- MCCardCount
  NumPlayers = 2
  HandSize = 2
  MaxTokens = 8
  ClueStarved = FALSE
  DeckPlays = FALSE
  HandKinds <- MCKinds
  Lefts = {1, 2}
  Tokens = {1}
  Endings <- MCEndings
  Told <- MCTold
INVARIANTS
  NoHallucinatedWin
  BestOfAllDeals
