SPECIFICATION Spec
CONSTANTS
  norm = norm
  rev = rev
  inv = inv
  both = both
  Suits = {norm, both}
  Reversed = {both}
  Inverted = {both}
  Top = 3
  CardCount <- MCCardCount
  NumPlayers = 2
  HandSize = 1
  MaxTokens = 1
  ClueStarved = TRUE
  DeckPlays = TRUE
INVARIANTS
  TypeOK
  MaxRanksReachable
  CachesExact
  CardsConserved
PROPERTIES
  FollowsRules
