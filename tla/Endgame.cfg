SPECIFICATION EndSpec
CONSTANTS
  norm = norm
  inv = inv
  Suits = {norm, inv}
  Reversed = {}
  Inverted = {inv}
  Top = 4
  CardCount <- MCCardCount
  NumPlayers = 3
  HandSize = 2
  Nulls = {norm}
  MaxTokens = 8
  ClueStarved = FALSE
  DeckPlays = FALSE
  HandKinds <- MCKinds
  DeckKinds = {1, 3}
  Lefts = {1, 2}
  Tokens = {1}
  Stacks <- MCStacks
  Endings <- MCEndings
INVARIANTS
  GivenUpIsLost
  ImaginedIsReal
  PromiseKept
  TrivialWinIsWin
  ForcedKeepsTheWin
