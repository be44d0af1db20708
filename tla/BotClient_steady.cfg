SPECIFICATION Spec
CONSTANTS
  Tables = {t1, t2}
  t1 = t1
  t2 = t2
  MaxTurns = 2
  MaxDrops = 0
  MaxAway = 2
  Replays = TRUE
  Throws = TRUE
  ResumeAtReattend = FALSE
  disconnect_on_game_end = FALSE
INVARIANTS
  OneDecisionPerTurn
  TurnWaitsForDecision
