SPECIFICATION Spec
CONSTANTS
  Tables = {t1}
  t1 = t1
  MaxTurns = 4
  MaxDrops = 1
  MaxAway = 0
  Replays = TRUE
  Throws = TRUE
  ResumeAtReattend = FALSE
  disconnect_on_game_end = FALSE
INVARIANTS
  OneDecisionPerTurn
