SPECIFICATION FairSpec
CONSTANTS
  Tables = {t1}
  t1 = t1
  MaxTurns = 4
  MaxDrops = 1
  MaxAway = 2
  Replays = TRUE
  Throws = FALSE
  ResumeAtReattend = FALSE
  disconnect_on_game_end = TRUE
INVARIANTS
  TypeOK
  DecisionsAreSound
PROPERTIES
  OurTurnTaken
  EndedGameReleased
