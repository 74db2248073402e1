SPECIFICATION FramesSpec
CONSTANTS
  g1 = g1
  Pac = Pac
  NoThread = NoThread
  Width = 2
  Height = 2
  Ghosts = {g1}
  Walls <- CornerWalls
  Portals = {}
  Dots <- CornerDots
  Start <- CornerStart
  Passo <- SlowGhost
  Moves <- ChargeMoves
  Commands = {"A", "Q"}
  AccPoints = 0
  CanWin = TRUE
CHECK_DEADLOCK FALSE
INVARIANTS FramesTypeOK NoDotCountedTwice WallsStand FreshLook PointsConserved
PROPERTY LevelEndsWithServer
