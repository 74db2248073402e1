SPECIFICATION Spec
CONSTANTS
  g1 = g1
  g2 = g2
  Pac = Pac
  NoThread = NoThread
  Width = 3
  Height = 2
  Ghosts = {g1, g2}
  Walls <- SmallWalls
  Portals <- SmallPortals
  Dots <- SmallDots
  Start <- SmallStart
  Passo <- SlowPasso
  Moves <- WaitMoves
  Commands <- RowCommands
  AccPoints = 0
  CanWin = FALSE
CHECK_DEADLOCK FALSE
INVARIANT WaitRestored
