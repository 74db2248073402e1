SPECIFICATION Spec
CONSTANTS
  g1 = g1
  g2 = g2
  Pac = Pac
  NoThread = NoThread
  Width = 3
  Height = 2
  Ghosts = {g1, g2}
  Walls <- SmallWalls
  Portals <- SmallPortals
  Dots <- SmallDots
  Start <- SmallStart
  Passo <- MixedPasso
  Moves <- MixedMoves
  Commands <- AllCommands
  AccPoints = 0
  CanWin = TRUE
INVARIANTS TypeOK FreshLook BoardConsistent NobodyWaitsInACircle PointsConserved
PROPERTIES DeathIsFinal PortalIsSafe LevelEnds ShutdownStopsGhosts PlaysByTheRules
