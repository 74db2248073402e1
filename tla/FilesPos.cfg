SPECIFICATION Spec
CONSTANTS
  Disks <- AllDisks
  Extension <- Extensions
  Letters <- SomeLetters
  MaxMoves = 2
  MaxGhosts = 2
  NoFile = NoFile
  Undefined = Undefined
INVARIANTS PosAsDocumented
