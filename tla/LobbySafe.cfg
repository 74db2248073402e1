CONSTANTS
  c1 = c1
  c2 = c2
  c3 = c3
  NoClient = NoClient
  Clients <- MCClients
  Slots <- MCSlots
  Levels = 2
  MayVanish <- MCVanish
  HostMayFail = TRUE
SPECIFICATION Spec
SYMMETRY MCSymmetry
CHECK_DEADLOCK FALSE
INVARIANTS
  TypeOK
  PermitBalance
  NoEarlyExit
  NobodyForgotten
  OrderlyExit
PROPERTY
  KeepsItsPromise
