CONSTANTS
  c1 = c1
  c2 = c2
  c3 = c3
  NoClient = NoClient
  Clients <- MCClients
  Slots <- MCSlots
  Levels = 1
  MayVanish <- MCNobody
  HostMayFail = FALSE
SPECIFICATION Spec
PROPERTY LeaderBoardReadsLiveSessions
