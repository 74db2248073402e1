--------------------------- MODULE SessionProofs ---------------------------
(***************************************************************************)
(* Proofs about module Session, for any number of levels and any capacity  *)
(* of the pipes: the type invariant, and that a victory is only announced  *)
(* when it is true.                                                        *)
(***************************************************************************)
EXTENDS Session, TLAPS

\* A victory announced or about to be.
Announced ==
  won \/ shot.victory \/ got.victory \/ \E i \in DOMAIN notif : notif[i].victory

\* From the moment the pacman has won there is no more play and no more level.
WonForGood ==
  Announced => /\ level = Levels /\ result = "next"
               /\ pt \in {"none", "over"}
               /\ gt \in {"joinPacman", "joinServer", "disconnect", "over"}

\* The pacman only plays while game_thread waits for it.
PlaysInTime == pt \in {"look", "read", "act", "moving"} => gt = "joinPacman"

\* There is room for the farewell.
RoomForBye == main # "over" => Len(req) <= ReqCap

IInv == TypeOK /\ RoomForBye /\ PlaysInTime /\ WonForGood

USE DEF vars, clientVars, serverVars, mainVars, recvVars, gameVars, pacVars, servVars

----------------------------------------------------------------------------
(* Types. *)

LEMMA TypeInit == Init => TypeOK /\ RoomForBye
<1> SUFFICES ASSUME Init PROVE TypeOK /\ RoomForBye
  OBVIOUS
<1>1. /\ timed \in BOOLEAN /\ ready \in BOOLEAN /\ stop \in BOOLEAN /\ sigint \in BOOLEAN
      /\ clientOpen \in BOOLEAN /\ serverOpen \in BOOLEAN /\ active \in BOOLEAN
      /\ alive \in BOOLEAN /\ won \in BOOLEAN /\ shutdown \in BOOLEAN
  BY Zenon DEF Init
<1>2. got \in Updates /\ shot \in Updates
  BY DEF Init, Updates, NoUpdate
<1>3. /\ req = <<>> /\ notif = <<>> /\ level = 1 /\ main = "openNotif" /\ recv = "none"
      /\ gt = "look" /\ pt = "none" /\ st = "none" /\ cmd = "move" /\ result = "none"
      /\ input \in {"player", "file", "emptyFile"}
  BY Zenon DEF Init
<1> QED
  BY <1>1, <1>2, <1>3, SessionAssumption DEF TypeOK, RoomForBye, Connecting

\* What a client that is gone leaves behind.
LEMMA GoneTypes ==
  ClientIsGone => /\ main' = "over" /\ recv' = "over" /\ got' \in Updates
                  /\ ready' \in BOOLEAN /\ stop' \in BOOLEAN
                  /\ sigint' \in BOOLEAN /\ clientOpen' \in BOOLEAN
<1>1. NoUpdate \in Updates
  BY DEF NoUpdate, Updates
<1> QED
  BY <1>1, Zenon DEF ClientIsGone

LEMMA TypeHandshake ==
  TypeOK /\ RoomForBye /\ (HandshakeRuns \/ ConnectIsInterrupted) => TypeOK' /\ RoomForBye'
<1> SUFFICES ASSUME TypeOK, RoomForBye, HandshakeRuns \/ ConnectIsInterrupted
             PROVE  TypeOK' /\ RoomForBye'
  OBVIOUS
<1> USE DEF TypeOK, RoomForBye, Connecting
<1>1. CASE GameLooksAtShutdown
  BY <1>1 DEF GameLooksAtShutdown
<1>2. CASE NotifPipeOpens
  BY <1>2 DEF NotifPipeOpens, MainOpens
<1>3. CASE GameWelcomes
  BY <1>3 DEF GameWelcomes
<1>4. CASE GameRefuses
  <2>1. serverOpen' \in BOOLEAN
    BY <1>4, Zenon DEF GameRefuses
  <2> QED
    BY <1>4, <2>1 DEF GameRefuses
<1>5. CASE MainIsWelcome
  BY <1>5 DEF MainIsWelcome
<1>6. CASE MainIsRefused
  BY <1>6, GoneTypes DEF MainIsRefused
<1>7. CASE ReqPipeOpens
  BY <1>7 DEF ReqPipeOpens, MainOpens
<1>8. CASE ConnectIsInterrupted
  BY <1>8, GoneTypes DEF ConnectIsInterrupted
<1> QED
  BY <1>1, <1>2, <1>3, <1>4, <1>5, <1>6, <1>7, <1>8 DEF HandshakeRuns

LEMMA TypeClient ==
  TypeOK /\ RoomForBye /\ (MainRuns \/ ReceiverRuns \/ handle_SIGINT \/ ClientDies)
    => TypeOK' /\ RoomForBye'
<1> SUFFICES ASSUME TypeOK, RoomForBye,
                    MainRuns \/ ReceiverRuns \/ handle_SIGINT \/ ClientDies
             PROVE  TypeOK' /\ RoomForBye'
  OBVIOUS
<1> USE SessionAssumption DEF TypeOK, RoomForBye, Connecting
<1>1. CASE MainWakes
  BY <1>1 DEF MainWakes
<1>2. CASE MainGetsInput
  BY <1>2 DEF MainGetsInput
<1>3. CASE MainSends
  <2>1. CASE serverOpen /\ Len(req) < ReqCap
    <3>1. PICK c \in {"Q", "move"} : req' = Append(req, c)
      BY <1>3, <2>1, Zenon DEF MainSends
    <3>2. req' \in Seq({"Q", "move", "bye"}) /\ Len(req') = Len(req) + 1
      BY <3>1
    <3>3. Len(req') <= ReqCap
      BY <3>2, <2>1
    <3> QED
      BY <1>3, <3>2, <3>3 DEF MainSends
  <2>2. CASE ~(serverOpen /\ Len(req) < ReqCap)
    <3>1. req' = req
      BY <1>3, <2>2, Zenon DEF MainSends
    <3> QED
      BY <1>3, <3>1 DEF MainSends
  <2> QED
    BY <2>1, <2>2
<1>4. CASE MainJoins
  BY <1>4 DEF MainJoins
<1>5. CASE MainDisconnects
  BY <1>5, GoneTypes DEF MainDisconnects
<1>6. CASE ReceiverReads
  BY <1>6 DEF ReceiverReads
<1>7. CASE ReceiverStops
  BY <1>7 DEF ReceiverStops, Updates, NoUpdate
<1>8. CASE ReceiverDraws
  BY <1>8 DEF ReceiverDraws, Updates, NoUpdate
<1>9. CASE handle_SIGINT
  BY <1>9 DEF handle_SIGINT
<1>10. CASE ClientDies
  BY <1>10, GoneTypes DEF ClientDies
<1> QED
  BY <1>1, <1>2, <1>3, <1>4, <1>5, <1>6, <1>7, <1>8, <1>9, <1>10 DEF MainRuns, ReceiverRuns

LEMMA TypeServer ==
  TypeOK /\ RoomForBye /\ (GameRuns \/ ServerRuns \/ handle_shutdown)
    => TypeOK' /\ RoomForBye'
<1> SUFFICES ASSUME TypeOK, RoomForBye, GameRuns \/ ServerRuns \/ handle_shutdown
             PROVE  TypeOK' /\ RoomForBye'
  OBVIOUS
<1> USE SessionAssumption DEF TypeOK, RoomForBye
<1>1. CASE GameStarts
  <2>1. active' \in BOOLEAN /\ alive' \in BOOLEAN /\ won' \in BOOLEAN
    BY <1>1, Zenon DEF GameStarts
  <2> QED
    BY <1>1, <2>1 DEF GameStarts
<1>2. CASE GameDeactivates
  <2>1. active' \in BOOLEAN
    BY <1>2, Zenon DEF GameDeactivates
  <2> QED
    BY <1>2, <2>1 DEF GameDeactivates
<1>3. CASE GameJoinsServer
  BY <1>3 DEF GameJoinsServer
<1>4. CASE GameDisconnects
  <2>1. serverOpen' \in BOOLEAN
    BY <1>4, Zenon DEF GameDisconnects
  <2> QED
    BY <1>4, <2>1 DEF GameDisconnects
<1>5. CASE ServerLooksAtShutdown
  BY <1>5 DEF ServerLooksAtShutdown
<1>6. CASE ServerTakesSnapshot
  BY <1>6 DEF ServerTakesSnapshot, Updates
<1>7. CASE ServerWrites
  <2>1. shot' \in Updates
    BY <1>7 DEF ServerWrites, Updates, NoUpdate
  <2>2. CASE Len(notif) < NotifCap /\ notif' = Append(notif, shot)
    <3>1. notif' \in Seq(Updates) /\ Len(notif') = Len(notif) + 1
      BY <2>2
    <3> QED
      BY <1>7, <2>1, <2>2, <3>1 DEF ServerWrites
  <2>3. CASE notif' = notif
    BY <1>7, <2>1, <2>3 DEF ServerWrites
  <2> QED
    BY <1>7, <2>2, <2>3, Zenon DEF ServerWrites
<1>8. CASE ServerLooksAtActive
  BY <1>8 DEF ServerLooksAtActive
<1>9. CASE handle_shutdown
  BY <1>9 DEF handle_shutdown
<1> QED
  BY <1>1, <1>2, <1>3, <1>4, <1>5, <1>6, <1>7, <1>8, <1>9 DEF GameRuns, ServerRuns

LEMMA TypePacman ==
  TypeOK /\ RoomForBye /\ (PacmanRuns \/ GhostKills) => TypeOK' /\ RoomForBye'
<1> SUFFICES ASSUME TypeOK, RoomForBye, PacmanRuns \/ GhostKills
             PROVE  TypeOK' /\ RoomForBye'
  OBVIOUS
<1> USE DEF TypeOK, RoomForBye, PacmanEnds
<1>1. CASE PacmanLooks
  BY <1>1 DEF PacmanLooks
<1>2. CASE PacmanReads
  BY <1>2, SessionAssumption DEF PacmanReads
<1>3. CASE PacmanQuits
  <2>1. alive' \in BOOLEAN
    BY <1>3, Zenon DEF PacmanQuits
  <2> QED
    BY <1>3, <2>1 DEF PacmanQuits
<1>4. CASE PacmanMoves
  BY <1>4 DEF PacmanMoves
<1>5. CASE PacmanGoesOn
  BY <1>5 DEF PacmanGoesOn
<1>6. CASE PacmanMeetsGhost
  <2>1. /\ alive' \in BOOLEAN /\ pt' = "over" /\ result' = "quit"
        /\ UNCHANGED <<clientVars, req, notif, gameVars, cmd, won, servVars, serverOpen, shutdown>>
    BY <1>6, Zenon DEF PacmanMeetsGhost
  <2> HIDE <1>6
  <2> QED
    BY <2>1
<1>7. CASE PacmanEntersPortal
  BY <1>7 DEF PacmanEntersPortal
<1>8. CASE GhostKills
  <2>1. alive' \in BOOLEAN
    BY <1>8, Zenon DEF GhostKills
  <2> QED
    BY <1>8, <2>1 DEF GhostKills
<1> QED
  BY <1>1, <1>2, <1>3, <1>4, <1>5, <1>6, <1>7, <1>8 DEF PacmanRuns

LEMMA TypeStep == TypeOK /\ RoomForBye /\ [Next]_vars => TypeOK' /\ RoomForBye'
<1>1. TypeOK /\ RoomForBye /\ UNCHANGED vars => TypeOK' /\ RoomForBye'
  BY DEF TypeOK, RoomForBye
<1> QED
  BY <1>1, TypeHandshake, TypeClient, TypeServer, TypePacman DEF Next, Over

----------------------------------------------------------------------------
(* A victory is announced only when it is true. *)

\* Only the portal makes a victory: every other step announces what was announced.
LEMMA NothingNewWon ==
  ASSUME TypeOK, Next, ~PacmanEntersPortal, Announced'
  PROVE  Announced
<1> USE DEF Announced
<1>1. CASE UNCHANGED <<won, shot, got, notif>>
  BY <1>1
<1>2. CASE ClientIsGone /\ UNCHANGED <<won, shot, notif>>
  BY <1>2 DEF ClientIsGone, NoUpdate
<1>3. CASE ReceiverReads
  <2>1. won' = won /\ shot' = shot
    BY <1>3 DEF ReceiverReads
  <2>2. CASE notif # <<>> /\ got' = Head(notif) /\ notif' = Tail(notif)
    <3>1. \A i \in DOMAIN notif' : i + 1 \in DOMAIN notif /\ notif'[i] = notif[i + 1]
      BY <2>2 DEF TypeOK
    <3>2. 1 \in DOMAIN notif /\ got' = notif[1]
      BY <2>2 DEF TypeOK
    <3> QED
      BY <2>1, <3>1, <3>2
  <2>3. CASE got' = Eof /\ notif' = notif
    BY <2>1, <2>3 DEF Eof
  <2> QED
    BY <1>3, <2>2, <2>3, Zenon DEF ReceiverReads
<1>4. CASE ReceiverStops \/ ReceiverDraws
  BY <1>4 DEF ReceiverStops, ReceiverDraws, NoUpdate
<1>5. CASE GameStarts
  BY <1>5 DEF GameStarts
<1>6. CASE ServerTakesSnapshot
  BY <1>6 DEF ServerTakesSnapshot
<1>7. CASE ServerWrites
  <2>1. won' = won /\ got' = got /\ ~shot'.victory
    BY <1>7 DEF ServerWrites, NoUpdate
  <2>2. CASE notif' = Append(notif, shot)
    <3>1. \A i \in DOMAIN notif' :
            (i \in DOMAIN notif /\ notif'[i] = notif[i]) \/ notif'[i] = shot
      BY <2>2 DEF TypeOK
    <3> QED
      BY <2>1, <3>1
  <2>3. CASE notif' = notif
    BY <2>1, <2>3
  <2> QED
    BY <1>7, <2>2, <2>3, Zenon DEF ServerWrites
<1>8. Next => \/ UNCHANGED <<won, shot, got, notif>>
              \/ ClientIsGone /\ UNCHANGED <<won, shot, notif>>
              \/ ReceiverReads \/ ReceiverStops \/ ReceiverDraws
              \/ GameStarts \/ ServerTakesSnapshot \/ ServerWrites \/ PacmanEntersPortal
  <2>1. HandshakeRuns \/ ConnectIsInterrupted =>
          \/ UNCHANGED <<won, shot, got, notif>>
          \/ ClientIsGone /\ UNCHANGED <<won, shot, notif>>
    BY Zenon DEF HandshakeRuns, ConnectIsInterrupted, GameLooksAtShutdown, NotifPipeOpens,
                 GameWelcomes, GameRefuses, MainIsWelcome, MainIsRefused, ReqPipeOpens
  <2>2. MainRuns \/ handle_SIGINT \/ ClientDies =>
          \/ UNCHANGED <<won, shot, got, notif>>
          \/ ClientIsGone /\ UNCHANGED <<won, shot, notif>>
    BY Zenon DEF MainRuns, handle_SIGINT, ClientDies, MainWakes, MainGetsInput, MainSends,
                 MainJoins, MainDisconnects
  <2>3. GameRuns \/ handle_shutdown \/ GhostKills =>
          UNCHANGED <<won, shot, got, notif>> \/ GameStarts
    BY Zenon DEF GameRuns, handle_shutdown, GhostKills, GameDeactivates, GameJoinsServer,
                 GameDisconnects
  <2>4. PacmanRuns => UNCHANGED <<won, shot, got, notif>> \/ PacmanEntersPortal
    BY Zenon DEF PacmanRuns, PacmanLooks, PacmanReads, PacmanQuits, PacmanMoves,
                 PacmanGoesOn, PacmanMeetsGhost
  <2>5. ServerRuns =>
          UNCHANGED <<won, shot, got, notif>> \/ ServerTakesSnapshot \/ ServerWrites
    BY Zenon DEF ServerRuns, ServerLooksAtShutdown, ServerLooksAtActive
  <2>6. Over => UNCHANGED <<won, shot, got, notif>>
    BY Zenon DEF Over
  <2> QED
    BY <2>1, <2>2, <2>3, <2>4, <2>5, <2>6, Zenon DEF Next, ReceiverRuns
<1> QED
  BY <1>1, <1>2, <1>3, <1>4, <1>5, <1>6, <1>7, <1>8, Zenon

\* Every step but the start of a level leaves the pacman's play and the wait for
\* it as they are, or ends the play, or sees it ended.
LEMMA PlaysStep == PlaysInTime /\ Next => PlaysInTime'
<1> SUFFICES ASSUME PlaysInTime, Next PROVE PlaysInTime'
  OBVIOUS
<1> USE DEF PlaysInTime
<1>1. CASE HandshakeRuns \/ ConnectIsInterrupted
  BY <1>1, Zenon DEF HandshakeRuns, ConnectIsInterrupted, GameLooksAtShutdown, NotifPipeOpens,
        GameWelcomes, GameRefuses, MainIsWelcome, MainIsRefused, ReqPipeOpens, GameOpens
<1>2. CASE MainRuns \/ handle_SIGINT \/ ClientDies \/ Over
  BY <1>2, Zenon DEF MainRuns, handle_SIGINT, ClientDies, Over, MainWakes, MainGetsInput,
        MainSends, MainJoins, MainDisconnects
<1>3. CASE ReceiverRuns \/ ServerRuns
  BY <1>3, Zenon DEF ReceiverRuns, ServerRuns, ReceiverReads, ReceiverStops, ReceiverDraws,
        ServerLooksAtShutdown, ServerTakesSnapshot, ServerWrites, ServerLooksAtActive
<1>4. CASE GameRuns \/ handle_shutdown
  BY <1>4 DEF GameRuns, handle_shutdown, GameStarts, GameDeactivates, GameJoinsServer,
        GameDisconnects
<1>5. CASE PacmanRuns \/ GhostKills
  BY <1>5 DEF PacmanRuns, GhostKills, PacmanLooks, PacmanReads, PacmanQuits, PacmanMoves,
        PacmanGoesOn, PacmanMeetsGhost, PacmanEntersPortal, PacmanEnds
<1> QED
  BY <1>1, <1>2, <1>3, <1>4, <1>5, Zenon DEF Next

\* What a won session may still do.
Winding ==
  /\ level = Levels /\ result = "next"
  /\ pt \in {"none", "over"}
  /\ gt \in {"joinPacman", "joinServer", "disconnect", "over"}

\* No step leads out of it.
LEMMA WindingStep == TypeOK /\ Winding /\ Next => Winding'
<1> SUFFICES ASSUME TypeOK, Winding, Next PROVE Winding'
  OBVIOUS
<1> USE DEF Winding
<1>1. CASE HandshakeRuns \/ ConnectIsInterrupted
  <2>1. ~(GameLooksAtShutdown \/ NotifPipeOpens \/ GameWelcomes \/ GameRefuses \/ ReqPipeOpens)
    BY DEF GameLooksAtShutdown, NotifPipeOpens, GameWelcomes, GameRefuses, ReqPipeOpens,
           GameOpens
  <2> QED
    BY <1>1, <2>1, Zenon DEF HandshakeRuns, ConnectIsInterrupted, MainIsWelcome, MainIsRefused
<1>2. CASE MainRuns \/ handle_SIGINT \/ ClientDies \/ Over
  BY <1>2, Zenon DEF MainRuns, handle_SIGINT, ClientDies, Over, MainWakes, MainGetsInput,
        MainSends, MainJoins, MainDisconnects
<1>3. CASE ReceiverRuns \/ ServerRuns
  BY <1>3, Zenon DEF ReceiverRuns, ServerRuns, ReceiverReads, ReceiverStops, ReceiverDraws,
        ServerLooksAtShutdown, ServerTakesSnapshot, ServerWrites, ServerLooksAtActive
<1>4. CASE GameRuns \/ handle_shutdown
  BY <1>4, SessionAssumption DEF TypeOK, GameRuns, handle_shutdown, GameStarts,
        GameDeactivates, GameJoinsServer, GameDisconnects
<1>5. CASE PacmanRuns \/ GhostKills
  BY <1>5 DEF PacmanRuns, GhostKills, PacmanLooks, PacmanReads, PacmanQuits, PacmanMoves,
        PacmanGoesOn, PacmanMeetsGhost, PacmanEntersPortal, PacmanEnds
<1> QED
  BY <1>1, <1>2, <1>3, <1>4, <1>5, Zenon DEF Next

LEMMA WonStep == IInv /\ Next => WonForGood'
<1> SUFFICES ASSUME IInv, Next, Announced' PROVE Winding'
  BY DEF WonForGood, Winding
<1>1. CASE PacmanEntersPortal
  <2>1. gt = "joinPacman"
    BY <1>1 DEF IInv, PlaysInTime, PacmanEntersPortal
  <2>2. CASE level = Levels
    BY <1>1, <2>1, <2>2 DEF PacmanEntersPortal, PacmanEnds, Winding
  <2>3. CASE level # Levels
    <3>1. ~won' /\ UNCHANGED <<shot, got, notif>>
      BY <1>1, <2>3 DEF PacmanEntersPortal
    <3>2. Announced
      BY <3>1 DEF Announced
    <3> QED
      BY <2>3, <3>2 DEF IInv, WonForGood
  <2> QED
    BY <2>2, <2>3
<1>2. CASE ~PacmanEntersPortal
  <2>1. Announced
    BY <1>2, NothingNewWon DEF IInv
  <2>2. Winding
    BY <2>1 DEF IInv, WonForGood, Winding
  <2> QED
    BY <2>2, WindingStep DEF IInv
<1> QED
  BY <1>1, <1>2

----------------------------------------------------------------------------
(* The theorems. *)

LEMMA InitIInv == Init => IInv
<1> SUFFICES ASSUME Init PROVE IInv
  OBVIOUS
<1>1. /\ pt = "none" /\ won = FALSE /\ shot = NoUpdate /\ got = NoUpdate /\ notif = <<>>
  BY Zenon DEF Init
<1>2. ~Announced
  BY <1>1 DEF Announced, NoUpdate
<1>3. PlaysInTime
  BY <1>1 DEF PlaysInTime
<1> QED
  BY <1>2, <1>3, TypeInit, Zenon DEF IInv, WonForGood

LEMMA IInvStep == IInv /\ [Next]_vars => IInv'
<1>1. IInv /\ Next => IInv'
  BY TypeStep, PlaysStep, WonStep, Zenon DEF IInv
<1>2. IInv /\ UNCHANGED vars => IInv'
  BY DEF IInv, TypeOK, RoomForBye, PlaysInTime, WonForGood, Announced
<1> QED
  BY <1>1, <1>2

LEMMA Invariance == Spec => []IInv
BY InitIInv, IInvStep, PTL DEF Spec

\* Whatever the two sides do and however the session ends, every variable keeps
\* its type; the notification pipe holds no more than fits in it, and the request
\* pipe has room for the farewell.
THEOREM SessionTypeCorrect == Spec => []TypeOK
<1>1. IInv => TypeOK
  BY DEF IInv
<1> QED
  BY <1>1, Invariance, PTL

\* An update that says victory, wherever it is between the board and the client's
\* screen, tells of the portal of the last level, after which game_thread starts
\* no level (game.c:116-122, 263, 366-377).
THEOREM VictoryStaysTrue == Spec => []VictoryIsTrue
<1>1. IInv => VictoryIsTrue
  BY DEF IInv, WonForGood, Announced, VictoryIsTrue
<1> QED
  BY <1>1, Invariance, PTL
=============================================================================
