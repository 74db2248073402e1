---------------------------- MODULE LobbyProofs ----------------------------
(***************************************************************************)
(* What the lobby guarantees for every number of clients and game threads. *)
(***************************************************************************)
EXTENDS Lobby, FiniteSetTheorems, SequenceTheorems, TLAPS

----------------------------------------------------------------------------
(* The number of threads at a label. *)

LEMMA SlotsAreFinite ==
  /\ IsFiniteSet(Slots)
  /\ Cardinality(Slots) \in Nat
BY LobbyAssumption, FS_CardinalityType

LEMMA AtIsFinite ==
  ASSUME NEW l
  PROVE  /\ IsFiniteSet(At(l))
         /\ Cardinality(At(l)) \in Nat
<1>1. At(l) \subseteq Slots
  BY DEF At
<1> QED BY <1>1, SlotsAreFinite, FS_Subset, FS_CardinalityType

\* A thread that moves leaves its label and comes to the other one.
LEMMA AtMoves ==
  ASSUME pc \in [Slots -> GameStates], NEW s \in Slots, NEW l, GoTo(s, l), NEW k
  PROVE  /\ k # pc[s] /\ k # l => At(k)' = At(k)
         /\ k # pc[s] /\ k = l => /\ At(k)' = At(k) \cup {s}
                                  /\ Cardinality(At(k)') = Cardinality(At(k)) + 1
         /\ k = pc[s] /\ k # l => /\ At(k)' = At(k) \ {s}
                                  /\ Cardinality(At(k)') = Cardinality(At(k)) - 1
<1>0. pc' = [pc EXCEPT ![s] = l]
  BY DEF GoTo
<1>1. CASE k # pc[s] /\ k # l
  BY <1>0, <1>1 DEF At
<1>2. CASE k # pc[s] /\ k = l
  <2>1. At(k)' = At(k) \cup {s} /\ s \notin At(k)
    BY <1>0, <1>2 DEF At
  <2> QED BY <2>1, <1>2, AtIsFinite, FS_AddElement
<1>3. CASE k = pc[s] /\ k # l
  <2>1. At(k)' = At(k) \ {s} /\ s \in At(k)
    BY <1>0, <1>3 DEF At
  <2> QED BY <2>1, <1>3, AtIsFinite, FS_RemoveElement
<1> QED BY <1>1, <1>2, <1>3

----------------------------------------------------------------------------
(* The inductive invariant. *)

\* Main waits for the host before it posts or joins.
MainFollowsHost ==
  /\ mainPc # "joinHost" => hostPc = "done"
  /\ posted > 0 => mainPc # "joinHost"
  /\ mainPc = "over" => At("exited") = Slots

ActiveIsPlaying == \A s \in active : pc[s] \in {"play", "disconnect", "unregister"}

\* A client that waits has not been lost.
WaitingIsSomewhere ==
  \A c \in Clients :
    client[c] = "waiting" =>
      \/ c \in Range(pipe)
      \/ c = hostReq
      \/ c \in Range(queue)
      \/ \E s \in Slots : req[s] = c

\* A client that is served or was served does not wait.
ServedHasAnswer ==
  \A s \in Slots :
    pc[s] \in {"listen", "register", "play", "disconnect", "unregister"} =>
      client[req[s]] \notin {"idle", "waiting"}

IInv ==
  /\ TypeOK
  /\ PermitBalance
  /\ MainFollowsHost
  /\ NoEarlyExit
  /\ ActiveIsPlaying
  /\ WaitingIsSomewhere
  /\ ServedHasAnswer

----------------------------------------------------------------------------
(* Type correctness. *)

LEMMA TypeInit == Init => TypeOK
<1> SUFFICES ASSUME Init PROVE TypeOK
  OBVIOUS
<1>1. pipe \in Seq(Clients) /\ queue \in Seq(Clients)
  BY EmptySeq DEF Init
<1>2. client \in [Clients -> ClientStates]
  BY DEF Init, ClientStates
<1>3. HostType
  BY LobbyAssumption DEF Init, HostType, HostStates
<1>4. GameThreadType
  <2>1. pc \in [Slots -> GameStates] /\ sess \in [Slots -> {"none", "live", "freed"}]
    BY DEF Init, GameStates
  <2>2. level \in [Slots -> 0 .. Levels - 1] /\ active \subseteq Slots
    BY LobbyAssumption DEF Init
  <2>3. /\ req \in [Slots -> Clients \cup {NoClient}]
        /\ \A s \in Slots : req[s] # NoClient <=> pc[s] \notin {"wait", "pop", "exited"}
    BY DEF Init
  <2> QED BY <2>1, <2>2, <2>3 DEF GameThreadType
<1>5. MainType /\ sem \in Nat
  <2>1. Cardinality(Slots) \in Nat
    BY SlotsAreFinite
  <2>2. posted = 0 /\ sem = 0
    BY DEF Init
  <2>3. posted \in 0 .. Cardinality(Slots) /\ sem \in Nat
    BY <2>1, <2>2
  <2>4. mainPc \in MainStates /\ crashed \in BOOLEAN
    BY DEF Init, MainStates
  <2> QED BY <2>3, <2>4 DEF MainType
<1> QED BY <1>1, <1>2, <1>3, <1>4, <1>5 DEF TypeOK, ClientType, QueueType

USE DEF TypeOK, ClientType, HostType, QueueType, GameThreadType, MainType,
        ClientStates, HostStates, GameStates, MainStates, hostVars, gameVars, mainVars

LEMMA TypeClient ==
  ASSUME TypeOK, NEW c \in Clients, ClientRuns(c) PROVE TypeOK'
<1>1. CASE Registers(c) BY <1>1 DEF Registers
<1>2. CASE Leaves(c) BY <1>2 DEF Leaves
<1>3. CASE Vanishes(c) BY <1>3 DEF Vanishes
<1> QED BY <1>1, <1>2, <1>3 DEF ClientRuns

LEMMA TypeHost ==
  ASSUME TypeOK, HostRuns \/ handle_SIGUSR1 \/ handle_shutdown PROVE TypeOK'
<1>1. CASE HostOpens BY <1>1, LobbyAssumption DEF HostOpens, HostGoesTo
<1>2. CASE HostFails BY <1>2, LobbyAssumption DEF HostFails, HostGoesTo
<1>3. CASE HostLoops BY <1>3, LobbyAssumption DEF HostLoops, HostGoesTo
<1>4. CASE HostMakesLeaderBoard BY <1>4, LobbyAssumption DEF HostMakesLeaderBoard, HostGoesTo
<1>5. CASE HostResets BY <1>5, LobbyAssumption DEF HostResets, HostGoesTo
<1>6. CASE HostReads BY <1>6, LobbyAssumption DEF HostReads, HostGoesTo
<1>7. CASE HostReadFails BY <1>7, LobbyAssumption DEF HostReadFails, HostGoesTo
<1>8. CASE HostEnqueues BY <1>8, LobbyAssumption DEF HostEnqueues, HostGoesTo
<1>9. CASE HostPosts BY <1>9, LobbyAssumption DEF HostPosts, HostGoesTo
<1>10. CASE handle_SIGUSR1 BY <1>10, LobbyAssumption DEF handle_SIGUSR1, HostGoesTo
<1>11. CASE handle_shutdown BY <1>11, LobbyAssumption DEF handle_shutdown
<1> QED BY <1>1, <1>2, <1>3, <1>4, <1>5, <1>6, <1>7, <1>8, <1>9, <1>10, <1>11 DEF HostRuns

LEMMA TypeGame ==
  ASSUME TypeOK, NEW s \in Slots, GameRuns(s) \/ GameOpenFails(s) \/ GamePlays(s) PROVE TypeOK'
<1>1. CASE GameWaits(s) BY <1>1, LobbyAssumption DEF GameWaits, GoTo
<1>2. CASE GamePops(s) BY <1>2, LobbyAssumption DEF GamePops, GoTo
<1>3. CASE GameExits(s) BY <1>3, LobbyAssumption DEF GameExits, GoTo
<1>4. CASE GameLooksAtShutdown(s) BY <1>4, LobbyAssumption DEF GameLooksAtShutdown, GoTo
<1>5. CASE GameRefuses(s) BY <1>5, LobbyAssumption DEF GameRefuses, GoTo
<1>6. CASE GameTurnsAway(s) BY <1>6, LobbyAssumption DEF GameTurnsAway, GoTo
<1>7. CASE GameOpens(s) BY <1>7, LobbyAssumption DEF GameOpens, GoTo
<1>8. CASE GameGreets(s) BY <1>8, LobbyAssumption DEF GameGreets, GoTo
<1>9. CASE GameListens(s) BY <1>9, LobbyAssumption DEF GameListens, GoTo
<1>10. CASE GameRegisters(s) BY <1>10, LobbyAssumption DEF GameRegisters, GoTo
<1>11. CASE GameUnregisters(s) BY <1>11, LobbyAssumption DEF GameUnregisters, GoTo
<1>12. CASE GameAdvances(s)
  <2>1. level' \in [Slots -> 0 .. Levels - 1]
    <3>1. level[s] \in 0 .. Levels - 1 /\ Levels \in Nat
      BY LobbyAssumption
    <3>2. level \in [Slots -> 0 .. Levels - 1]
      OBVIOUS
    <3>3. CASE level[s] + 1 < Levels
      <4>1. level' = [level EXCEPT ![s] = level[s] + 1]
        BY <1>12, <3>1, <3>3 DEF GameAdvances
      <4>2. level[s] + 1 \in 0 .. Levels - 1
        BY <3>1, <3>3
      <4> QED BY <3>2, <4>1, <4>2
    <3>4. CASE level[s] + 1 = Levels
      BY <1>12, <3>1, <3>4 DEF GameAdvances
    <3> QED BY <1>12, <3>3, <3>4 DEF GameAdvances
  <2>2. pc' \in {pc, [pc EXCEPT ![s] = "disconnect"]} /\ pc[s] = "play"
    BY <1>12 DEF GameAdvances, GoTo
  <2>3. UNCHANGED <<client, pipe, hostVars, queue, sem, req, sess, active, mainVars>>
    BY <1>12 DEF GameAdvances
  <2> QED BY <2>1, <2>2, <2>3
<1>13. CASE GameQuits(s) BY <1>13, LobbyAssumption DEF GameQuits, GoTo
<1>14. CASE GameDisconnects(s) BY <1>14, LobbyAssumption DEF GameDisconnects, GoTo
<1>15. CASE GameOpenFails(s) BY <1>15, LobbyAssumption DEF GameOpenFails, GoTo
<1> QED BY <1>1, <1>2, <1>3, <1>4, <1>5, <1>6, <1>7, <1>8, <1>9, <1>10, <1>11, <1>12, <1>13, <1>14, <1>15 DEF GameRuns, GamePlays

LEMMA TypeMain ==
  ASSUME TypeOK, MainRuns PROVE TypeOK'
<1>1. CASE MainJoinsHost BY <1>1, SlotsAreFinite DEF MainJoinsHost
<1>2. CASE MainPosts BY <1>2, SlotsAreFinite DEF MainPosts
<1>3. CASE MainEnds BY <1>3, SlotsAreFinite DEF MainEnds
<1> QED BY <1>1, <1>2, <1>3 DEF MainRuns

LEMMA TypeStep == TypeOK /\ [Next]_vars => TypeOK'
<1> SUFFICES ASSUME TypeOK, [Next]_vars PROVE TypeOK'
  OBVIOUS
<1>1. CASE UNCHANGED vars
  BY <1>1 DEF vars
<1> QED BY <1>1, TypeClient, TypeHost, TypeGame, TypeMain DEF Next, ServerOver

----------------------------------------------------------------------------
(* The permits. *)

LEMMA TypeFacts ==
  ASSUME TypeOK
  PROVE  /\ pipe \in Seq(Clients) /\ queue \in Seq(Clients)
         /\ sem \in Nat /\ posted \in Int
         /\ pc \in [Slots -> GameStates] /\ req \in [Slots -> Clients \cup {NoClient}]
<1>1. posted \in Int
  BY SlotsAreFinite
<1> QED BY <1>1

HIDE DEF TypeOK, ClientType, HostType, QueueType, GameThreadType, MainType,
         ClientStates, HostStates, GameStates, MainStates

LEMMA QueueFacts ==
  ASSUME NEW q \in Seq(Clients)
  PROVE  /\ Len(q) \in Nat
         /\ q = <<>> <=> Len(q) = 0
         /\ \A c \in Clients : Len(Append(q, c)) = Len(q) + 1 /\ Append(q, c) # <<>>
         /\ q # <<>> => Len(Tail(q)) = Len(q) - 1
BY EmptySeq, LenProperties, AppendProperties, HeadTailProperties

\* A step that moves no thread into or out of "pop" and "exited", adds no
\* permit and no request, keeps the balance.
LEMMA BalanceFrame ==
  ASSUME PermitBalance, UNCHANGED <<sem, queue, posted>>,
         hostPc' = "post" <=> hostPc = "post",
         At("pop")' = At("pop"), At("exited")' = At("exited")
  PROVE  PermitBalance'
BY DEF PermitBalance

LEMMA AtStays ==
  ASSUME pc' = pc, NEW l PROVE At(l)' = At(l)
BY DEF At

LEMMA HostReqType ==
  ASSUME TypeOK, HostEnqueues PROVE hostReq \in Clients
BY LobbyAssumption DEF TypeOK, HostType, HostEnqueues

LEMMA BalanceClientHost ==
  ASSUME TypeOK, PermitBalance,
         (\E c \in Clients : ClientRuns(c)) \/ HostRuns \/ handle_SIGUSR1 \/ handle_shutdown
  PROVE  PermitBalance'
<1> USE AtStays
<1>1. CASE \E c \in Clients : ClientRuns(c)
  BY BalanceFrame, <1>1 DEF ClientRuns, Registers, Leaves, Vanishes
<1>2. CASE HostEnqueues
  <2>1. Len(queue') = Len(queue) + 1 /\ hostPc = "enqueue" /\ hostPc' = "post"
    BY <1>2, TypeFacts, HostReqType, QueueFacts DEF HostEnqueues, HostGoesTo
  <2>2. UNCHANGED <<sem, posted, pc>>
    BY <1>2 DEF HostEnqueues
  <2>3. /\ Len(queue) \in Nat /\ sem \in Int /\ posted \in Int
        /\ Cardinality(At("pop")) \in Nat /\ Cardinality(At("exited")) \in Nat
    BY TypeFacts, QueueFacts, AtIsFinite
  <2>4. At("pop")' = At("pop") /\ At("exited")' = At("exited")
    BY <2>2
  <2> QED BY <2>1, <2>2, <2>3, <2>4 DEF PermitBalance
<1>3. CASE HostPosts
  <2>1. sem' = sem + 1 /\ hostPc = "post" /\ hostPc' = "loop"
    BY <1>3 DEF HostPosts, HostGoesTo
  <2>2. UNCHANGED <<queue, posted, pc>>
    BY <1>3 DEF HostPosts
  <2>3. /\ Len(queue) \in Nat /\ sem \in Int /\ posted \in Int
        /\ Cardinality(At("pop")) \in Nat /\ Cardinality(At("exited")) \in Nat
    BY TypeFacts, QueueFacts, AtIsFinite
  <2>4. At("pop")' = At("pop") /\ At("exited")' = At("exited")
    BY <2>2
  <2> QED BY <2>1, <2>2, <2>3, <2>4 DEF PermitBalance
<1>4. CASE HostOpens BY BalanceFrame, <1>4 DEF HostOpens, HostGoesTo
<1>5. CASE HostFails BY BalanceFrame, <1>5 DEF HostFails, HostGoesTo
<1>6. CASE HostLoops BY BalanceFrame, <1>6 DEF HostLoops, HostGoesTo
<1>7. CASE HostMakesLeaderBoard BY BalanceFrame, <1>7 DEF HostMakesLeaderBoard, HostGoesTo
<1>8. CASE HostResets BY BalanceFrame, <1>8 DEF HostResets, HostGoesTo
<1>9. CASE HostReads BY BalanceFrame, <1>9 DEF HostReads, HostGoesTo
<1>10. CASE HostReadFails BY BalanceFrame, <1>10 DEF HostReadFails, HostGoesTo
<1>11. CASE handle_SIGUSR1 BY BalanceFrame, <1>11 DEF handle_SIGUSR1, HostGoesTo
<1>12. CASE handle_shutdown BY BalanceFrame, <1>12 DEF handle_shutdown
<1> QED BY <1>1, <1>2, <1>3, <1>4, <1>5, <1>6, <1>7, <1>8, <1>9, <1>10, <1>11, <1>12 DEF HostRuns

LEMMA BalanceGame ==
  ASSUME TypeOK, PermitBalance, NEW s \in Slots, GameRuns(s) \/ GameOpenFails(s) \/ GamePlays(s)
  PROVE  PermitBalance'
<1>0. /\ pc \in [Slots -> GameStates]
      /\ Len(queue) \in Nat /\ sem \in Int /\ posted \in Int
      /\ Cardinality(At("pop")) \in Nat /\ Cardinality(At("exited")) \in Nat
  BY TypeFacts, QueueFacts, AtIsFinite
<1>1. CASE GameWaits(s)
  <2>1. pc[s] = "wait" /\ GoTo(s, "pop") /\ sem' = sem - 1 /\ UNCHANGED <<hostPc, queue, posted>>
    BY <1>1 DEF GameWaits
  <2>2. Cardinality(At("pop")') = Cardinality(At("pop")) + 1 /\ At("exited")' = At("exited")
    BY <1>0, <2>1, AtMoves
  <2> QED BY <1>0, <2>1, <2>2, SMTT(60) DEF PermitBalance
<1>2. CASE GamePops(s)
  <2>1. pc[s] = "pop" /\ GoTo(s, "popped") /\ UNCHANGED <<hostPc, sem, posted>>
    BY <1>2 DEF GamePops
  <2>2. Cardinality(At("pop")') = Cardinality(At("pop")) - 1 /\ At("exited")' = At("exited")
    BY <1>0, <2>1, AtMoves
  <2>3. Len(queue') = Len(queue) - 1
    BY <1>2, TypeFacts, QueueFacts DEF GamePops
  <2> QED BY <1>0, <2>1, <2>2, <2>3, SMTT(60) DEF PermitBalance
<1>3. CASE GameExits(s)
  <2>1. pc[s] = "pop" /\ GoTo(s, "exited") /\ UNCHANGED <<hostPc, sem, queue, posted>>
    BY <1>3 DEF GameExits
  <2>2. /\ Cardinality(At("pop")') = Cardinality(At("pop")) - 1
        /\ Cardinality(At("exited")') = Cardinality(At("exited")) + 1
    BY <1>0, <2>1, AtMoves
  <2> QED BY <1>0, <2>1, <2>2, SMTT(60) DEF PermitBalance
<1>4. ASSUME NEW l, l \notin {"pop", "exited"}, GoTo(s, l),
             pc[s] \notin {"pop", "exited"}
      PROVE  At("pop")' = At("pop") /\ At("exited")' = At("exited")
  BY <1>0, <1>4, AtMoves
<1>5. CASE GameLooksAtShutdown(s) BY BalanceFrame, <1>5, <1>4 DEF GameLooksAtShutdown
<1>6. CASE GameRefuses(s) BY BalanceFrame, <1>6, <1>4 DEF GameRefuses
<1>7. CASE GameTurnsAway(s) BY BalanceFrame, <1>7, <1>4 DEF GameTurnsAway
<1>8. CASE GameOpens(s) BY BalanceFrame, <1>8, <1>4 DEF GameOpens
<1>9. CASE GameGreets(s) BY BalanceFrame, <1>9, <1>4 DEF GameGreets
<1>10. CASE GameListens(s) BY BalanceFrame, <1>10, <1>4 DEF GameListens
<1>11. CASE GameRegisters(s) BY BalanceFrame, <1>11, <1>4 DEF GameRegisters
<1>12. CASE GameUnregisters(s) BY BalanceFrame, <1>12, <1>4 DEF GameUnregisters
<1>13. CASE GameAdvances(s)
  <2>1. CASE pc' = pc BY BalanceFrame, <1>13, <2>1, AtStays DEF GameAdvances
  <2>2. CASE GoTo(s, "disconnect") BY BalanceFrame, <1>13, <2>2, <1>4 DEF GameAdvances
  <2> QED BY <1>13, <2>1, <2>2 DEF GameAdvances
<1>14. CASE GameQuits(s) BY BalanceFrame, <1>14, <1>4 DEF GameQuits
<1>15. CASE GameDisconnects(s) BY BalanceFrame, <1>15, <1>4 DEF GameDisconnects
<1>16. CASE GameOpenFails(s) BY BalanceFrame, <1>16, <1>4 DEF GameOpenFails
<1> QED BY <1>1, <1>2, <1>3, <1>5, <1>6, <1>7, <1>8, <1>9, <1>10, <1>11, <1>12, <1>13, <1>14, <1>15,
           <1>16 DEF GameRuns, GamePlays

LEMMA BalanceMain ==
  ASSUME TypeOK, PermitBalance, MainRuns
  PROVE  PermitBalance'
<1>0. /\ Len(queue) \in Nat /\ sem \in Int /\ posted \in Int
      /\ Cardinality(At("pop")) \in Nat /\ Cardinality(At("exited")) \in Nat
  BY TypeFacts, QueueFacts, AtIsFinite
<1>1. /\ pc' = pc /\ UNCHANGED <<hostPc, queue>>
      /\ UNCHANGED <<sem, posted>> \/ (sem' = sem + 1 /\ posted' = posted + 1)
  BY DEF MainRuns, MainJoinsHost, MainPosts, MainEnds
<1>2. At("pop")' = At("pop") /\ At("exited")' = At("exited")
  BY <1>1, AtStays
<1>3. CASE UNCHANGED <<sem, posted>>
  BY <1>1, <1>2, <1>3, BalanceFrame
<1>4. CASE sem' = sem + 1 /\ posted' = posted + 1
  BY <1>0, <1>1, <1>2, <1>4 DEF PermitBalance
<1> QED BY <1>1, <1>3, <1>4

----------------------------------------------------------------------------
(* The end of the threads. *)

LEMMA ExitsClientHost ==
  ASSUME MainFollowsHost, NoEarlyExit,
         (\E c \in Clients : ClientRuns(c)) \/ HostRuns \/ handle_SIGUSR1 \/ handle_shutdown
  PROVE  MainFollowsHost' /\ NoEarlyExit'
<1>1. CASE \E c \in Clients : ClientRuns(c)
  BY <1>1, AtStays DEF MainFollowsHost, NoEarlyExit, ClientRuns, Registers, Leaves, Vanishes
<1>2. CASE HostOpens
  BY <1>2, AtStays DEF MainFollowsHost, NoEarlyExit, HostOpens, HostGoesTo
<1>3. CASE HostFails
  BY <1>3, AtStays DEF MainFollowsHost, NoEarlyExit, HostFails, HostGoesTo
<1>4. CASE HostLoops
  BY <1>4, AtStays DEF MainFollowsHost, NoEarlyExit, HostLoops, HostGoesTo
<1>5. CASE HostMakesLeaderBoard
  BY <1>5, AtStays DEF MainFollowsHost, NoEarlyExit, HostMakesLeaderBoard, HostGoesTo
<1>6. CASE HostResets
  BY <1>6, AtStays DEF MainFollowsHost, NoEarlyExit, HostResets, HostGoesTo
<1>7. CASE HostReads
  BY <1>7, AtStays DEF MainFollowsHost, NoEarlyExit, HostReads, HostGoesTo
<1>8. CASE HostReadFails
  BY <1>8, AtStays DEF MainFollowsHost, NoEarlyExit, HostReadFails, HostGoesTo
<1>9. CASE HostEnqueues
  BY <1>9, AtStays DEF MainFollowsHost, NoEarlyExit, HostEnqueues, HostGoesTo
<1>10. CASE HostPosts
  BY <1>10, AtStays DEF MainFollowsHost, NoEarlyExit, HostPosts, HostGoesTo
<1>11. CASE handle_SIGUSR1
  BY <1>11, AtStays DEF MainFollowsHost, NoEarlyExit, handle_SIGUSR1, HostGoesTo
<1>12. CASE handle_shutdown
  BY <1>12, AtStays DEF MainFollowsHost, NoEarlyExit, handle_shutdown
<1> QED BY <1>1, <1>2, <1>3, <1>4, <1>5, <1>6, <1>7, <1>8, <1>9, <1>10, <1>11, <1>12 DEF HostRuns

LEMMA ExitsGame ==
  ASSUME TypeOK, PermitBalance, MainFollowsHost, NoEarlyExit,
         NEW s \in Slots, GameRuns(s) \/ GameOpenFails(s) \/ GamePlays(s)
  PROVE  MainFollowsHost' /\ NoEarlyExit'
<1>0. pc \in [Slots -> GameStates]
  BY TypeFacts
<1>1. pc[s] # "exited" /\ UNCHANGED <<hostPc, mainPc, posted>>
  BY DEF GameRuns, GamePlays, GameWaits, GamePops, GameExits, GameLooksAtShutdown, GameRefuses,
         GameTurnsAway, GameOpens, GameOpenFails, GameGreets, GameListens, GameRegisters, GameUnregisters,
         GameAdvances, GameQuits, GameDisconnects
<1>2. mainPc # "over"
  BY <1>1 DEF MainFollowsHost, At
<1>3. MainFollowsHost'
  BY <1>1, <1>2 DEF MainFollowsHost
<1>4. CASE GameExits(s)
  <2>1. pc[s] = "pop" /\ queue = <<>> /\ queue' = queue
    BY <1>4 DEF GameExits
  <2>2. Cardinality(At("pop")) > 0
    <3>1. s \in At("pop")
      BY <2>1 DEF At
    <3> QED BY <3>1, AtIsFinite, FS_EmptySet
  <2>3. sem \in Nat /\ posted \in Int /\ Len(queue) = 0
    BY <2>1, TypeFacts, QueueFacts
  <2>4. Cardinality(At("pop")) \in Nat /\ Cardinality(At("exited")) \in Nat
    BY AtIsFinite
  <2>5. posted > 0
    BY <2>2, <2>3, <2>4 DEF PermitBalance
  <2>6. hostPc = "done" /\ hostPc' = "done" /\ queue' = <<>> /\ posted' > 0
    BY <1>1, <2>1, <2>5 DEF MainFollowsHost
  <2> QED BY <1>3, <2>6 DEF NoEarlyExit
<1>5. CASE ~GameExits(s)
  <2>1. pc' = pc \/ \E l \in GameStates \ {"exited"} : GoTo(s, l)
    BY <1>5 DEF GameStates, GameRuns, GamePlays, GameWaits, GamePops, GameLooksAtShutdown,
                GameRefuses, GameTurnsAway, GameOpens, GameOpenFails, GameGreets, GameListens,
                GameRegisters, GameUnregisters, GameAdvances, GameQuits, GameDisconnects
  <2>2. At("exited")' = At("exited")
    BY <1>0, <1>1, <2>1, AtStays, AtMoves
  <2>3. queue' = queue \/ queue # <<>>
    BY <1>5 DEF GameRuns, GamePlays, GameWaits, GamePops, GameLooksAtShutdown, GameRefuses,
                GameTurnsAway, GameOpens, GameOpenFails, GameGreets, GameListens, GameRegisters,
                GameUnregisters, GameAdvances, GameQuits, GameDisconnects
  <2> QED BY <1>1, <1>3, <2>2, <2>3 DEF NoEarlyExit
<1> QED BY <1>3, <1>4, <1>5

LEMMA ExitsMain ==
  ASSUME TypeOK, MainFollowsHost, NoEarlyExit, MainRuns
  PROVE  MainFollowsHost' /\ NoEarlyExit'
<1>0. posted \in Int
  BY TypeFacts
<1>1. CASE MainJoinsHost
  BY <1>1, AtStays DEF MainJoinsHost, MainFollowsHost, NoEarlyExit
<1>2. CASE MainPosts
  BY <1>0, <1>2, AtStays DEF MainPosts, MainFollowsHost, NoEarlyExit
<1>3. CASE MainEnds
  <2>1. mainPc = "joinGames" /\ mainPc' = "over" /\ UNCHANGED <<pc, hostPc, queue, posted>>
    BY <1>3 DEF MainEnds, hostVars, gameVars
  <2>2. At("exited") = Slots /\ At("exited")' = At("exited")
    BY <1>3, <2>1, AtStays DEF MainEnds, At
  <2> QED BY <2>1, <2>2 DEF MainFollowsHost, NoEarlyExit
<1> QED BY <1>1, <1>2, <1>3 DEF MainRuns

----------------------------------------------------------------------------
(* Where the clients are. *)

ClientsKnown == ActiveIsPlaying /\ WaitingIsSomewhere /\ ServedHasAnswer

LEMMA RangeAppends ==
  ASSUME NEW q \in Seq(Clients), NEW c \in Clients
  PROVE  Range(Append(q, c)) = Range(q) \cup {c}
BY AppendProperties, LenProperties DEF Range

LEMMA RangeTail ==
  ASSUME NEW q \in Seq(Clients), q # <<>>
  PROVE  Range(q) \subseteq {Head(q)} \cup Range(Tail(q))
<1>1. SUFFICES ASSUME NEW i \in 1 .. Len(q) PROVE q[i] \in {Head(q)} \cup Range(Tail(q))
  BY LenProperties DEF Range
<1>2. /\ Tail(q) \in Seq(Clients) /\ Len(Tail(q)) = Len(q) - 1
      /\ \A j \in 1 .. Len(Tail(q)) : Tail(q)[j] = q[j + 1]
      /\ Len(q) \in Nat
  BY HeadTailProperties, LenProperties
<1>3. CASE i = 1
  BY <1>3
<1>4. CASE i # 1
  <2>1. i - 1 \in 1 .. Len(Tail(q)) /\ Tail(q)[i - 1] = q[i]
    BY <1>2, <1>4
  <2>2. DOMAIN Tail(q) = 1 .. Len(Tail(q))
    BY <1>2, LenProperties
  <2> QED BY <2>1, <2>2 DEF Range
<1> QED BY <1>3, <1>4

LEMMA KnownClient ==
  ASSUME TypeOK, ClientsKnown, NEW c \in Clients, ClientRuns(c)
  PROVE  ClientsKnown'
<1>0. client \in [Clients -> ClientStates]
  BY DEF TypeOK, ClientType
<1>1. CASE Registers(c)
  <2>1. client' = [client EXCEPT ![c] = "waiting"] /\ client[c] = "idle"
    BY <1>1 DEF Registers
  <2>2. Range(pipe') = Range(pipe) \cup {c}
    BY <1>1, TypeFacts, RangeAppends DEF Registers
  <2>3. UNCHANGED <<hostReq, queue, pc, req, active>>
    BY <1>1 DEF Registers
  <2> QED BY <1>0, <2>1, <2>2, <2>3 DEF ClientsKnown, ActiveIsPlaying, WaitingIsSomewhere, ServedHasAnswer
<1>2. CASE Leaves(c) \/ Vanishes(c)
  <2>1. \E l \in {"left", "gone"} : client' = [client EXCEPT ![c] = l]
    BY <1>2 DEF Leaves, Vanishes
  <2>2. UNCHANGED <<pipe, hostReq, queue, pc, req, active>>
    BY <1>2 DEF Leaves, Vanishes
  <2> QED BY <1>0, <2>1, <2>2 DEF ClientsKnown, ActiveIsPlaying, WaitingIsSomewhere, ServedHasAnswer
<1> QED BY <1>1, <1>2 DEF ClientRuns

LEMMA KnownHost ==
  ASSUME TypeOK, ClientsKnown, HostRuns \/ handle_SIGUSR1 \/ handle_shutdown
  PROVE  ClientsKnown'
<1> USE DEF ClientsKnown, ActiveIsPlaying, WaitingIsSomewhere, ServedHasAnswer
<1>0. hostReq \in Clients <=> hostPc = "enqueue"
  BY LobbyAssumption DEF TypeOK, HostType
<1>1. CASE HostReads
  <2>1. UNCHANGED <<client, queue, pc, req, active>> /\ hostReq \notin Clients
    BY <1>0, <1>1 DEF HostReads
  <2>2. Range(pipe) \subseteq {hostReq'} \cup Range(pipe')
    BY <1>1, TypeFacts, RangeTail DEF HostReads
  <2> QED BY <2>1, <2>2
<1>2. CASE HostEnqueues
  <2>1. UNCHANGED <<client, pipe, pc, req, active>>
    BY <1>2 DEF HostEnqueues
  <2>2. Range(queue') = Range(queue) \cup {hostReq}
    BY <1>2, TypeFacts, HostReqType, RangeAppends DEF HostEnqueues
  <2> QED BY <2>1, <2>2
<1>3. CASE ~HostReads /\ ~HostEnqueues
  <2>1. UNCHANGED <<client, pipe, hostReq, queue, pc, req, active>>
    BY <1>3 DEF HostRuns, HostOpens, HostFails, HostLoops, HostMakesLeaderBoard, HostResets,
                HostReadFails, HostPosts, handle_SIGUSR1, handle_shutdown
  <2> QED BY <2>1
<1> QED BY <1>1, <1>2, <1>3

LEMMA KnownGame ==
  ASSUME TypeOK, ClientsKnown, NEW s \in Slots, GameRuns(s) \/ GameOpenFails(s) \/ GamePlays(s)
  PROVE  ClientsKnown'
<1> USE DEF ClientsKnown, ActiveIsPlaying, WaitingIsSomewhere, ServedHasAnswer
<1>0. /\ client \in [Clients -> ClientStates]
      /\ pc \in [Slots -> GameStates] /\ req \in [Slots -> Clients \cup {NoClient}]
      /\ \A t \in Slots : req[t] \in Clients <=> pc[t] \notin {"wait", "pop", "exited"}
      /\ NoClient \notin Clients /\ active \subseteq Slots
  BY LobbyAssumption DEF TypeOK, ClientType, GameThreadType
<1>1. CASE GamePops(s)
  <2>1. /\ UNCHANGED <<client, pipe, hostReq, active>>
        /\ pc[s] = "pop" /\ pc' = [pc EXCEPT ![s] = "popped"]
        /\ req' = [req EXCEPT ![s] = Head(queue)]
    BY <1>1 DEF GamePops, GoTo
  <2>2. Range(queue) \subseteq {req'[s]} \cup Range(queue')
    BY <1>0, <1>1, <2>1, TypeFacts, RangeTail DEF GamePops
  <2>3. ActiveIsPlaying' /\ ServedHasAnswer'
    BY <1>0, <2>1
  <2>4. WaitingIsSomewhere'
    BY <1>0, <2>1, <2>2
  <2> QED BY <2>3, <2>4
<1>2. CASE GameTurnsAway(s)
  <2>1. /\ UNCHANGED <<pipe, hostReq, queue, active>>
        /\ pc[s] = "turnAway" /\ pc' = [pc EXCEPT ![s] = "wait"]
        /\ req' = [req EXCEPT ![s] = NoClient]
    BY <1>2 DEF GameTurnsAway, GoTo
  <2>2. req[s] \in Clients
    BY <1>0, <2>1
  <2>3. /\ client'[req[s]] \in {"refused", "gone"}
        /\ \A c \in Clients : c # req[s] => client'[c] = client[c]
    BY <1>0, <1>2, <2>2 DEF GameTurnsAway
  <2>4. ActiveIsPlaying' /\ ServedHasAnswer'
    BY <1>0, <2>1, <2>2, <2>3
  <2>5. WaitingIsSomewhere'
    BY <1>0, <2>1, <2>2, <2>3
  <2> QED BY <2>4, <2>5
<1>3. CASE GameGreets(s) \/ GameListens(s)
  <2>1. /\ UNCHANGED <<pipe, hostReq, queue, req, active>>
        /\ pc[s] \in {"greet", "listen"} /\ \E l \in {"listen", "register"} : pc' = [pc EXCEPT ![s] = l]
    BY <1>3 DEF GameGreets, GameListens, GoTo
  <2>2. req[s] \in Clients
    BY <1>0, <2>1
  <2>3. /\ client'[req[s]] \in {"greeted", "gone", "playing"}
        /\ \A c \in Clients : c # req[s] => client'[c] = client[c]
    BY <1>0, <1>3, <2>2 DEF GameGreets, GameListens
  <2>4. ActiveIsPlaying' /\ ServedHasAnswer'
    BY <1>0, <2>1, <2>2, <2>3
  <2>5. WaitingIsSomewhere'
    BY <1>0, <2>1, <2>2, <2>3
  <2> QED BY <2>4, <2>5
<1>4. CASE GameUnregisters(s)
  <2>1. /\ UNCHANGED <<client, pipe, hostReq, queue>>
        /\ pc[s] = "unregister" /\ pc' = [pc EXCEPT ![s] = "wait"]
        /\ req' = [req EXCEPT ![s] = NoClient] /\ active' = active \ {s}
    BY <1>4 DEF GameUnregisters, GoTo
  <2>2. req[s] \in Clients /\ client[req[s]] # "waiting"
    BY <1>0, <2>1
  <2>3. ActiveIsPlaying' /\ ServedHasAnswer'
    BY <1>0, <2>1
  <2>4. WaitingIsSomewhere'
    BY <1>0, <2>1, <2>2
  <2> QED BY <2>3, <2>4
<1>5. CASE GameRegisters(s)
  <2>1. /\ UNCHANGED <<client, pipe, hostReq, queue, req>>
        /\ pc[s] = "register" /\ pc' = [pc EXCEPT ![s] = "play"] /\ active' = active \cup {s}
    BY <1>5 DEF GameRegisters, GoTo
  <2> QED BY <1>0, <2>1
<1>6. CASE GameAdvances(s) \/ GameQuits(s) \/ GameDisconnects(s)
  <2>1. /\ UNCHANGED <<client, pipe, hostReq, queue, req, active>>
        /\ pc[s] \in {"play", "disconnect"}
        /\ pc' = pc \/ \E l \in {"disconnect", "unregister"} : pc' = [pc EXCEPT ![s] = l]
    BY <1>6 DEF GameAdvances, GameQuits, GameDisconnects, GoTo
  <2> QED BY <1>0, <2>1
<1>7. CASE GameWaits(s) \/ GameExits(s) \/ GameLooksAtShutdown(s) \/ GameRefuses(s) \/ GameOpens(s)
  <2>1. /\ UNCHANGED <<client, pipe, hostReq, queue, req, active>>
        /\ pc[s] \in {"wait", "pop", "popped", "refuse", "open"}
        /\ \E l \in {"pop", "exited", "refuse", "turnAway", "open", "greet"} : pc' = [pc EXCEPT ![s] = l]
    BY <1>7 DEF GameWaits, GameExits, GameLooksAtShutdown, GameRefuses, GameOpens, GoTo
  <2> QED BY <1>0, <2>1
<1>8. CASE GameOpenFails(s)
  <2>1. /\ UNCHANGED <<client, pipe, hostReq, queue, req, active>>
        /\ req[s] \in Clients /\ client[req[s]] = "gone" /\ pc[s] \in {"open", "refuse"}
        /\ \E l \in {"register", "turnAway"} : pc' = [pc EXCEPT ![s] = l]
    BY <1>0, <1>8 DEF GameOpenFails, GoTo
  <2> QED BY <1>0, <2>1
<1> QED BY <1>1, <1>2, <1>3, <1>4, <1>5, <1>6, <1>7, <1>8 DEF GameRuns, GamePlays

LEMMA KnownMain ==
  ASSUME ClientsKnown, MainRuns PROVE ClientsKnown'
<1>1. UNCHANGED <<client, pipe, hostReq, queue, pc, req, active>>
  BY DEF MainRuns, MainJoinsHost, MainPosts, MainEnds
<1> QED BY <1>1 DEF ClientsKnown, ActiveIsPlaying, WaitingIsSomewhere, ServedHasAnswer

----------------------------------------------------------------------------
(* The theorems. *)

LEMMA InvInit == Init => IInv
<1> SUFFICES ASSUME Init PROVE IInv
  OBVIOUS
<1>1. TypeOK
  BY TypeInit
<1>2. At("pop") = {} /\ At("exited") = {}
  BY DEF Init, At
<1>3. PermitBalance
  <2>1. sem = 0 /\ posted = 0 /\ queue = <<>> /\ hostPc = "start"
    BY DEF Init
  <2>2. Len(queue) = 0
    BY <2>1, EmptySeq
  <2>3. Cardinality(At("pop")) = 0 /\ Cardinality(At("exited")) = 0
    BY <1>2, FS_EmptySet
  <2> QED BY <2>1, <2>2, <2>3 DEF PermitBalance
<1>4. MainFollowsHost /\ NoEarlyExit
  BY <1>2 DEF Init, MainFollowsHost, NoEarlyExit
<1>5. ActiveIsPlaying /\ WaitingIsSomewhere /\ ServedHasAnswer
  BY DEF Init, ActiveIsPlaying, WaitingIsSomewhere, ServedHasAnswer
<1> QED BY <1>1, <1>3, <1>4, <1>5 DEF IInv

LEMMA InvStep == IInv /\ [Next]_vars => IInv'
<1> SUFFICES ASSUME IInv, [Next]_vars PROVE IInv'
  OBVIOUS
<1> USE DEF IInv, ClientsKnown
<1>1. TypeOK'
  BY TypeStep
<1>2. CASE (\E c \in Clients : ClientRuns(c)) \/ HostRuns \/ handle_SIGUSR1 \/ handle_shutdown
  BY <1>1, <1>2, BalanceClientHost, ExitsClientHost, KnownClient, KnownHost
<1>3. CASE \E s \in Slots : GameRuns(s) \/ GameOpenFails(s) \/ GamePlays(s)
  BY <1>1, <1>3, BalanceGame, ExitsGame, KnownGame
<1>4. CASE MainRuns
  BY <1>1, <1>4, BalanceMain, ExitsMain, KnownMain
<1>5. CASE UNCHANGED vars
  BY <1>1, <1>5 DEF vars, PermitBalance, MainFollowsHost, NoEarlyExit, At, ActiveIsPlaying,
                    WaitingIsSomewhere, ServedHasAnswer
<1> QED BY <1>2, <1>3, <1>4, <1>5 DEF Next, ServerOver

LEMMA InvAlways == Spec => []IInv
<1>1. Init => IInv
  BY InvInit
<1>2. IInv /\ [Next]_vars => IInv'
  BY InvStep
<1> QED BY <1>1, <1>2, PTL DEF Spec

\* The variables keep their types; a game thread never indexes a level that
\* handle_files did not find (game.c:376-384).
THEOREM LobbyTypeCorrect == Spec => []TypeOK
<1>1. IInv => TypeOK
  BY DEF IInv
<1> QED BY <1>1, InvAlways, PTL

\* The permits of sem_games and the queue stay in step, whatever the number of
\* game threads and of clients (game.c:333-339, 546-553, 651-655).
THEOREM PermitsStayBalanced == Spec => []PermitBalance
<1>1. IInv => PermitBalance
  BY DEF IInv
<1> QED BY <1>1, InvAlways, PTL

\* No game thread ends while a request is queued or may still be (game.c:336-339).
THEOREM NoThreadExitsEarly == Spec => []NoEarlyExit
<1>1. IInv => NoEarlyExit
  BY DEF IInv
<1> QED BY <1>1, InvAlways, PTL

\* With at least one game thread, main leaves no thread, request or permit
\* behind: only clients whose request nobody read still wait (game.c:649-675).
THEOREM ExitIsOrderly ==
  ASSUME Slots # {} PROVE Spec => []OrderlyExit
<1>1. ASSUME IInv, mainPc = "over" PROVE OrderlyExit
  <2>1. At("exited") = Slots /\ hostPc = "done" /\ queue = <<>>
    BY <1>1 DEF IInv, MainFollowsHost, NoEarlyExit
  <2>2. \A s \in Slots : pc[s] = "exited"
    BY <2>1 DEF At
  <2>3. /\ sem \in Nat /\ posted \in 0 .. Cardinality(Slots)
        /\ active \subseteq Slots /\ hostReq = NoClient /\ NoClient \notin Clients
        /\ \A s \in Slots : req[s] = NoClient
    BY <1>1, <2>1, <2>2, LobbyAssumption
       DEF IInv, TypeOK, HostType, QueueType, GameThreadType, MainType
  <2>4. active = {}
    BY <1>1, <2>2, <2>3 DEF IInv, ActiveIsPlaying
  <2>5. sem = 0
    <3>1. At("pop") = {} /\ Cardinality(At("pop")) = 0
      BY <2>2, FS_EmptySet DEF At
    <3>2. Len(queue) = 0 /\ Cardinality(Slots) \in Nat
      BY <2>1, EmptySeq, SlotsAreFinite
    <3>3. PermitBalance
      BY <1>1 DEF IInv
    <3>4. sem + 0 + 0 = 0 + posted - Cardinality(Slots)
      BY <2>1, <3>1, <3>2, <3>3 DEF PermitBalance
    <3> QED BY <2>3, <3>2, <3>4
  <2>6. ASSUME NEW c \in Clients, client[c] = "waiting" PROVE c \in Range(pipe)
    <3>1. Range(queue) = {}
      BY <2>1 DEF Range
    <3> QED BY <1>1, <2>3, <2>6, <3>1 DEF IInv, WaitingIsSomewhere
  <2> QED BY <2>1, <2>4, <2>5, <2>6 DEF OrderlyExit
<1>2. IInv => OrderlyExit
  BY <1>1 DEF OrderlyExit
<1> QED BY <1>2, InvAlways, PTL

=============================================================================
