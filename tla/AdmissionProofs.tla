-------------------------- MODULE AdmissionProofs --------------------------
(***************************************************************************)
(* The lobby implements Admission for every number of clients and of game  *)
(* threads, and a client that waits is in exactly one place.               *)
(***************************************************************************)
EXTENDS LobbyProofs

USE DEF hostVars, gameVars, mainVars

----------------------------------------------------------------------------
(* Sequences without repetition. *)

Distinct(q) == \A i, j \in DOMAIN q : q[i] = q[j] => i = j

LEMMA DistinctAppends ==
  ASSUME NEW q \in Seq(Clients), NEW c \in Clients, Distinct(q), c \notin Range(q)
  PROVE  Distinct(Append(q, c))
<1>1. /\ Append(q, c) \in Seq(Clients) /\ Len(Append(q, c)) = Len(q) + 1 /\ Len(q) \in Nat
      /\ \A i \in 1 .. Len(q) : Append(q, c)[i] = q[i]
      /\ Append(q, c)[Len(q) + 1] = c
  BY AppendProperties, LenProperties
<1>2. DOMAIN q = 1 .. Len(q) /\ DOMAIN Append(q, c) = 1 .. Len(q) + 1
  BY <1>1, LenProperties
<1>3. \A i \in 1 .. Len(q) : q[i] # c
  BY <1>2 DEF Range
<1> QED
  BY <1>1, <1>2, <1>3 DEF Distinct

LEMMA DistinctTail ==
  ASSUME NEW q \in Seq(Clients), q # <<>>, Distinct(q)
  PROVE  /\ Tail(q) \in Seq(Clients) /\ Distinct(Tail(q))
         /\ Head(q) \in Clients /\ Head(q) \notin Range(Tail(q))
         /\ Range(q) = {Head(q)} \cup Range(Tail(q))
<1>1. /\ Tail(q) \in Seq(Clients) /\ Len(Tail(q)) = Len(q) - 1 /\ Len(q) \in Nat \ {0}
      /\ \A i \in 1 .. Len(Tail(q)) : Tail(q)[i] = q[i + 1]
      /\ Head(q) = q[1] /\ Head(q) \in Clients
  BY HeadTailProperties, LenProperties, EmptySeq
<1>2. DOMAIN q = 1 .. Len(q) /\ DOMAIN Tail(q) = 1 .. Len(q) - 1
  BY <1>1, LenProperties
<1>3. \A i \in DOMAIN Tail(q) : i + 1 \in DOMAIN q /\ i + 1 # 1 /\ Tail(q)[i] = q[i + 1]
  BY <1>1, <1>2
<1>4. 1 \in DOMAIN q
  BY <1>1, <1>2
<1>5. Distinct(Tail(q))
  <2> SUFFICES ASSUME NEW i \in DOMAIN Tail(q), NEW j \in DOMAIN Tail(q),
                      Tail(q)[i] = Tail(q)[j]
               PROVE  i = j
    BY DEF Distinct
  <2>1. i + 1 = j + 1
    BY <1>3 DEF Distinct
  <2> QED
    BY <1>2, <2>1
<1>6. Head(q) \notin Range(Tail(q))
  BY <1>1, <1>3, <1>4 DEF Range, Distinct
<1>7. Range(Tail(q)) \subseteq Range(q) /\ Head(q) \in Range(q)
  BY <1>1, <1>3, <1>4 DEF Range
<1> QED
  BY <1>1, <1>5, <1>6, <1>7, RangeTail

----------------------------------------------------------------------------
(* The inductive invariant, on top of that of LobbyProofs. *)

\* No client is in two places, and one that has not registered is in none.
OncePlaced ==
  /\ Distinct(pipe) /\ Distinct(queue)
  /\ Range(pipe) \cap Range(queue) = {}
  /\ hostReq \notin Range(pipe) \cup Range(queue)
  /\ \A s \in Slots : /\ req[s] \notin Range(pipe) \cup Range(queue)
                      /\ req[s] = hostReq => req[s] = NoClient
  /\ \A s, t \in Slots : req[s] = req[t] => s = t \/ req[s] = NoClient
  /\ \A c \in Clients : client[c] = "idle" =>
       /\ c \notin Range(pipe) \cup Range(queue) /\ c # hostReq
       /\ \A s \in Slots : req[s] # c

\* A client is only turned away at shutdown.
RefusedAtShutdown == \A s \in Slots : pc[s] \in {"refuse", "turnAway"} => shutdown

AInv == IInv /\ OncePlaced /\ RefusedAtShutdown

LEMMA Types ==
  ASSUME TypeOK
  PROVE  /\ client \in [Clients -> ClientStates]
         /\ pipe \in Seq(Clients) /\ queue \in Seq(Clients)
         /\ hostReq \in Clients \cup {NoClient} /\ NoClient \notin Clients
         /\ hostReq \in Clients <=> hostPc = "enqueue"
         /\ pc \in [Slots -> GameStates] /\ req \in [Slots -> Clients \cup {NoClient}]
         /\ \A s \in Slots : req[s] \in Clients <=> pc[s] \notin {"wait", "pop", "exited"}
         /\ Range(pipe) \subseteq Clients /\ Range(queue) \subseteq Clients
<1>1. pipe \in Seq(Clients) /\ queue \in Seq(Clients)
  BY TypeFacts
<1>2. Range(pipe) \subseteq Clients /\ Range(queue) \subseteq Clients
  BY <1>1, LenProperties DEF Range
<1> QED
  BY <1>1, <1>2, LobbyAssumption DEF TypeOK, ClientType, HostType, GameThreadType

----------------------------------------------------------------------------
(* No step puts a client in a second place. *)

LEMMA OnceClient ==
  ASSUME TypeOK, OncePlaced, NEW c \in Clients, ClientRuns(c)
  PROVE  OncePlaced'
<1> USE DEF OncePlaced
<1>1. CASE Registers(c)
  <2>1. /\ client' = [client EXCEPT ![c] = "waiting"] /\ client[c] = "idle"
        /\ pipe' = Append(pipe, c)
        /\ UNCHANGED <<hostReq, queue, req>>
    BY <1>1 DEF Registers
  <2>2. Distinct(pipe') /\ Range(pipe') = Range(pipe) \cup {c}
    BY <2>1, Types, DistinctAppends, RangeAppends
  <2> QED
    BY <2>1, <2>2, Types
<1>2. CASE Leaves(c) \/ Vanishes(c)
  <2>1. /\ \E l \in {"left", "gone"} : client' = [client EXCEPT ![c] = l]
        /\ client[c] # "idle"
        /\ UNCHANGED <<pipe, hostReq, queue, req>>
    BY <1>2 DEF Leaves, Vanishes
  <2> QED
    BY <2>1, Types
<1> QED
  BY <1>1, <1>2 DEF ClientRuns

LEMMA OnceHost ==
  ASSUME TypeOK, OncePlaced, HostRuns \/ handle_SIGUSR1 \/ handle_shutdown
  PROVE  OncePlaced'
<1> USE DEF OncePlaced
<1>1. CASE HostReads
  <2>1. /\ hostReq' = Head(pipe) /\ pipe' = Tail(pipe) /\ pipe # <<>>
        /\ UNCHANGED <<client, queue, req>>
    BY <1>1 DEF HostReads
  <2>2. /\ Distinct(pipe') /\ hostReq' \in Clients /\ hostReq' \notin Range(pipe')
        /\ Range(pipe) = {hostReq'} \cup Range(pipe')
    BY <2>1, Types, DistinctTail
  <2> QED
    BY <2>1, <2>2, Types
<1>2. CASE HostEnqueues
  <2>1. /\ queue' = Append(queue, hostReq) /\ hostReq' = NoClient
        /\ UNCHANGED <<client, pipe, req>>
    BY <1>2 DEF HostEnqueues
  <2>2. hostReq \in Clients
    BY <1>2, HostReqType
  <2>3. Distinct(queue') /\ Range(queue') = Range(queue) \cup {hostReq}
    BY <2>1, <2>2, Types, DistinctAppends, RangeAppends
  <2> QED
    BY <2>1, <2>2, <2>3, Types
<1>3. CASE ~HostReads /\ ~HostEnqueues
  <2>1. UNCHANGED <<client, pipe, hostReq, queue, req>>
    BY <1>3 DEF HostRuns, HostOpens, HostFails, HostLoops, HostMakesLeaderBoard, HostResets,
                HostReadFails, HostPosts, handle_SIGUSR1, handle_shutdown
  <2> QED
    BY <2>1
<1> QED
  BY <1>1, <1>2, <1>3

LEMMA OnceGame ==
  ASSUME TypeOK, OncePlaced, NEW s \in Slots, GameRuns(s) \/ GameOpenFails(s) \/ GamePlays(s)
  PROVE  OncePlaced'
<1> USE DEF OncePlaced
<1>1. CASE GamePops(s)
  <2>1. /\ req' = [req EXCEPT ![s] = Head(queue)] /\ queue' = Tail(queue) /\ queue # <<>>
        /\ UNCHANGED <<client, pipe, hostReq>>
    BY <1>1 DEF GamePops
  <2>2. /\ Distinct(queue') /\ req'[s] \in Clients /\ req'[s] \notin Range(queue')
        /\ Range(queue) = {req'[s]} \cup Range(queue')
        /\ \A t \in Slots : t # s => req'[t] = req[t]
    BY <2>1, Types, DistinctTail
  <2> QED
    BY <2>1, <2>2, Types
<1>2. CASE GameTurnsAway(s)
  <2>1. /\ req' = [req EXCEPT ![s] = NoClient] /\ pc[s] = "turnAway"
        /\ UNCHANGED <<pipe, hostReq, queue>>
    BY <1>2 DEF GameTurnsAway
  <2>2. \A c \in Clients : client'[c] = "idle" => client[c] = "idle"
    BY <1>2, <2>1, Types DEF GameTurnsAway
  <2> QED
    BY <2>1, <2>2, Types
<1>3. CASE GameGreets(s) \/ GameListens(s)
  <2>1. UNCHANGED <<pipe, hostReq, queue, req>> /\ pc[s] \in {"greet", "listen"}
    BY <1>3 DEF GameGreets, GameListens
  <2>2. \A c \in Clients : client'[c] = "idle" => client[c] = "idle"
    BY <1>3, <2>1, Types DEF GameGreets, GameListens
  <2> QED
    BY <2>1, <2>2
<1>4. CASE GameUnregisters(s)
  <2>1. req' = [req EXCEPT ![s] = NoClient] /\ UNCHANGED <<client, pipe, hostReq, queue>>
    BY <1>4 DEF GameUnregisters
  <2> QED
    BY <2>1, Types
<1>5. CASE UNCHANGED <<client, pipe, hostReq, queue, req>>
  BY <1>5
<1>6. \/ GamePops(s) \/ GameTurnsAway(s) \/ GameGreets(s) \/ GameListens(s) \/ GameUnregisters(s)
      \/ UNCHANGED <<client, pipe, hostReq, queue, req>>
  BY DEF GameRuns, GamePlays, GameWaits, GameExits, GameLooksAtShutdown, GameRefuses, GameOpens,
         GameOpenFails, GameRegisters, GameAdvances, GameQuits, GameDisconnects
<1> QED
  BY <1>1, <1>2, <1>3, <1>4, <1>5, <1>6

LEMMA RefusedStep == TypeOK /\ RefusedAtShutdown /\ [Next]_vars => RefusedAtShutdown'
<1> SUFFICES ASSUME TypeOK, RefusedAtShutdown, [Next]_vars PROVE RefusedAtShutdown'
  OBVIOUS
<1> USE DEF RefusedAtShutdown
<1>1. CASE pc' = pc /\ (shutdown => shutdown')
  BY <1>1
<1>2. ASSUME NEW s \in Slots, GameRuns(s) \/ GameOpenFails(s) \/ GamePlays(s) PROVE RefusedAtShutdown'
  <2>1. CASE GameLooksAtShutdown(s)
    BY <2>1, Types DEF GameLooksAtShutdown, GoTo
  <2>2. CASE GameRefuses(s)
    BY <2>2, Types DEF GameRefuses, GoTo
  <2>4. CASE GameOpenFails(s)
    BY <2>4, Types DEF GameOpenFails, GoTo
  <2>3. CASE \/ pc' = pc
             \/ \E l \in GameStates \ {"refuse", "turnAway"} : pc' = [pc EXCEPT ![s] = l]
    <3>1. shutdown' = shutdown
      BY <1>2 DEF GameRuns, GamePlays, GameWaits, GamePops, GameExits, GameLooksAtShutdown,
                  GameRefuses, GameTurnsAway, GameOpens, GameOpenFails, GameGreets,
                  GameListens, GameRegisters, GameUnregisters, GameAdvances, GameQuits, GameDisconnects
    <3> QED
      BY <2>3, <3>1, Types
  <2> QED
    BY <1>2, <2>1, <2>2, <2>3, <2>4
       DEF GameRuns, GamePlays, GameWaits, GamePops, GameExits, GameTurnsAway, GameOpens,
           GameGreets, GameListens, GameRegisters, GameUnregisters, GameAdvances, GameQuits,
           GameDisconnects, GoTo, GameStates
<1>3. (\E c \in Clients : ClientRuns(c)) \/ HostRuns \/ handle_SIGUSR1 \/ handle_shutdown \/ MainRuns
        => pc' = pc /\ (shutdown => shutdown')
  BY DEF ClientRuns, Registers, Leaves, Vanishes, HostRuns, HostOpens, HostFails, HostLoops,
         HostMakesLeaderBoard, HostResets, HostReads, HostReadFails, HostEnqueues, HostPosts,
         handle_SIGUSR1, handle_shutdown, MainRuns, MainJoinsHost, MainPosts, MainEnds
<1>4. UNCHANGED vars => pc' = pc /\ (shutdown => shutdown')
  BY DEF vars
<1> QED
  BY <1>1, <1>2, <1>3, <1>4 DEF Next, ServerOver

LEMMA AInvInit == Init => AInv
<1> SUFFICES ASSUME Init PROVE AInv
  OBVIOUS
<1>1. IInv
  BY InvInit
<1>2. Range(<<>>) = {} /\ Distinct(<<>>)
  BY DEF Range, Distinct
<1>3. /\ pipe = <<>> /\ queue = <<>> /\ hostReq = NoClient
      /\ \A s \in Slots : req[s] = NoClient /\ pc[s] = "wait"
  BY DEF Init
<1> QED
  BY <1>1, <1>2, <1>3, LobbyAssumption DEF AInv, OncePlaced, RefusedAtShutdown

LEMMA AInvStep == AInv /\ [Next]_vars => AInv'
<1> SUFFICES ASSUME AInv, [Next]_vars PROVE AInv'
  OBVIOUS
<1>1. IInv /\ TypeOK /\ OncePlaced /\ RefusedAtShutdown
  BY DEF AInv, IInv
<1>2. IInv' /\ RefusedAtShutdown'
  BY <1>1, InvStep, RefusedStep
<1>3. OncePlaced'
  <2>1. CASE MainRuns \/ UNCHANGED vars
    BY <1>1, <2>1 DEF MainRuns, MainJoinsHost, MainPosts, MainEnds, vars, hostVars, gameVars,
                      OncePlaced
  <2> QED
    BY <1>1, <2>1, OnceClient, OnceHost, OnceGame DEF Next, ServerOver
<1> QED
  BY <1>2, <1>3 DEF AInv

LEMMA AInvAlways == Spec => []AInv
BY AInvInit, AInvStep, PTL DEF Spec

----------------------------------------------------------------------------
(* Exactly one place. *)

InPipe(c) == {<<"pipe", i>> : i \in {i \in DOMAIN pipe : pipe[i] = c}}
WithHost(c) == {<<"host", 0>> : h \in {h \in {hostReq} : h = c}}
InQueue(c) == {<<"queue", i>> : i \in {i \in DOMAIN queue : queue[i] = c}}
WithGame(c) == {<<"game", s>> : s \in {s \in Slots : req[s] = c}}

LEMMA OnePlace ==
  ASSUME AInv, NEW c \in Clients, client[c] = "waiting"
  PROVE  Cardinality(Places(c)) = 1
<1>0. Places(c) = InPipe(c) \cup WithHost(c) \cup InQueue(c) \cup WithGame(c)
  BY DEF Places, InPipe, WithHost, InQueue, WithGame
<1>1. OncePlaced /\ NoClient \notin Clients
  BY LobbyAssumption DEF AInv
<1>2. c \notin Range(pipe) => InPipe(c) = {}
  BY DEF InPipe, Range
<1>3. c # hostReq => WithHost(c) = {}
  BY DEF WithHost
<1>4. c \notin Range(queue) => InQueue(c) = {}
  BY DEF InQueue, Range
<1>5. (\A s \in Slots : req[s] # c) => WithGame(c) = {}
  BY DEF WithGame
<1>6. SUFFICES \E p : Places(c) = {p}
  BY FS_Singleton
<1>7. CASE c \in Range(pipe)
  <2>1. PICK i \in DOMAIN pipe : pipe[i] = c
    BY <1>7 DEF Range
  <2>2. InPipe(c) = {<<"pipe", i>>}
    BY <1>1, <2>1 DEF InPipe, OncePlaced, Distinct
  <2>3. c # hostReq /\ c \notin Range(queue) /\ \A s \in Slots : req[s] # c
    BY <1>1, <1>7 DEF OncePlaced
  <2> QED
    BY <1>0, <1>3, <1>4, <1>5, <2>2, <2>3
<1>8. CASE c = hostReq
  <2>1. WithHost(c) = {<<"host", 0>>}
    BY <1>8 DEF WithHost
  <2>2. c \notin Range(pipe) /\ c \notin Range(queue) /\ \A s \in Slots : req[s] # c
    BY <1>1, <1>8 DEF OncePlaced
  <2> QED
    BY <1>0, <1>2, <1>4, <1>5, <2>1, <2>2
<1>9. CASE c \in Range(queue)
  <2>1. PICK i \in DOMAIN queue : queue[i] = c
    BY <1>9 DEF Range
  <2>2. InQueue(c) = {<<"queue", i>>}
    BY <1>1, <2>1 DEF InQueue, OncePlaced, Distinct
  <2>3. c # hostReq /\ c \notin Range(pipe) /\ \A s \in Slots : req[s] # c
    BY <1>1, <1>9 DEF OncePlaced
  <2> QED
    BY <1>0, <1>2, <1>3, <1>5, <2>2, <2>3
<1>10. CASE \E s \in Slots : req[s] = c
  <2>1. PICK s \in Slots : req[s] = c
    BY <1>10
  <2>2. WithGame(c) = {<<"game", s>>}
    BY <1>1, <2>1 DEF WithGame, OncePlaced
  <2>3. c # hostReq /\ c \notin Range(pipe) /\ c \notin Range(queue)
    BY <1>1, <2>1 DEF OncePlaced
  <2> QED
    BY <1>0, <1>2, <1>3, <1>4, <2>2, <2>3
<1> QED
  BY <1>7, <1>8, <1>9, <1>10 DEF AInv, IInv, WaitingIsSomewhere

\* A client that waits for an answer is in exactly one place of the server, and a
\* game thread that has it has yet to answer (game.c:333-362, 541-553).
THEOREM NobodyIsForgotten == Spec => []NobodyForgotten
<1>1. ASSUME AInv, NEW c \in Clients, client[c] = "waiting", NEW s \in Slots, req[s] = c
      PROVE  pc[s] \in {"popped", "refuse", "turnAway", "open", "greet"}
  <2>1. pc[s] \notin {"listen", "register", "play", "disconnect", "unregister"}
    BY <1>1 DEF AInv, IInv, ServedHasAnswer
  <2>2. pc[s] \notin {"wait", "pop", "exited"} /\ pc[s] \in GameStates
    BY <1>1, Types DEF AInv, IInv
  <2> QED
    BY <2>1, <2>2 DEF GameStates
<1>2. AInv => NobodyForgotten
  BY <1>1, OnePlace DEF NobodyForgotten
<1> QED
  BY <1>2, AInvAlways, PTL

----------------------------------------------------------------------------
(* The lobby implements Admission. *)

\* What Admission's playing and done stand for.
PlayStates == {"open", "greet", "listen", "register", "play", "disconnect", "unregister"}
Playing == {s \in Slots : pc[s] \in {"open", "greet", "listen", "register", "play",
                                     "disconnect", "unregister"}}
InServer == Range(pipe) \cup {hostReq} \cup Range(queue) \cup Range(req)
Answered == {c \in Clients : client[c] # "idle" /\ c \notin InServer}

Stutters == UNCHANGED <<queue, req, Playing, Answered, shutdown>>

LEMMA RangeReq ==
  ASSUME TypeOK
  PROVE  Range(req) = {req[s] : s \in Slots}
BY Types DEF Range

\* Nobody registers, and nobody enters or leaves the server.
LEMMA AnsweredStays ==
  ASSUME UNCHANGED <<pipe, hostReq, queue, req>>,
         \A c \in Clients : client'[c] = "idle" <=> client[c] = "idle"
  PROVE  Answered' = Answered
BY DEF Answered, InServer, Range

LEMMA SimInit == Init => Promised!Init
<1> SUFFICES ASSUME Init PROVE Promised!Init
  OBVIOUS
<1>1. /\ queue = <<>> /\ req = [s \in Slots |-> NoClient] /\ shutdown = FALSE
      /\ \A s \in Slots : pc[s] = "wait"
      /\ \A c \in Clients : client[c] = "idle"
  BY DEF Init
<1> QED
  BY <1>1 DEF Promised!Init

LEMMA SimClient ==
  ASSUME AInv, NEW c \in Clients, ClientRuns(c)
  PROVE  Stutters
<1>0. TypeOK
  BY DEF AInv, IInv
<1>1. UNCHANGED <<queue, req, shutdown, pc, hostReq>>
  BY DEF ClientRuns, Registers, Leaves, Vanishes
<1>2. Playing' = Playing
  BY <1>1 DEF Playing
<1>3. Answered' = Answered
  <2>1. CASE Registers(c)
    <3>1. /\ client' = [client EXCEPT ![c] = "waiting"] /\ client[c] = "idle"
          /\ pipe' = Append(pipe, c)
      BY <2>1 DEF Registers
    <3>2. Range(pipe') = Range(pipe) \cup {c}
      BY <1>0, <3>1, Types, RangeAppends
    <3>3. Range(queue') = Range(queue) /\ Range(req') = Range(req)
      BY <1>1
    <3> QED
      BY <1>0, <1>1, <3>1, <3>2, <3>3, Types DEF Answered, InServer
  <2>2. CASE Leaves(c) \/ Vanishes(c)
    <3>1. /\ \E l \in {"left", "gone"} : client' = [client EXCEPT ![c] = l]
          /\ client[c] # "idle" /\ UNCHANGED pipe
      BY <2>2 DEF Leaves, Vanishes
    <3>2. \A d \in Clients : client'[d] = "idle" <=> client[d] = "idle"
      BY <1>0, <3>1, Types
    <3> QED
      BY <1>1, <3>1, <3>2, AnsweredStays
  <2> QED
    BY <2>1, <2>2 DEF ClientRuns
<1> QED
  BY <1>1, <1>2, <1>3 DEF Stutters

LEMMA SimHost ==
  ASSUME AInv, HostRuns \/ handle_SIGUSR1 \/ handle_shutdown
  PROVE  Stutters \/ Promised!Next
<1>0. TypeOK /\ OncePlaced
  BY DEF AInv, IInv
<1>1. pc' = pc /\ client' = client /\ req' = req
  BY DEF HostRuns, HostOpens, HostFails, HostLoops, HostMakesLeaderBoard, HostResets, HostReads,
         HostReadFails, HostEnqueues, HostPosts, handle_SIGUSR1, handle_shutdown
<1>2. Playing' = Playing
  BY <1>1 DEF Playing
<1>3. CASE HostReads
  <2>1. /\ hostReq' = Head(pipe) /\ pipe' = Tail(pipe) /\ pipe # <<>> /\ hostPc = "read"
        /\ UNCHANGED <<queue, shutdown>>
    BY <1>3 DEF HostReads
  <2>2. Range(pipe) = {hostReq'} \cup Range(pipe') /\ hostReq \notin Clients
    BY <1>0, <2>1, Types, DistinctTail DEF OncePlaced
  <2>3. Range(queue') = Range(queue) /\ Range(req') = Range(req)
    BY <1>1, <2>1
  <2>4. Answered' = Answered
    BY <1>1, <2>2, <2>3 DEF Answered, InServer
  <2> QED
    BY <1>1, <1>2, <2>1, <2>4 DEF Stutters
<1>4. CASE HostEnqueues
  <2>1. /\ queue' = Append(queue, hostReq) /\ hostReq' = NoClient
        /\ UNCHANGED <<pipe, shutdown>>
    BY <1>4 DEF HostEnqueues
  <2>2. hostReq \in Clients /\ NoClient \notin Clients
    BY <1>0, <1>4, HostReqType, LobbyAssumption
  <2>3. Range(queue') = Range(queue) \cup {hostReq}
    BY <1>0, <2>1, <2>2, Types, RangeAppends
  <2>4. Range(pipe') = Range(pipe) /\ Range(req') = Range(req)
    BY <1>1, <2>1
  <2>5. Answered' = Answered
    BY <1>1, <2>1, <2>2, <2>3, <2>4 DEF Answered, InServer
  <2>6. hostReq \notin Range(queue) /\ (\A s \in Slots : req[s] # hostReq)
        /\ hostReq \notin Answered
    BY <1>0, <2>2 DEF OncePlaced, Answered, InServer
  <2>7. hostReq \notin Promised!Known
    BY <2>6 DEF Promised!Known, Range, Answered, InServer
  <2>8. Promised!Take(hostReq)
    BY <1>1, <1>2, <2>1, <2>5, <2>7 DEF Promised!Take, Playing, Answered, InServer
  <2> QED
    BY <2>2, <2>8 DEF Promised!Next
<1>5. CASE handle_shutdown
  <2>1. shutdown' = TRUE /\ UNCHANGED <<pipe, hostReq, queue>>
    BY <1>5 DEF handle_shutdown
  <2>2. Answered' = Answered
    BY <1>1, <2>1, AnsweredStays
  <2>3. Promised!Close
    BY <1>1, <1>2, <2>1, <2>2 DEF Promised!Close, Playing, Answered, InServer
  <2> QED
    BY <2>3 DEF Promised!Next
<1>6. CASE UNCHANGED <<pipe, hostReq, queue, shutdown>>
  <2>1. Answered' = Answered
    BY <1>1, <1>6, AnsweredStays
  <2> QED
    BY <1>1, <1>2, <1>6, <2>1 DEF Stutters
<1>7. \/ HostReads \/ HostEnqueues \/ handle_shutdown
      \/ UNCHANGED <<pipe, hostReq, queue, shutdown>>
  BY DEF HostRuns, HostOpens, HostFails, HostLoops, HostMakesLeaderBoard, HostResets,
         HostReadFails, HostPosts, handle_SIGUSR1
<1> QED
  BY <1>3, <1>4, <1>5, <1>6, <1>7

LEMMA SimGame ==
  ASSUME AInv, NEW s \in Slots, GameRuns(s) \/ GameOpenFails(s) \/ GamePlays(s)
  PROVE  Stutters \/ Promised!Next
<1>0. /\ TypeOK /\ OncePlaced /\ RefusedAtShutdown
      /\ pc \in [Slots -> GameStates] /\ req \in [Slots -> Clients \cup {NoClient}]
      /\ client \in [Clients -> ClientStates] /\ NoClient \notin Clients
      /\ \A t \in Slots : req[t] \in Clients <=> pc[t] \notin {"wait", "pop", "exited"}
  BY Types DEF AInv, IInv
<1>1. UNCHANGED <<pipe, hostReq, shutdown>>
  BY DEF GameRuns, GamePlays, GameWaits, GamePops, GameExits, GameLooksAtShutdown,
         GameRefuses, GameTurnsAway, GameOpens, GameOpenFails, GameGreets, GameListens,
         GameRegisters, GameUnregisters, GameAdvances, GameQuits, GameDisconnects
<1>2. CASE GamePops(s)
  <2>1. /\ req' = [req EXCEPT ![s] = Head(queue)] /\ queue' = Tail(queue) /\ queue # <<>>
        /\ pc[s] = "pop" /\ pc' = [pc EXCEPT ![s] = "popped"] /\ client' = client
    BY <1>2 DEF GamePops, GoTo
  <2>2. Playing' = Playing
    BY <1>0, <2>1 DEF Playing
  <2>3. req[s] = NoClient /\ DOMAIN req = Slots /\ DOMAIN req' = Slots
    BY <1>0, <2>1
  <2>4. Head(queue) \in Clients /\ Range(queue) = {Head(queue)} \cup Range(queue')
    BY <1>0, <2>1, Types, DistinctTail DEF OncePlaced
  <2>5. /\ Range(req') \subseteq Range(req) \cup {Head(queue)}
        /\ Range(req) \subseteq Range(req') \cup {NoClient}
        /\ Head(queue) \in Range(req')
    BY <2>1, <2>3 DEF Range
  <2>6. Range(pipe') = Range(pipe)
    BY <1>1
  <2>7. Answered' = Answered
    BY <1>0, <1>1, <2>1, <2>4, <2>5, <2>6 DEF Answered, InServer
  <2>8. Promised!Call(s)
    BY <1>1, <2>1, <2>2, <2>3, <2>7 DEF Promised!Call, Playing, Answered, InServer
  <2> QED
    BY <2>8 DEF Promised!Next
<1>3. CASE GameLooksAtShutdown(s)
  <2>1. /\ UNCHANGED <<client, queue, req>> /\ pc[s] = "popped"
        /\ \/ pc' = [pc EXCEPT ![s] = "refuse"]
           \/ pc' = [pc EXCEPT ![s] = "open"]
    BY <1>3 DEF GameLooksAtShutdown, GoTo
  <2>2. Answered' = Answered
    BY <1>1, <2>1, AnsweredStays
  <2>3. CASE pc' = [pc EXCEPT ![s] = "refuse"]
    <3>1. Playing' = Playing
      BY <1>0, <2>1, <2>3 DEF Playing
    <3> QED
      BY <1>1, <2>1, <2>2, <3>1 DEF Stutters
  <2>4. CASE pc' = [pc EXCEPT ![s] = "open"]
    <3>1. Playing' = Playing \cup {s} /\ s \notin Playing /\ req[s] # NoClient
      BY <1>0, <2>1, <2>4 DEF Playing
    <3>2. Promised!Play(s)
      BY <1>1, <2>1, <2>2, <3>1 DEF Promised!Play, Playing, Answered, InServer
    <3> QED
      BY <3>2 DEF Promised!Next
  <2> QED
    BY <2>1, <2>3, <2>4
<1>4. ASSUME req' = [req EXCEPT ![s] = NoClient], queue' = queue, req[s] \in Clients,
             client'[req[s]] # "idle",
             \A c \in Clients : c # req[s] => client'[c] = client[c]
      PROVE  Answered' = Answered \cup {req[s]}
  <2>1. DOMAIN req = Slots /\ DOMAIN req' = Slots
    BY <1>0, <1>4
  <2>2. \A t \in Slots : t # s => req'[t] = req[t]
    BY <1>0, <1>4
  <2>3. \A c \in Clients : c \in Range(req) <=> c \in Range(req') \/ c = req[s]
    BY <1>0, <1>4, <2>1, <2>2 DEF Range
  <2>4. req[s] \notin Range(req')
    BY <1>0, <1>4, <2>1, <2>2 DEF Range, OncePlaced
  <2>5. req[s] \notin Range(pipe) \cup {hostReq} \cup Range(queue)
    BY <1>0, <1>4 DEF OncePlaced
  <2>6. Range(pipe') = Range(pipe) /\ Range(queue') = Range(queue)
    BY <1>1, <1>4
  <2> QED
    BY <1>1, <1>4, <2>3, <2>4, <2>5, <2>6 DEF Answered, InServer
<1>5. CASE GameTurnsAway(s)
  <2>1. /\ UNCHANGED queue
        /\ pc[s] = "turnAway" /\ pc' = [pc EXCEPT ![s] = "wait"]
        /\ req' = [req EXCEPT ![s] = NoClient]
    BY <1>5 DEF GameTurnsAway, GoTo
  <2>2. req[s] \in Clients /\ shutdown
    BY <1>0, <2>1 DEF RefusedAtShutdown
  <2>3. client'[req[s]] # "idle" /\ \A c \in Clients : c # req[s] => client'[c] = client[c]
    BY <1>0, <1>5, <2>2 DEF GameTurnsAway
  <2>4. Answered' = Answered \cup {req[s]}
    BY <1>4, <2>1, <2>2, <2>3
  <2>5. Playing' = Playing /\ s \notin Playing /\ req[s] # NoClient
    BY <1>0, <2>1, <2>2 DEF Playing
  <2>6. Promised!TurnAway(s)
    BY <1>1, <2>1, <2>2, <2>4, <2>5 DEF Promised!TurnAway, Playing, Answered, InServer
  <2> QED
    BY <2>6 DEF Promised!Next
<1>6. CASE GameUnregisters(s)
  <2>1. /\ UNCHANGED <<client, queue>>
        /\ pc[s] = "unregister" /\ pc' = [pc EXCEPT ![s] = "wait"]
        /\ req' = [req EXCEPT ![s] = NoClient]
    BY <1>6 DEF GameUnregisters, GoTo
  <2>2. req[s] \in Clients /\ client[req[s]] # "idle"
    BY <1>0, <2>1 DEF OncePlaced
  <2>3. Answered' = Answered \cup {req[s]}
    BY <1>4, <2>1, <2>2
  <2>4. Playing' = Playing \ {s} /\ s \in Playing
    BY <1>0, <2>1 DEF Playing
  <2>5. Promised!Finish(s)
    BY <1>1, <2>1, <2>3, <2>4 DEF Promised!Finish, Playing, Answered, InServer
  <2> QED
    BY <2>5 DEF Promised!Next
<1>7. CASE GameGreets(s) \/ GameListens(s)
  <2>1. /\ UNCHANGED <<queue, req>> /\ pc[s] \in {"greet", "listen"}
        /\ \E l \in {"listen", "register"} : pc' = [pc EXCEPT ![s] = l]
    BY <1>7 DEF GameGreets, GameListens, GoTo
  <2>2. req[s] \in Clients
    BY <1>0, <2>1
  <2>3. /\ client[req[s]] # "idle" /\ client'[req[s]] # "idle"
        /\ \A c \in Clients : c # req[s] => client'[c] = client[c]
    BY <1>0, <1>7, <2>2 DEF GameGreets, GameListens
  <2>4. Answered' = Answered
    BY <1>1, <2>1, <2>3, AnsweredStays
  <2>5. Playing' = Playing
    BY <1>0, <2>1 DEF Playing
  <2> QED
    BY <1>1, <2>1, <2>4, <2>5 DEF Stutters
<1>8. CASE /\ UNCHANGED <<client, queue, req>>
           /\ \/ pc' = pc
              \/ \E l \in GameStates : /\ pc' = [pc EXCEPT ![s] = l]
                                       /\ l \in PlayStates <=> pc[s] \in PlayStates
  <2>1. Answered' = Answered
    BY <1>1, <1>8, AnsweredStays
  <2>2. Playing' = Playing
    BY <1>0, <1>8 DEF Playing, PlayStates
  <2> QED
    BY <1>1, <1>8, <2>1, <2>2 DEF Stutters
<1>9. CASE \/ GameWaits(s) \/ GameExits(s) \/ GameRefuses(s) \/ GameOpens(s)
           \/ GameOpenFails(s) \/ GameRegisters(s) \/ GamePlays(s)
  <2>1. UNCHANGED <<client, queue, req>>
    BY <1>9 DEF GameWaits, GameExits, GameRefuses, GameOpens, GameOpenFails, GameRegisters,
                GamePlays, GameAdvances, GameQuits, GameDisconnects
  <2>2. \/ pc' = pc
        \/ \E l \in GameStates : /\ pc' = [pc EXCEPT ![s] = l]
                                 /\ l \in PlayStates <=> pc[s] \in PlayStates
    BY <1>9 DEF GameWaits, GameExits, GameRefuses, GameOpens, GameOpenFails, GameRegisters,
                GamePlays, GameAdvances, GameQuits, GameDisconnects, GoTo, GameStates,
                PlayStates
  <2> QED
    BY <1>8, <2>1, <2>2
<1> QED
  BY <1>2, <1>3, <1>5, <1>6, <1>7, <1>9 DEF GameRuns

LEMMA SimStep == AInv /\ [Next]_vars => Stutters \/ Promised!Next
<1> SUFFICES ASSUME AInv, [Next]_vars PROVE Stutters \/ Promised!Next
  OBVIOUS
<1>1. CASE MainRuns \/ UNCHANGED vars
  <2>1. UNCHANGED <<client, pipe, hostReq, queue, req, pc, shutdown>>
    BY <1>1 DEF MainRuns, MainJoinsHost, MainPosts, MainEnds, vars
  <2>2. Answered' = Answered
    BY <2>1, AnsweredStays
  <2>3. Playing' = Playing
    BY <2>1 DEF Playing
  <2> QED
    BY <2>1, <2>2, <2>3 DEF Stutters
<1> QED
  BY <1>1, SimClient, SimHost, SimGame DEF Next, ServerOver

\* However the threads interleave, and whoever vanishes or is interrupted, the
\* server calls its clients in the order in which it took their requests, each
\* once and into a game thread that is free, and turns them away only when it
\* closes (game.c:329-362, 404-417, 541-553).
THEOREM LobbyKeepsItsPromise == Spec => KeepsItsPromise
<1>1. AInv /\ [Next]_vars
        => [Promised!Next]_<<queue, req,
              {s \in Slots : pc[s] \in {"open", "greet", "listen", "register", "play",
                                        "disconnect", "unregister"}},
              {c \in Clients :
                 client[c] # "idle"
                 /\ c \notin Range(pipe) \cup {hostReq} \cup Range(queue) \cup Range(req)},
              shutdown>>
  BY SimStep DEF Stutters, Playing, Answered, InServer
<1> QED
  BY <1>1, SimInit, AInvAlways, PTL DEF Spec, KeepsItsPromise, Promised!Spec
=============================================================================
