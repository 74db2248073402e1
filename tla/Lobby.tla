------------------------------- MODULE Lobby -------------------------------
(***************************************************************************)
(* How clients get a game (Server/src/game.c, Server/src/api2.c): the host *)
(* thread reads requests from the server's pipe and queues them, max_games *)
(* game threads take them from the queue and each runs one session at a    *)
(* time, a semaphore counts the requests, main shuts everything down.      *)
(*                                                                         *)
(* A step is one system call, one critical section of p2c->lock or of      *)
(* clientsArrayLock, or one access to an unprotected variable.  A game is  *)
(* a step per level here; module Level shows what happens in one.          *)
(***************************************************************************)
EXTENDS Integers, Sequences, FiniteSets, Functions

CONSTANTS
  Clients,      \* the client processes; each registers once
  Slots,        \* the game threads, 0 .. max_games - 1
  NoClient,
  Levels,       \* the number of levels handle_files found
  MayVanish,    \* the clients that may die at any time
  HostMayFail   \* unlink, mkfifo or open of the server's pipe may fail

ASSUME LobbyAssumption ==
  /\ IsFiniteSet(Slots)
  /\ NoClient \notin Clients
  /\ Levels \in Nat \ {0}
  /\ MayVanish \subseteq Clients
  /\ HostMayFail \in BOOLEAN

VARIABLES
  client,   \* how far each client is
  pipe,     \* requests written to the server's pipe and not yet read
  hostPc,   \* where host_thread is
  hostReq,  \* the request it has read
  usr1,     \* SIGUSR1_received
  shutdown, \* set by SIGINT
  queue,    \* producerConsumer
  sem,      \* sem_games
  pc,       \* where each game_thread is
  req,      \* the client it serves
  sess,     \* its session_t: "none", "live" or "freed"
  level,    \* indexLevel
  active,   \* the slots whose activeClients entry is not NULL
  mainPc,   \* where main is
  posted,   \* how often main has posted the semaphore
  crashed   \* the server process is gone

hostVars == <<hostPc, hostReq, usr1, shutdown>>
gameVars == <<pc, req, sess, level, active>>
mainVars == <<mainPc, posted, crashed>>
vars == <<client, pipe, hostVars, queue, sem, gameVars, mainVars>>

Init ==
  /\ client = [c \in Clients |-> "idle"]
  /\ pipe = <<>>
  /\ hostPc = "start" /\ hostReq = NoClient /\ usr1 = FALSE /\ shutdown = FALSE
  /\ queue = <<>> /\ sem = 0
  /\ pc = [s \in Slots |-> "wait"]
  /\ req = [s \in Slots |-> NoClient]
  /\ sess = [s \in Slots |-> "none"]
  /\ level = [s \in Slots |-> 0]
  /\ active = {}
  /\ mainPc = "joinHost" /\ posted = 0 /\ crashed = FALSE

----------------------------------------------------------------------------
(* The clients, as far as the server sees them. *)

\* pacman_connect writes its request; the pipe exists and the host has it open.
\* Then it waits for the server to open its notification pipe.
Registers(c) ==
  /\ client[c] = "idle"
  /\ hostPc \notin {"start", "done"} /\ ~shutdown
  /\ client' = [client EXCEPT ![c] = "waiting"]
  /\ pipe' = Append(pipe, c)
  /\ UNCHANGED <<hostVars, queue, sem, gameVars, mainVars>>

\* It quits, or has seen the end of its game: pacman_disconnect or exit.
Leaves(c) ==
  /\ client[c] = "playing"
  /\ client' = [client EXCEPT ![c] = "left"]
  /\ UNCHANGED <<pipe, hostVars, queue, sem, gameVars, mainVars>>

Vanishes(c) ==
  /\ c \in MayVanish
  /\ client[c] \in {"waiting", "greeted", "playing"}
  /\ client' = [client EXCEPT ![c] = "gone"]
  /\ UNCHANGED <<pipe, hostVars, queue, sem, gameVars, mainVars>>

----------------------------------------------------------------------------
(* host_thread and the signals it alone receives. *)

HostGoesTo(l) == hostPc' = l

HostOpens ==
  /\ hostPc = "start"
  /\ HostGoesTo("loop")
  /\ UNCHANGED <<client, pipe, hostReq, usr1, shutdown, queue, sem, gameVars, mainVars>>

HostFails ==
  /\ HostMayFail
  /\ hostPc = "start"
  /\ HostGoesTo("done")
  /\ UNCHANGED <<client, pipe, hostReq, usr1, shutdown, queue, sem, gameVars, mainVars>>

HostLoops ==
  /\ hostPc = "loop"
  /\ \/ shutdown /\ HostGoesTo("done")
     \/ ~shutdown /\ ~usr1 /\ HostGoesTo("read")
  /\ UNCHANGED <<client, pipe, hostReq, usr1, shutdown, queue, sem, gameVars, mainVars>>

\* leaderBoard reads the sessions of activeClients under clientsArrayLock.
HostMakesLeaderBoard ==
  /\ hostPc = "loop"
  /\ ~shutdown /\ usr1
  /\ HostGoesTo("reset")
  /\ UNCHANGED <<client, pipe, hostReq, usr1, shutdown, queue, sem, gameVars, mainVars>>

HostResets ==
  /\ hostPc = "reset"
  /\ usr1' = FALSE
  /\ HostGoesTo("read")
  /\ UNCHANGED <<client, pipe, hostReq, shutdown, queue, sem, gameVars, mainVars>>

\* A mutant: the permit is given before the request is queued.
HostReadsAndPosts ==
  /\ hostPc = "read"
  /\ ~shutdown /\ pipe # <<>>
  /\ hostReq' = Head(pipe)
  /\ pipe' = Tail(pipe)
  /\ sem' = sem + 1
  /\ HostGoesTo("enqueue")
  /\ UNCHANGED <<client, usr1, shutdown, queue, gameVars, mainVars>>

HostReads ==
  /\ hostPc = "read"
  /\ ~shutdown /\ pipe # <<>>
  /\ hostReq' = Head(pipe)
  /\ pipe' = Tail(pipe)
  /\ HostGoesTo("enqueue")
  /\ UNCHANGED <<client, usr1, shutdown, queue, sem, gameVars, mainVars>>

\* The SIGINT handler has closed servfd.
HostReadFails ==
  /\ hostPc = "read"
  /\ shutdown
  /\ HostGoesTo("done")
  /\ UNCHANGED <<client, pipe, hostReq, usr1, shutdown, queue, sem, gameVars, mainVars>>

\* A mutant: the latest request is served first.
HostEnqueuesAtHead ==
  /\ hostPc = "enqueue"
  /\ queue' = <<hostReq>> \o queue
  /\ hostReq' = NoClient
  /\ HostGoesTo("post")
  /\ UNCHANGED <<client, pipe, usr1, shutdown, sem, gameVars, mainVars>>

HostEnqueues ==
  /\ hostPc = "enqueue"
  /\ queue' = Append(queue, hostReq)
  /\ hostReq' = NoClient
  /\ HostGoesTo("post")
  /\ UNCHANGED <<client, pipe, usr1, shutdown, sem, gameVars, mainVars>>

HostPosts ==
  /\ hostPc = "post"
  /\ sem' = sem + 1
  /\ HostGoesTo("loop")
  /\ UNCHANGED <<client, pipe, hostReq, usr1, shutdown, queue, gameVars, mainVars>>

\* SIGUSR1 interrupts the read only if the host is already blocked in it; just
\* before the read it only sets the flag.
handle_SIGUSR1 ==
  /\ hostPc # "done"
  /\ usr1' = TRUE
  /\ \/ hostPc = "read" /\ pipe = <<>> /\ HostGoesTo("loop")
     \/ UNCHANGED hostPc
  /\ UNCHANGED <<client, pipe, hostReq, shutdown, queue, sem, gameVars, mainVars>>

handle_shutdown ==
  /\ hostPc # "done" /\ ~shutdown
  /\ shutdown' = TRUE
  /\ UNCHANGED <<client, pipe, hostPc, hostReq, usr1, queue, sem, gameVars, mainVars>>

----------------------------------------------------------------------------
(* game_thread. *)

GoTo(s, l) == pc' = [pc EXCEPT ![s] = l]

\* sem_wait
GameWaits(s) ==
  /\ pc[s] = "wait"
  /\ sem > 0
  /\ sem' = sem - 1
  /\ GoTo(s, "pop")
  /\ UNCHANGED <<client, pipe, hostVars, queue, req, sess, level, active, mainVars>>

GamePops(s) ==
  /\ pc[s] = "pop"
  /\ queue # <<>>
  /\ req' = [req EXCEPT ![s] = Head(queue)]
  /\ queue' = Tail(queue)
  /\ GoTo(s, "popped")
  /\ UNCHANGED <<client, pipe, hostVars, sem, sess, level, active, mainVars>>

\* A mutant: a thread that ends does not give back its turn.
GameExitsHoldingPermit(s) ==
  /\ pc[s] = "pop"
  /\ queue = <<>>
  /\ GoTo(s, "exited")
  /\ sem' = sem + 1
  /\ UNCHANGED <<client, pipe, hostVars, queue, req, sess, level, active, mainVars>>

\* A permit without a request: the thread ends.
GameExits(s) ==
  /\ pc[s] = "pop"
  /\ queue = <<>>
  /\ GoTo(s, "exited")
  /\ UNCHANGED <<client, pipe, hostVars, queue, sem, req, sess, level, active, mainVars>>

\* A mutant: at shutdown the thread drops the request it has taken.
GameDropsAtShutdown(s) ==
  /\ pc[s] = "popped"
  /\ \/ /\ shutdown
        /\ GoTo(s, "wait")
        /\ req' = [req EXCEPT ![s] = NoClient]
        /\ UNCHANGED sess
     \/ /\ ~shutdown
        /\ GoTo(s, "open")
        /\ sess' = [sess EXCEPT ![s] = "live"]
        /\ UNCHANGED req
  /\ UNCHANGED <<client, pipe, hostVars, queue, sem, level, active, mainVars>>

GameLooksAtShutdown(s) ==
  /\ pc[s] = "popped"
  /\ \/ shutdown /\ GoTo(s, "refuse") /\ UNCHANGED sess
     \/ ~shutdown /\ GoTo(s, "open") /\ sess' = [sess EXCEPT ![s] = "live"]
  /\ UNCHANGED <<client, pipe, hostVars, queue, sem, req, level, active, mainVars>>

\* open(notif_file_path, O_WRONLY) returns when the client has opened its end;
\* if the client is gone it never does, or it fails (GameOpenFails).
GameRefuses(s) ==
  /\ pc[s] = "refuse"
  /\ client[req[s]] = "waiting"
  /\ GoTo(s, "turnAway")
  /\ UNCHANGED <<client, pipe, hostVars, queue, sem, req, sess, level, active, mainVars>>

\* A write that fails is ignored, and so is SIGPIPE.
GameTurnsAway(s) ==
  /\ pc[s] = "turnAway"
  /\ \/ /\ client[req[s]] = "waiting"
        /\ client' = [client EXCEPT ![req[s]] = "refused"]
     \/ /\ client[req[s]] = "gone"
        /\ UNCHANGED client
  /\ req' = [req EXCEPT ![s] = NoClient]
  /\ GoTo(s, "wait")
  /\ UNCHANGED <<pipe, hostVars, queue, sem, sess, level, active, mainVars>>

\* innit_session opens the notification pipe ...
GameOpens(s) ==
  /\ pc[s] = "open"
  /\ client[req[s]] = "waiting"
  /\ GoTo(s, "greet")
  /\ UNCHANGED <<client, pipe, hostVars, queue, sem, req, sess, level, active, mainVars>>

\* The pipe of a client that is gone has been removed.  innit_session frees the
\* session and the game goes on without one; a refusal writes to no descriptor.
GameOpenFails(s) ==
  /\ req[s] # NoClient /\ client[req[s]] = "gone"
  /\ \/ pc[s] = "open" /\ GoTo(s, "register") /\ sess' = [sess EXCEPT ![s] = "freed"]
     \/ pc[s] = "refuse" /\ GoTo(s, "turnAway") /\ UNCHANGED sess
  /\ UNCHANGED <<client, pipe, hostVars, queue, sem, req, level, active, mainVars>>

\* ... greets the client; if that fails it frees the session and returns ...
GameGreets(s) ==
  /\ pc[s] = "greet"
  /\ \/ /\ client[req[s]] = "waiting"
        /\ client' = [client EXCEPT ![req[s]] = "greeted"]
        /\ GoTo(s, "listen")
        /\ UNCHANGED sess
     \/ /\ client[req[s]] = "gone"
        /\ sess' = [sess EXCEPT ![s] = "freed"]
        /\ GoTo(s, "register")
        /\ UNCHANGED client
  /\ UNCHANGED <<pipe, hostVars, queue, sem, req, level, active, mainVars>>

\* ... and opens the request pipe, once the client opens its end of it.
GameListens(s) ==
  /\ pc[s] = "listen"
  /\ client[req[s]] = "greeted"
  /\ client' = [client EXCEPT ![req[s]] = "playing"]
  /\ GoTo(s, "register")
  /\ UNCHANGED <<pipe, hostVars, queue, sem, req, sess, level, active, mainVars>>

GameRegisters(s) ==
  /\ pc[s] = "register"
  /\ active' = active \cup {s}
  /\ level' = [level EXCEPT ![s] = 0]
  /\ GoTo(s, "play")
  /\ UNCHANGED <<client, pipe, hostVars, queue, sem, req, sess, mainVars>>

\* A mutant: indexLevel runs past the last level.
GameAdvancesForever(s) ==
  /\ pc[s] = "play"
  /\ level' = [level EXCEPT ![s] = @ + 1]
  /\ UNCHANGED <<client, pipe, hostVars, queue, sem, pc, req, sess, active, mainVars>>

\* A level ends by the portal: the next one is played, if there is one.
GameAdvances(s) ==
  /\ pc[s] = "play"
  /\ \/ level[s] + 1 < Levels /\ level' = [level EXCEPT ![s] = @ + 1] /\ UNCHANGED pc
     \/ level[s] + 1 = Levels /\ GoTo(s, "disconnect") /\ UNCHANGED level
  /\ UNCHANGED <<client, pipe, hostVars, queue, sem, req, sess, active, mainVars>>

\* A level ends with QUIT_GAME, because the pacman is dead or the client said
\* so: a client that has left is the end of its pipe.
GameQuits(s) ==
  /\ pc[s] = "play"
  /\ GoTo(s, "disconnect")
  /\ UNCHANGED <<client, pipe, hostVars, queue, sem, req, sess, level, active, mainVars>>

\* disconnect_session reads a byte, the client's farewell, the end of the pipe
\* or the first byte of a command nobody has read; then it frees the session.
\* A second free of it may abort the process.
GameDisconnects(s) ==
  /\ pc[s] = "disconnect"
  /\ sess' = [sess EXCEPT ![s] = "freed"]
  /\ crashed' \in (IF sess[s] = "freed" THEN BOOLEAN ELSE {FALSE})
  /\ GoTo(s, "unregister")
  /\ UNCHANGED <<client, pipe, hostVars, queue, sem, req, level, active, mainPc, posted>>

GameUnregisters(s) ==
  /\ pc[s] = "unregister"
  /\ active' = active \ {s}
  /\ sess' = [sess EXCEPT ![s] = "none"]
  /\ req' = [req EXCEPT ![s] = NoClient]
  /\ GoTo(s, "wait")
  /\ UNCHANGED <<client, pipe, hostVars, queue, sem, level, mainVars>>

----------------------------------------------------------------------------
(* main after it has started the threads. *)

MainJoinsHost ==
  /\ mainPc = "joinHost"
  /\ hostPc = "done"
  /\ mainPc' = IF shutdown THEN "post" ELSE "joinGames"
  /\ UNCHANGED <<client, pipe, hostVars, queue, sem, gameVars, posted, crashed>>

\* A mutant: one permit too few.
MainPostsTooFew ==
  /\ mainPc = "post"
  /\ \/ /\ posted < Cardinality(Slots) - 1
        /\ posted' = posted + 1
        /\ sem' = sem + 1
        /\ UNCHANGED mainPc
     \/ /\ posted >= Cardinality(Slots) - 1
        /\ mainPc' = "joinGames"
        /\ UNCHANGED <<posted, sem>>
  /\ UNCHANGED <<client, pipe, hostVars, queue, gameVars, crashed>>

\* A permit for every game thread, on top of those of the queued requests.
MainPosts ==
  /\ mainPc = "post"
  /\ \/ /\ posted < Cardinality(Slots)
        /\ posted' = posted + 1
        /\ sem' = sem + 1
        /\ UNCHANGED mainPc
     \/ /\ posted = Cardinality(Slots)
        /\ mainPc' = "joinGames"
        /\ UNCHANGED <<posted, sem>>
  /\ UNCHANGED <<client, pipe, hostVars, queue, gameVars, crashed>>

\* A mutant: main does not join the game threads.
MainEndsEarly ==
  /\ mainPc = "joinGames"
  /\ mainPc' = "over"
  /\ UNCHANGED <<client, pipe, hostVars, queue, sem, gameVars, posted, crashed>>

\* Joins the game threads, frees the levels, the queue and the rest, and exits.
MainEnds ==
  /\ mainPc = "joinGames"
  /\ \A s \in Slots : pc[s] = "exited"
  /\ mainPc' = "over"
  /\ UNCHANGED <<client, pipe, hostVars, queue, sem, gameVars, posted, crashed>>

ServerOver == (crashed \/ mainPc = "over") /\ UNCHANGED vars

ClientRuns(c) == Registers(c) \/ Leaves(c) \/ Vanishes(c)
HostRuns ==
  \/ HostOpens \/ HostFails \/ HostLoops \/ HostMakesLeaderBoard \/ HostResets
  \/ HostReads \/ HostReadFails \/ HostEnqueues \/ HostPosts
GameRuns(s) ==
  \/ GameWaits(s) \/ GamePops(s) \/ GameExits(s) \/ GameLooksAtShutdown(s)
  \/ GameRefuses(s) \/ GameTurnsAway(s) \/ GameOpens(s) \/ GameGreets(s)
  \/ GameListens(s) \/ GameRegisters(s) \/ GameUnregisters(s)
GamePlays(s) == GameAdvances(s) \/ GameQuits(s) \/ GameDisconnects(s)
MainRuns == MainJoinsHost \/ MainPosts \/ MainEnds

Next ==
  \/ /\ ~crashed
     /\ \/ \E c \in Clients : ClientRuns(c)
        \/ HostRuns \/ handle_SIGUSR1 \/ handle_shutdown
        \/ \E s \in Slots : GameRuns(s) \/ GameOpenFails(s) \/ GamePlays(s)
        \/ MainRuns
  \/ ServerOver

\* The client of s is at the end of its game: the reads of its pipe return.
Left(s) == client[req[s]] \in {"left", "gone"}

\* The scheduler runs every thread that can run.  A client need not do anything;
\* only when it has left must its game end and its farewell be read.
Fairness ==
  /\ WF_vars(~crashed /\ HostRuns)
  /\ WF_vars(~crashed /\ MainRuns)
  /\ \A s \in Slots : /\ SF_vars(~crashed /\ GameWaits(s))
                      /\ WF_vars(~crashed /\ GameRuns(s))
                      /\ WF_vars(~crashed /\ req[s] # NoClient /\ Left(s)
                                 /\ (GameQuits(s) \/ GameDisconnects(s)))

Spec == Init /\ [][Next]_vars /\ Fairness

----------------------------------------------------------------------------
(* Properties. *)

ClientStates == {"idle", "waiting", "refused", "greeted", "playing", "left", "gone"}
HostStates == {"start", "loop", "reset", "read", "enqueue", "post", "done"}
GameStates == {"wait", "pop", "popped", "refuse", "turnAway", "open", "greet",
               "listen", "register", "play", "disconnect", "unregister", "exited"}
MainStates == {"joinHost", "post", "joinGames", "over"}

ClientType ==
  /\ client \in [Clients -> ClientStates]
  /\ pipe \in Seq(Clients)
HostType ==
  /\ hostPc \in HostStates
  /\ hostReq \in Clients \cup {NoClient}
  /\ hostReq # NoClient <=> hostPc = "enqueue"
  /\ usr1 \in BOOLEAN /\ shutdown \in BOOLEAN
QueueType == queue \in Seq(Clients) /\ sem \in Nat
GameThreadType ==
  /\ pc \in [Slots -> GameStates]
  /\ req \in [Slots -> Clients \cup {NoClient}]
  /\ \A s \in Slots : req[s] # NoClient <=> pc[s] \notin {"wait", "pop", "exited"}
  /\ sess \in [Slots -> {"none", "live", "freed"}]
  /\ level \in [Slots -> 0 .. Levels - 1]
  /\ active \subseteq Slots
MainType ==
  /\ mainPc \in MainStates
  /\ posted \in 0 .. Cardinality(Slots)
  /\ crashed \in BOOLEAN

\* The type invariant of the lobby; the level a game thread indexes exists.
TypeOK == ClientType /\ HostType /\ QueueType /\ GameThreadType /\ MainType

At(l) == {s \in Slots : pc[s] = l}

\* The semaphore counts what is to be taken from the queue: the requests in it
\* and the permits main posted to end the threads, less those that a thread has
\* taken and not yet used (game.c:333-339, 546-553, 651-655).
PermitBalance ==
  sem + Cardinality(At("pop")) + (IF hostPc = "post" THEN 1 ELSE 0)
    = Len(queue) + posted - Cardinality(At("exited"))

\* A game thread ends only on a permit main posted, and then nothing is queued
\* nor will be: no accepted client is left behind (game.c:336-339).
NoEarlyExit ==
  At("exited") # {} => posted > 0 /\ hostPc = "done" /\ queue = <<>>

\* A client that waits for an answer is in exactly one place: in the pipe, with
\* the host, in the queue, or with one game thread that has yet to answer it.
Places(c) ==
  {<<"pipe", i>> : i \in {i \in DOMAIN pipe : pipe[i] = c}} \cup
  {<<"host", 0>> : h \in {h \in {hostReq} : h = c}} \cup
  {<<"queue", i>> : i \in {i \in DOMAIN queue : queue[i] = c}} \cup
  {<<"game", s>> : s \in {s \in Slots : req[s] = c}}

NobodyForgotten ==
  \A c \in Clients :
    client[c] = "waiting" =>
      /\ Cardinality(Places(c)) = 1
      /\ \A s \in Slots : req[s] = c =>
           pc[s] \in {"popped", "refuse", "turnAway", "open", "greet"}

\* When main frees the queue and the sessions' array no thread is left that
\* could use them, no permit is left over, and every client the host took has
\* been answered (game.c:657-675).
OrderlyExit ==
  mainPc = "over" =>
    /\ hostPc = "done" /\ At("exited") = Slots
    /\ queue = <<>> /\ sem = 0 /\ active = {}
    /\ \A c \in Clients : client[c] = "waiting" => c \in Range(pipe)

\* The clients are called in the order in which the host took their requests,
\* each once, and turned away only at shutdown.
Promised == INSTANCE Admission WITH
  line <- queue,
  called <- req,
  playing <- {s \in Slots : pc[s] \in {"open", "greet", "listen", "register", "play",
                                       "disconnect", "unregister"}},
  done <- {c \in Clients :
             client[c] # "idle" /\ c \notin Range(pipe) \cup {hostReq} \cup Range(queue) \cup Range(req)},
  closing <- shutdown

KeepsItsPromise == Promised!Spec

SomebodyVanished == \E c \in Clients : client[c] = "gone"

\* What neither the scheduler nor the client's code sees to: nobody plays for ever.
\* A client can fall silent without leaving (see Session).  As every client plays
\* once, all of them leave if and only if there is always a time when nobody plays.
NobodyPlays == \A c \in Clients : client[c] # "playing"
EveryoneLeaves == []<>NobodyPlays

\* If nobody plays for ever and nobody dies, every request in the queue is
\* answered, before and after a shutdown (game.c:333-367).
QueuedIsAnswered ==
  EveryoneLeaves =>
    \A c \in Clients :
      c \in Range(queue) ~> (client[c] # "waiting" \/ SomebodyVanished)

\* If nobody plays for ever and nobody dies, the server ends after a SIGINT: every
\* game thread gets a permit and main joins them all (game.c:649-659).
ShutdownCompletes ==
  EveryoneLeaves => (shutdown ~> (mainPc = "over" \/ SomebodyVanished))

\* "lock mutex to protect the activeClients array" (game.h:188): a session that
\* leaderBoard reads under the lock has not been freed.
LeaderBoardReadsLiveSessions ==
  [][HostMakesLeaderBoard => \A s \in active : sess[s] = "live"]_vars
=============================================================================
