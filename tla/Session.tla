------------------------------ MODULE Session ------------------------------
(***************************************************************************)
(* One session, from the moment a game_thread has taken the client's       *)
(* request from the queue: the client's main and receiver threads          *)
(* (client_main.c, api.c) and, in the server, the game, pacman and server  *)
(* threads of the session (game.c, api2.c).  The two sides open the two    *)
(* pipes between them; then commands go one way, board updates the other.  *)
(*                                                                         *)
(* An update is its game_over and victory fields; a command is "Q" or any  *)
(* other one, "move"; "bye" is the byte pacman_disconnect sends.  What a   *)
(* move does to the board is module Level's subject: here the pacman goes  *)
(* on, dies or reaches the portal.                                         *)
(***************************************************************************)
EXTENDS Naturals, Sequences

CONSTANTS
  Levels,    \* the number of levels
  ReqCap,    \* a bound: commands beyond it are not recorded
  NotifCap   \* the updates that fit in the notification pipe

ASSUME SessionAssumption ==
  /\ Levels \in Nat \ {0}
  /\ ReqCap \in Nat \ {0}
  /\ NotifCap \in Nat \ {0}

VARIABLES
  input,       \* where the commands come from: "player", "file" or an "emptyFile"
  timed,       \* the levels have a TEMPO above 0
  main,        \* where the client's main is
  recv,        \* where its receiver_thread is
  got,         \* the update the receiver handles, or Eof
  ready,       \* board_ready
  stop,        \* stop_execution
  sigint,      \* SIGINT_received
  clientOpen,  \* the client's ends of the pipes are open
  serverOpen,  \* the server's ends are
  req,         \* the request pipe
  notif,       \* the notification pipe
  gt,          \* where game_thread is
  level,       \* indexLevel + 1
  active,      \* board->active
  result,      \* board->result
  pt,          \* where pacman_thread is
  cmd,         \* the command it plays, "move" between two commands
  alive,       \* pacman->alive
  won,         \* pacman->won
  st,          \* where server_thread is
  shot,        \* the update it is sending
  shutdown

mainVars == <<input, timed, main>>
recvVars == <<recv, got, ready, stop>>
gameVars == <<gt, level, active>>
pacVars == <<pt, cmd, result, alive, won>>
servVars == <<st, shot>>
clientVars == <<mainVars, recvVars, sigint, clientOpen>>
serverVars == <<gameVars, pacVars, servVars, serverOpen, shutdown>>
vars == <<clientVars, req, notif, serverVars>>

Updates == [over : BOOLEAN, victory : BOOLEAN]
Eof == [over |-> FALSE, victory |-> FALSE, eof |-> TRUE]
NoUpdate == [over |-> FALSE, victory |-> FALSE]

Init ==
  /\ input \in {"player", "file", "emptyFile"} /\ timed \in BOOLEAN
  /\ main = "openNotif"
  /\ recv = "none" /\ got = NoUpdate /\ ready = FALSE /\ stop = FALSE
  /\ sigint = FALSE /\ clientOpen = TRUE
  /\ req = <<>> /\ notif = <<>>
  /\ gt = "look" /\ level = 1 /\ active = FALSE
  /\ pt = "none" /\ cmd = "move" /\ result = "none" /\ alive = TRUE /\ won = FALSE
  /\ st = "none" /\ shot = NoUpdate
  /\ serverOpen = TRUE /\ shutdown = FALSE

\* The process and all its memory are gone, its ends of the pipes closed.
ClientIsGone ==
  /\ main' = "over" /\ recv' = "over" /\ got' = NoUpdate
  /\ ready' = FALSE /\ stop' = FALSE /\ sigint' = FALSE /\ clientOpen' = FALSE

----------------------------------------------------------------------------
(* The handshake: pacman_connect on one side, game_thread and innit_session  *)
(* on the other.  The open of a pipe returns when both sides are at it.      *)

Connecting == {"openNotif", "response", "openReq"}

\* The test of shutdown before the client is welcomed.
GameLooksAtShutdown ==
  /\ gt = "look"
  /\ gt' = IF shutdown THEN "refuse" ELSE "accept"
  /\ UNCHANGED <<clientVars, req, notif, level, active, pacVars, servVars, serverOpen, shutdown>>

\* A mutant: innit_session opens the request pipe first.
GameOpensReqFirst ==
  CASE gt = "accept" -> "req" [] gt = "openReq" -> "notif" [] gt = "refuse" -> "notif"
    [] OTHER -> "none"

\* The pipe each side is about to open.
GameOpens ==
  CASE gt \in {"accept", "refuse"} -> "notif" [] gt = "openReq" -> "req"
    [] OTHER -> "none"
MainOpens ==
  CASE main = "openNotif" -> "notif" [] main = "openReq" -> "req" [] OTHER -> "none"

NotifPipeOpens ==
  /\ MainOpens = "notif" /\ GameOpens = "notif"
  /\ main' = "response"
  /\ gt' = IF gt = "refuse" THEN "sayNo" ELSE "sayYes"
  /\ UNCHANGED <<input, timed, recvVars, sigint, clientOpen, req, notif, level, active,
                 pacVars, servVars, serverOpen, shutdown>>

\* A client that died in between makes the write fail, and innit_session frees
\* the session with which game_thread goes on: undefined from there.
GameWelcomes ==
  /\ gt = "sayYes"
  /\ gt' = IF clientOpen THEN "openReq" ELSE "undefined"
  /\ UNCHANGED <<clientVars, req, notif, level, active, pacVars, servVars, serverOpen, shutdown>>

\* The answer -1; the pipe is closed and the game_thread is back at the queue.
GameRefuses ==
  /\ gt = "sayNo"
  /\ gt' = "over" /\ serverOpen' = FALSE
  /\ UNCHANGED <<clientVars, req, notif, level, active, pacVars, servVars, shutdown>>

MainIsWelcome ==
  /\ main = "response"
  /\ gt \in {"openReq", "undefined"}
  /\ main' = "openReq"
  /\ UNCHANGED <<input, timed, recvVars, sigint, clientOpen, req, notif, serverVars>>

\* pacman_connect and then the client's main return 1.
MainIsRefused ==
  /\ main = "response"
  /\ ~serverOpen
  /\ ClientIsGone
  /\ UNCHANGED <<input, timed, req, notif, serverVars>>

\* The client starts its receiver_thread, the server the first level.
ReqPipeOpens ==
  /\ MainOpens = "req" /\ GameOpens = "req"
  /\ main' = "wait" /\ recv' = "read"
  /\ gt' = "start"
  /\ UNCHANGED <<input, timed, got, ready, stop, sigint, clientOpen, req, notif, level,
                 active, pacVars, servVars, serverOpen, shutdown>>

\* SIGINT interrupts an open or a read, and pacman_connect returns 1.
ConnectIsInterrupted ==
  /\ main \in Connecting
  /\ ClientIsGone
  /\ UNCHANGED <<input, timed, req, notif, serverVars>>

----------------------------------------------------------------------------
(* The client's main thread. *)

\* pthread_cond_wait
MainWakes ==
  /\ main = "wait"
  /\ ready
  /\ main' = "input"
  /\ UNCHANGED <<input, timed, recvVars, sigint, clientOpen, req, notif, serverVars>>

\* A mutant: a SIGINT ends the loop in both modes.
MainBreaksOnSigint ==
  /\ main = "input"
  /\ main' = IF stop \/ sigint THEN "join" ELSE "send"
  /\ UNCHANGED <<input, timed, recvVars, sigint, clientOpen, req, notif, serverVars>>

\* Looks at stop_execution and gets the next input.  A SIGINT ends the loop only
\* if the player types; a file is read again from its start, and one without any
\* command gives none.
MainGetsInput ==
  /\ main = "input"
  /\ stop \/ input # "emptyFile"
  /\ main' = IF stop \/ (input = "player" /\ sigint) THEN "join" ELSE "send"
  /\ UNCHANGED <<input, timed, recvVars, sigint, clientOpen, req, notif, serverVars>>

\* pacman_play; a write to a pipe nobody reads fails and is ignored.  The pipe
\* holds 32768 commands and is taken never to fill: at the bound a command is
\* not recorded, as if the client sent it later.
MainSends ==
  /\ main = "send"
  /\ main' = "input"
  /\ IF serverOpen /\ Len(req) < ReqCap
       THEN \E c \in (IF sigint THEN {"Q"} ELSE {"Q", "move"}) : req' = Append(req, c)
       ELSE UNCHANGED req
  /\ UNCHANGED <<input, timed, recvVars, sigint, clientOpen, notif, serverVars>>

MainJoins ==
  /\ main = "join"
  /\ recv = "over"
  /\ main' = "bye"
  /\ UNCHANGED <<input, timed, recvVars, sigint, clientOpen, req, notif, serverVars>>

\* pacman_disconnect and the end of the process.
MainDisconnects ==
  /\ main = "bye"
  /\ ClientIsGone
  /\ req' = IF serverOpen THEN Append(req, "bye") ELSE req
  /\ UNCHANGED <<input, timed, notif, serverVars>>

----------------------------------------------------------------------------
(* receiver_thread. *)

\* receive_board_update: an update, or the end of the pipe.
ReceiverReads ==
  /\ recv = "read"
  /\ \/ /\ notif # <<>>
        /\ got' = Head(notif)
        /\ notif' = Tail(notif)
     \/ /\ notif = <<>> /\ ~serverOpen
        /\ got' = Eof
        /\ UNCHANGED notif
  /\ recv' = "got"
  /\ UNCHANGED <<mainVars, ready, stop, sigint, clientOpen, req, serverVars>>

ReceiverStops ==
  /\ recv = "got"
  /\ got = Eof \/ got.over \/ got.victory \/ sigint
  /\ stop' = TRUE
  /\ recv' = "over" /\ got' = NoUpdate
  /\ UNCHANGED <<mainVars, ready, sigint, clientOpen, req, notif, serverVars>>

ReceiverDraws ==
  /\ recv = "got"
  /\ got # Eof /\ ~got.over /\ ~got.victory /\ ~sigint
  /\ ready' = (ready \/ timed)
  /\ recv' = "read" /\ got' = NoUpdate
  /\ UNCHANGED <<mainVars, stop, sigint, clientOpen, req, notif, serverVars>>

handle_SIGINT ==
  /\ main # "over"
  /\ sigint' = TRUE
  /\ UNCHANGED <<mainVars, recvVars, clientOpen, req, notif, serverVars>>

\* The client is killed.
ClientDies ==
  /\ main # "over"
  /\ ClientIsGone
  /\ UNCHANGED <<input, timed, req, notif, serverVars>>

----------------------------------------------------------------------------
(* game_thread. *)

\* level_copy, load_level and the start of the threads.
GameStarts ==
  /\ gt = "start"
  /\ gt' = "joinPacman"
  /\ active' = TRUE /\ result' = "none"
  /\ alive' = TRUE /\ won' = FALSE
  /\ pt' = "look" /\ st' = "loop"
  /\ UNCHANGED <<clientVars, req, notif, level, cmd, shot, serverOpen, shutdown>>

\* Joins pacman_thread and tells the other threads of the level to stop.
GameDeactivates ==
  /\ gt = "joinPacman"
  /\ pt = "over"
  /\ active' = FALSE
  /\ gt' = "joinServer"
  /\ UNCHANGED <<clientVars, req, notif, level, pacVars, servVars, serverOpen, shutdown>>

\* A mutant: there is always a next level.
GameJoinsServerAndGoesOn ==
  /\ gt = "joinServer"
  /\ st = "over"
  /\ pt' = "none" /\ st' = "none"
  /\ \/ result = "next" /\ level' = level + 1 /\ gt' = "start"
     \/ result = "quit" /\ gt' = "disconnect" /\ UNCHANGED level
  /\ UNCHANGED <<clientVars, req, notif, active, cmd, result, alive, won, shot, serverOpen, shutdown>>

\* Joins server_thread and the ghosts, and unloads the level.
GameJoinsServer ==
  /\ gt = "joinServer"
  /\ st = "over"
  /\ pt' = "none" /\ st' = "none"
  /\ \/ /\ result = "next" /\ level < Levels
        /\ level' = level + 1
        /\ gt' = "start"
     \/ /\ result = "quit" \/ level = Levels
        /\ gt' = "disconnect"
        /\ UNCHANGED level
  /\ UNCHANGED <<clientVars, req, notif, active, cmd, result, alive, won, shot, serverOpen, shutdown>>

\* A mutant: the pipes stay open.
GameLeavesPipesOpen ==
  /\ gt = "disconnect"
  /\ req # <<>> \/ ~clientOpen
  /\ gt' = "over"
  /\ UNCHANGED <<clientVars, req, notif, level, active, pacVars, servVars, serverOpen, shutdown>>

\* disconnect_session reads a byte, whatever it is, before it closes the pipes.
GameDisconnects ==
  /\ gt = "disconnect"
  /\ req # <<>> \/ ~clientOpen
  /\ serverOpen' = FALSE
  /\ gt' = "over"
  /\ UNCHANGED <<clientVars, req, notif, level, active, pacVars, servVars, shutdown>>

----------------------------------------------------------------------------
(* pacman_thread: play_board in a loop. *)

PacmanEnds(r) == pt' = "over" /\ result' = r

PacmanLooks ==
  /\ pt = "look"
  /\ \/ alive /\ pt' = "read" /\ UNCHANGED result
     \/ ~alive /\ PacmanEnds("quit")
  /\ UNCHANGED <<clientVars, req, notif, gameVars, cmd, alive, won, servVars, serverOpen, shutdown>>

\* A mutant: the end of the pipe is not an end of the game.
PacmanReadsNothing ==
  /\ pt = "read"
  /\ \/ /\ req # <<>>
        /\ cmd' = IF Head(req) = "bye" THEN "move" ELSE Head(req)
        /\ req' = Tail(req)
     \/ /\ req = <<>> /\ ~clientOpen
        /\ cmd' = "move"
        /\ UNCHANGED req
  /\ pt' = "act"
  /\ UNCHANGED <<clientVars, notif, gameVars, result, alive, won, servVars, serverOpen, shutdown>>

\* get_pacman_command: two bytes, so the farewell is the end of the pipe too.
PacmanReads ==
  /\ pt = "read"
  /\ \/ /\ req # <<>>
        /\ cmd' = IF Head(req) = "bye" THEN "eof" ELSE Head(req)
        /\ req' = Tail(req)
     \/ /\ req = <<>> /\ ~clientOpen
        /\ cmd' = "eof"
        /\ UNCHANGED req
  /\ pt' = "act"
  /\ UNCHANGED <<clientVars, notif, gameVars, result, alive, won, servVars, serverOpen, shutdown>>

PacmanQuits ==
  /\ pt = "act"
  /\ cmd \in {"Q", "eof"} \/ shutdown
  /\ alive' = FALSE
  /\ cmd' = "move"
  /\ PacmanEnds("quit")
  /\ UNCHANGED <<clientVars, req, notif, gameVars, won, servVars, serverOpen, shutdown>>

\* A mutant: the pacman does not look at shutdown.
PacmanMovesAnyway ==
  /\ pt = "act"
  /\ cmd = "move"
  /\ \/ alive /\ pt' = "moving" /\ UNCHANGED result
     \/ ~alive /\ PacmanEnds("quit")
  /\ UNCHANGED <<clientVars, req, notif, gameVars, cmd, alive, won, servVars, serverOpen, shutdown>>

\* move_pacman looks whether the pacman is alive before it locks the cells.
PacmanMoves ==
  /\ pt = "act"
  /\ cmd = "move" /\ ~shutdown
  /\ \/ alive /\ pt' = "moving" /\ UNCHANGED result
     \/ ~alive /\ PacmanEnds("quit")
  /\ UNCHANGED <<clientVars, req, notif, gameVars, cmd, alive, won, servVars, serverOpen, shutdown>>

PacmanGoesOn ==
  /\ pt = "moving"
  /\ pt' = "look"
  /\ UNCHANGED <<clientVars, req, notif, gameVars, cmd, result, alive, won, servVars, serverOpen, shutdown>>

PacmanMeetsGhost ==
  /\ pt = "moving"
  /\ alive' = FALSE
  /\ PacmanEnds("quit")
  /\ UNCHANGED <<clientVars, req, notif, gameVars, cmd, won, servVars, serverOpen, shutdown>>

\* A mutant: every portal is a victory.
PacmanWinsAnywhere ==
  /\ pt = "moving"
  /\ won' = TRUE
  /\ PacmanEnds("next")
  /\ UNCHANGED <<clientVars, req, notif, gameVars, cmd, alive, servVars, serverOpen, shutdown>>

PacmanEntersPortal ==
  /\ pt = "moving"
  /\ won' = (level = Levels)
  /\ PacmanEnds("next")
  /\ UNCHANGED <<clientVars, req, notif, gameVars, cmd, alive, servVars, serverOpen, shutdown>>

\* A ghost kills the pacman while it is on the board.
GhostKills ==
  /\ pt \in {"look", "read", "act", "moving"}
  /\ alive
  /\ alive' = FALSE
  /\ UNCHANGED <<clientVars, req, notif, gameVars, pt, cmd, result, won, servVars, serverOpen, shutdown>>

----------------------------------------------------------------------------
(* server_thread. *)

ServerLooksAtShutdown ==
  /\ st = "loop"
  /\ st' = IF shutdown THEN "over" ELSE "snap"
  /\ UNCHANGED <<clientVars, req, notif, gameVars, pacVars, shot, serverOpen, shutdown>>

ServerTakesSnapshot ==
  /\ st = "snap"
  /\ shot' = [over |-> ~alive, victory |-> won]
  /\ st' = "write"
  /\ UNCHANGED <<clientVars, req, notif, gameVars, pacVars, serverOpen, shutdown>>

\* Blocks while the pipe is full; ends if the client is gone.
ServerWrites ==
  /\ st = "write"
  /\ \/ /\ clientOpen /\ Len(notif) < NotifCap
        /\ notif' = Append(notif, shot)
        /\ st' = "check"
     \/ /\ ~clientOpen
        /\ st' = "over"
        /\ UNCHANGED notif
  /\ shot' = NoUpdate
  /\ UNCHANGED <<clientVars, req, gameVars, pacVars, serverOpen, shutdown>>

ServerLooksAtActive ==
  /\ st = "check"
  /\ st' = IF active THEN "loop" ELSE "over"
  /\ UNCHANGED <<clientVars, req, notif, gameVars, pacVars, shot, serverOpen, shutdown>>

handle_shutdown ==
  /\ gt # "over" /\ ~shutdown
  /\ shutdown' = TRUE
  /\ UNCHANGED <<clientVars, req, notif, gameVars, pacVars, servVars, serverOpen>>

----------------------------------------------------------------------------

Over == main = "over" /\ gt = "over" /\ UNCHANGED vars

HandshakeRuns ==
  \/ GameLooksAtShutdown \/ NotifPipeOpens \/ GameWelcomes \/ GameRefuses
  \/ MainIsWelcome \/ MainIsRefused \/ ReqPipeOpens
MainRuns ==
  MainWakes \/ MainGetsInput \/ MainSends \/ MainJoins \/ MainDisconnects
ReceiverRuns == ReceiverReads \/ ReceiverStops \/ ReceiverDraws
GameRuns ==
  GameStarts \/ GameDeactivates \/ GameJoinsServer \/ GameDisconnects
PacmanRuns ==
  \/ PacmanLooks \/ PacmanReads \/ PacmanQuits \/ PacmanMoves
  \/ PacmanGoesOn \/ PacmanMeetsGhost \/ PacmanEntersPortal
ServerRuns ==
  ServerLooksAtShutdown \/ ServerTakesSnapshot \/ ServerWrites \/ ServerLooksAtActive

Next ==
  \/ HandshakeRuns \/ ConnectIsInterrupted
  \/ MainRuns \/ ReceiverRuns \/ handle_SIGINT \/ ClientDies
  \/ GameRuns \/ PacmanRuns \/ GhostKills \/ ServerRuns \/ handle_shutdown
  \/ Over

\* Every thread that can run does; signals, deaths and ghosts are up to chance.
Fairness ==
  /\ WF_vars(HandshakeRuns)
  /\ WF_vars(MainRuns)
  /\ WF_vars(ReceiverRuns)
  /\ WF_vars(GameRuns)
  /\ WF_vars(PacmanRuns)
  /\ WF_vars(ServerRuns)

Spec == Init /\ [][Next]_vars /\ Fairness

----------------------------------------------------------------------------
(* Properties. *)

\* The type invariant; the pipes hold no more than fits in them.
TypeOK ==
  /\ input \in {"player", "file", "emptyFile"} /\ timed \in BOOLEAN
  /\ ready \in BOOLEAN /\ stop \in BOOLEAN /\ sigint \in BOOLEAN
  /\ clientOpen \in BOOLEAN /\ serverOpen \in BOOLEAN
  /\ main \in Connecting \cup {"wait", "input", "send", "join", "bye", "over"}
  /\ recv \in {"none", "read", "got", "over"} /\ got \in Updates \cup {Eof}
  /\ req \in Seq({"Q", "move", "bye"}) /\ Len(req) <= ReqCap + 1
  /\ notif \in Seq(Updates) /\ Len(notif) <= NotifCap
  /\ gt \in {"look", "accept", "refuse", "sayYes", "sayNo", "openReq", "undefined",
             "start", "joinPacman", "joinServer", "disconnect", "over"}
  /\ level \in 1 .. Levels /\ active \in BOOLEAN
  /\ pt \in {"none", "look", "read", "act", "moving", "over"}
  /\ cmd \in {"Q", "move", "eof"} /\ result \in {"none", "next", "quit"}
  /\ alive \in BOOLEAN /\ won \in BOOLEAN
  /\ st \in {"none", "loop", "snap", "write", "check", "over"}
  /\ shot \in Updates /\ shutdown \in BOOLEAN

\* An update that says victory is true: the pacman has passed the portal of the
\* last level, and no other level follows (game.c:116-122, 263, client_main.c:45).
VictoryIsTrue ==
  (shot.victory \/ got.victory \/ \E i \in DOMAIN notif : notif[i].victory)
    => level = Levels /\ result = "next"

\* Neither side waits for ever for the other to open a pipe: a client is welcomed,
\* refused, interrupted or killed (api.c:60-102, api2.c:48-64, game.c:339-346).
ConnectReturns == main \in Connecting ~> main \notin Connecting

\* The game_thread has the session's pipes open and the session not freed.
Established == {"start", "joinPacman", "joinServer", "disconnect", "over"}

\* A client that is gone, however it went, frees a game thread that had finished
\* the handshake with it: the thread's reads see the end of the pipe and its
\* writes fail (game.c:105, 273-283, api2.c:82-88).
ClientGoneFreesGame == (main = "over" /\ gt \in Established) ~> gt = "over"

\* A client that never sends another command, for which the server may wait: the
\* commands file has none, or the player has interrupted it and its main waits
\* for the receiver without having told the server.
FallsSilent == input = "emptyFile" \/ (input = "player" /\ sigint)

\* Once the client has drawn a board, a game that ends with QUIT_GAME ends both
\* sides, whether or not a last update told the client so: one side at least
\* always notices the other (game.c:390-411, client_main.c:45-51, 146-208).
QuitEndsBoth ==
  (ready /\ pt = "over" /\ result = "quit")
    ~> ((main = "over" /\ gt = "over") \/ FallsSilent)

\* Once it has drawn a board, a client that reads its commands from a file ends
\* after a SIGINT (client_main.c:45, 193-195).
SigintEndsClient == (ready /\ sigint /\ input = "file") ~> main = "over"

\* Once the client has drawn a board, a shutdown ends the session
\* (game.c:105, 254).
ShutdownEndsSession == (ready /\ shutdown) ~> (gt = "over" \/ FallsSilent)

\* "wake up main thread" (client_main.c:61): the client's main does not wait for
\* its first board for ever.
MainIsWoken == main = "wait" ~> main # "wait"
=============================================================================
