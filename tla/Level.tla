------------------------------- MODULE Level -------------------------------
(***************************************************************************)
(* One level while it is played (Server/src/board.c, Server/src/game.c).   *)
(*                                                                         *)
(* The threads of a level share a board of cells, each with its own        *)
(* read-write lock: pacman_thread moves the pacman with the commands of    *)
(* the client, every ghost_thread moves a ghost with the commands of its   *)
(* file, and game_thread waits for the pacman's thread, clears             *)
(* board->active and joins the others.  server_thread, which shows the     *)
(* level to the client, moves in module Frames only.                       *)
(*                                                                         *)
(* Grain of atomicity.  A step is a run of statements with one access to   *)
(* shared memory, or a critical section of the pacman's lock, which no     *)
(* thread holds while it waits for another lock.  A move takes two cell    *)
(* locks in two steps, reads the target cell on taking the second, and     *)
(* acts and releases both in a third: what is read may be stale when it is *)
(* acted upon unless the locks prevent it.                                 *)
(***************************************************************************)
EXTENDS Integers, Sequences, FiniteSets

CONSTANTS
  Width, Height,  \* dimensions of the board
  Walls,          \* cells that hold an X in the level file
  Portals,        \* cells that hold an @
  Dots,           \* cells that hold an o
  Pac,            \* the pacman (n_pacmans is 1 in a game)
  Ghosts,         \* the ghosts of the level
  Start,          \* the initial cell of the pacman and of every ghost
  Passo,          \* plays to wait between two commands, PASSO
  Moves,          \* the commands of a ghost's file, a sequence
  Commands,       \* what the client may send: a letter, "Q" stands for EOF too
  AccPoints,      \* points brought from the level before
  CanWin,         \* this is the last level
  NoThread        \* the owner of a lock that is free

Threads == Ghosts \cup {Pac}

\* moves[0 .. n_moves-1] of every ghost
Slots == UNION {{g} \X (1 .. Len(Moves[g])) : g \in Ghosts}

Cells == (0 .. Width - 1) \X (0 .. Height - 1)

\* get_board_index: the position of a cell in the row-major matrix
Index(c) == c[2] * Width + c[1]

Dirs == {"W", "S", "A", "D"}
Ops == Dirs \cup {"R", "T", "C", "other"}
Offset == [d \in Dirs |-> CASE d = "W" -> <<0, -1>> [] d = "S" -> <<0, 1>>
                            [] d = "A" -> <<-1, 0>> [] d = "D" -> <<1, 0>>]
Beside(c, d) == <<c[1] + Offset[d][1], c[2] + Offset[d][2]>>
Behind(c, d) == <<c[1] - Offset[d][1], c[2] - Offset[d][2]>>

\* 'R' picks a direction with rand() % 4
DirsOf(op) == IF op = "R" THEN Dirs ELSE {op} \cap Dirs

(***************************************************************************)
(* What a level file provides.  The files say that a monster is never put  *)
(* in an impossible position (levels/1.m:6-7); here that means off the     *)
(* walls, off the other ghosts and off the pacman.  A ghost's file has a   *)
(* command, and the count of a T is at least 1.                            *)
(***************************************************************************)
ASSUME LevelAssumption ==
  /\ Width \in Nat \ {0} /\ Height \in Nat \ {0}
  /\ Walls \subseteq Cells /\ Portals \subseteq Cells /\ Dots \subseteq Cells
  /\ Walls \cap (Portals \cup Dots) = {}
  /\ Pac \notin Ghosts /\ NoThread \notin Threads
  /\ Start \in [Threads -> Cells \ Walls]
  /\ \A t, u \in Threads : t # u => Start[t] # Start[u]
  /\ Passo \in [Threads -> Nat]
  /\ \A g \in Ghosts : /\ Moves[g] \in Seq([op : Ops, turns : Nat \ {0}])
                       /\ Moves[g] # <<>>
  /\ Commands \subseteq Ops \cup {"Q"}
  /\ AccPoints \in Nat
  /\ CanWin \in BOOLEAN

VARIABLES
  content,   \* board[i].content: "X", "o", "P" or "M"
  dots,      \* the cells whose has_dot is set
  lock,      \* the thread that holds the write lock of a cell
  corrupt,   \* cells whose lock was released once too often
  pc,        \* where each thread is
  pos,       \* pos_x, pos_y of the pacman and of the ghosts
  target,    \* new_x, new_y of the move in progress, or the cell being scanned
  seen,      \* target_content
  waiting,   \* plays left to wait
  cur,       \* current_move % n_moves of a ghost
  left,      \* turns_left of a ghost's commands
  charged,   \* ghost->charged
  dir,       \* direction of the charged move in progress, "none" otherwise
  alive, points, won,  \* the pacman's, under pac->lock
  result,    \* board->result
  active,    \* board->active, under board->board_lock
  game,      \* where the level's game_thread is
  shutdown,  \* set by the SIGINT handler of the host thread
  st,        \* where server_thread is
  shown,     \* accumulated_points of the header, also the points of the session
  frame      \* boardChar as far as it is filled

boardVars == <<content, dots, lock, corrupt>>
moveVars  == <<pos, target, seen, waiting>>
ghostVars == <<cur, left, charged, dir>>
pacVars   == <<alive, points, won, result>>
serverVars == <<st, shown, frame>>
gameVars   == <<active, game, shutdown, serverVars>>
levelVars  == <<boardVars, pc, moveVars, ghostVars, pacVars, active, game, shutdown>>
vars == <<levelVars, serverVars>>

\* load_level: the pacman is drawn first, then the ghosts
LevelInit ==
  /\ content = [c \in Cells |->
                  IF \E g \in Ghosts : Start[g] = c THEN "M"
                  ELSE IF c = Start[Pac] THEN "P"
                  ELSE IF c \in Walls THEN "X" ELSE "o"]
  /\ dots = Dots
  /\ lock = [c \in Cells |-> NoThread]
  /\ corrupt = {}
  /\ pc = [t \in Threads |-> IF t = Pac THEN "check" ELSE "loop"]
  /\ pos = Start
  /\ target = Start
  /\ seen = [t \in Threads |-> "o"]
  /\ waiting = [t \in Threads |-> 0]
  /\ cur = [g \in Ghosts |-> 0]
  /\ left = [s \in Slots |-> Moves[s[1]][s[2]].turns]
  /\ charged = [g \in Ghosts |-> FALSE]
  /\ dir = [g \in Ghosts |-> "none"]
  /\ alive = TRUE /\ points = AccPoints /\ won = FALSE
  /\ result = "CONTINUE_PLAY"
  /\ active = TRUE /\ game = "join pacman" /\ shutdown = FALSE

\* The level without server_thread, which writes nothing of it: it is over at once.
\* FramesInit of Frames has it running.
Init == LevelInit /\ st = "over" /\ shown = AccPoints /\ frame = <<>>

----------------------------------------------------------------------------
(* Steps common to the pacman and the ghosts. *)

GoTo(t, label) == pc' = [pc EXCEPT ![t] = label]

\* Mutant of Aim: the test is_valid_position is forgotten.
AimUnchecked(t, d, label) ==
  /\ target' = [target EXCEPT ![t] = Beside(pos[t], d)]
  /\ GoTo(t, label)

\* The cell next to t in direction d becomes its target, if it is on the board.
Aim(t, d, label) ==
  \/ /\ Beside(pos[t], d) \in Cells
     /\ target' = [target EXCEPT ![t] = Beside(pos[t], d)]
     /\ GoTo(t, label)
  \/ /\ Beside(pos[t], d) \notin Cells
     /\ GoTo(t, "check")
     /\ UNCHANGED target

\* Mutant of HigherFirst: each thread takes its target's lock first.
TargetFirst(t) == TRUE

\* locksOrder compares the indices: is the target's lock the one to take first?
HigherFirst(t) == Index(target[t]) > Index(pos[t])
First(t) == IF HigherFirst(t) THEN target[t] ELSE pos[t]
Second(t) == IF HigherFirst(t) THEN pos[t] ELSE target[t]
Free(c) == lock[c] = NoThread

LockFirst(t) ==
  /\ pc[t] = "lock1"
  /\ Free(First(t))
  /\ lock' = [lock EXCEPT ![First(t)] = t]
  /\ GoTo(t, "lock2")
  /\ UNCHANGED <<content, dots, corrupt, moveVars, ghostVars, pacVars, gameVars>>

\* Mutant of LockSecond: the old cell's lock is enough.
LockSecondUnguarded(t) ==
  /\ pc[t] = "lock2"
  /\ seen' = [seen EXCEPT ![t] = content[target[t]]]
  /\ GoTo(t, "act")
  /\ UNCHANGED <<boardVars, pos, target, waiting, ghostVars, pacVars, gameVars>>

\* Takes the second lock and reads the target.  A thread that already holds
\* the lock gets EDEADLK, which locksOrder does not look at.
LockSecond(t) ==
  /\ pc[t] = "lock2"
  /\ Free(Second(t)) \/ Second(t) = First(t)
  /\ lock' = [lock EXCEPT ![Second(t)] = t]
  /\ seen' = [seen EXCEPT ![t] = content[target[t]]]
  /\ GoTo(t, "act")
  /\ UNCHANGED <<content, dots, corrupt, pos, target, waiting,
                 ghostVars, pacVars, gameVars>>

\* The move of t ends at cell c: unlockOrder, and the locals of the move are
\* gone.  The second unlock of one and the same lock is undefined: it leaves a
\* lock on which a later wrlock returns or never does.
EndMove(t, c) ==
  /\ pos' = [pos EXCEPT ![t] = c]
  /\ target' = [target EXCEPT ![t] = c]
  /\ seen' = [seen EXCEPT ![t] = "o"]
  /\ lock' = [d \in Cells |-> IF d \in {pos[t], target[t]} THEN NoThread ELSE lock[d]]
  /\ corrupt' = IF pos[t] = target[t] THEN corrupt \cup {pos[t]} ELSE corrupt

WantsLock(t, c) ==
  \/ pc[t] = "lock1" /\ c = First(t)
  \/ pc[t] = "lock2" /\ c = Second(t)
  \/ pc[t] = "scan" /\ c = target[t]

HangOnLock(t) ==
  /\ \E c \in corrupt : WantsLock(t, c)
  /\ GoTo(t, "hung")
  /\ UNCHANGED <<boardVars, moveVars, ghostVars, pacVars, gameVars>>

----------------------------------------------------------------------------
(* The pacman's thread: play_board and move_pacman. *)

\* pacman_thread stores what play_board returned and exits.
PacReturns(r) == GoTo(Pac, "done") /\ result' = r

\* play_board looks at alive before a command and after the move.
PacChecks ==
  /\ pc[Pac] = "check"
  /\ \/ alive /\ GoTo(Pac, "read") /\ UNCHANGED result
     \/ ~alive /\ PacReturns("QUIT_GAME")
  /\ UNCHANGED <<boardVars, moveVars, ghostVars, alive, points, won, gameVars>>

\* get_pacman_command returned: Q, the end of the pipe, or any letter on shutdown
PacQuits(cmd) ==
  /\ pc[Pac] = "read"
  /\ cmd = "Q" \/ shutdown
  /\ alive' = FALSE
  /\ PacReturns("QUIT_GAME")
  /\ UNCHANGED <<boardVars, moveVars, ghostVars, points, won, gameVars>>

PacCommanded(cmd) == pc[Pac] = "read" /\ cmd # "Q" /\ ~shutdown

\* Mutant of PacFindsItselfDead: move_pacman does not look at alive, and moves.
PacMovesDead(cmd) ==
  /\ PacCommanded(cmd)
  /\ ~alive
  /\ \E d \in DirsOf(cmd) : Aim(Pac, d, "lock1")
  /\ UNCHANGED <<boardVars, pos, seen, waiting, ghostVars, pacVars, gameVars>>

\* move_pacman's first test: DEAD_PACMAN
PacFindsItselfDead(cmd) ==
  /\ PacCommanded(cmd)
  /\ ~alive
  /\ PacReturns("QUIT_GAME")
  /\ UNCHANGED <<boardVars, moveVars, ghostVars, alive, points, won, gameVars>>

PacWaits(cmd) ==
  /\ PacCommanded(cmd) /\ alive
  /\ waiting[Pac] > 0
  /\ waiting' = [waiting EXCEPT ![Pac] = @ - 1]
  /\ GoTo(Pac, "check")
  /\ UNCHANGED <<boardVars, pos, target, seen, ghostVars, pacVars, gameVars>>

PacAims(cmd) ==
  /\ PacCommanded(cmd) /\ alive
  /\ waiting[Pac] = 0
  /\ waiting' = [waiting EXCEPT ![Pac] = Passo[Pac]]
  /\ \/ DirsOf(cmd) = {} /\ GoTo(Pac, "check") /\ UNCHANGED target
     \/ \E d \in DirsOf(cmd) : Aim(Pac, d, "lock1")
  /\ UNCHANGED <<boardVars, pos, seen, ghostVars, pacVars, gameVars>>

PacActing == pc[Pac] = "act"

\* Mutant of PacEntersPortal: the old cell is not cleared.
PacEntersPortalTwice ==
  /\ PacActing
  /\ target[Pac] \in Portals
  /\ content' = [content EXCEPT ![target[Pac]] = "P"]
  /\ EndMove(Pac, pos[Pac])
  /\ GoTo(Pac, "portal")
  /\ UNCHANGED <<dots, waiting, ghostVars, pacVars, gameVars>>

PacEntersPortal ==
  /\ PacActing
  /\ target[Pac] \in Portals
  /\ content' = [content EXCEPT ![pos[Pac]] = "o", ![target[Pac]] = "P"]
  /\ EndMove(Pac, pos[Pac])
  /\ GoTo(Pac, "portal")
  /\ UNCHANGED <<dots, waiting, ghostVars, pacVars, gameVars>>

PacMeetsWall ==
  /\ PacActing /\ target[Pac] \notin Portals
  /\ seen[Pac] = "X"
  /\ EndMove(Pac, pos[Pac])
  /\ GoTo(Pac, "check")
  /\ UNCHANGED <<content, dots, waiting, ghostVars, pacVars, gameVars>>

PacMeetsGhost ==
  /\ PacActing /\ target[Pac] \notin Portals
  /\ seen[Pac] = "M"
  /\ content' = [content EXCEPT ![pos[Pac]] = "o"]
  /\ alive' = FALSE
  /\ EndMove(Pac, pos[Pac])
  /\ PacReturns("QUIT_GAME")
  /\ UNCHANGED <<dots, waiting, ghostVars, points, won, gameVars>>

\* Mutant of PacMoves: has_dot is not reset.
PacMovesLeavingDot ==
  /\ PacActing /\ target[Pac] \notin Portals
  /\ seen[Pac] \notin {"X", "M"}
  /\ points' = IF target[Pac] \in dots THEN points + 1 ELSE points
  /\ content' = [content EXCEPT ![pos[Pac]] = "o", ![target[Pac]] = "P"]
  /\ EndMove(Pac, target[Pac])
  /\ GoTo(Pac, "check")
  /\ UNCHANGED <<dots, waiting, ghostVars, alive, won, result, gameVars>>

PacMoves ==
  /\ PacActing /\ target[Pac] \notin Portals
  /\ seen[Pac] \notin {"X", "M"}
  /\ points' = IF target[Pac] \in dots THEN points + 1 ELSE points
  /\ dots' = dots \ {target[Pac]}
  /\ content' = [content EXCEPT ![pos[Pac]] = "o", ![target[Pac]] = "P"]
  /\ EndMove(Pac, target[Pac])
  /\ GoTo(Pac, "check")
  /\ UNCHANGED <<waiting, ghostVars, alive, won, result, gameVars>>

\* REACHED_PORTAL, back in play_board
PacLeavesByPortal ==
  /\ pc[Pac] = "portal"
  /\ won' = (won \/ CanWin)
  /\ PacReturns("NEXT_LEVEL")
  /\ UNCHANGED <<boardVars, moveVars, ghostVars, alive, points, gameVars>>

----------------------------------------------------------------------------
(* A ghost's thread: ghost_thread and move_ghost. *)

Command(g) == Moves[g][cur[g] + 1]
NextCommand(g) == cur' = [cur EXCEPT ![g] = (@ + 1) % Len(Moves[g])]

\* Mutant of GhostLeaves: ghost_thread's loop does not look at shutdown.
GhostStays(g) ==
  /\ pc[g] = "loop"
  /\ shutdown
  /\ GoTo(g, "check")
  /\ UNCHANGED <<boardVars, moveVars, ghostVars, pacVars, gameVars>>

GhostLeaves(g) ==
  /\ pc[g] = "loop"
  /\ shutdown
  /\ GoTo(g, "done")
  /\ UNCHANGED <<boardVars, moveVars, ghostVars, pacVars, gameVars>>

GhostWaits(g) ==
  /\ pc[g] = "loop" /\ ~shutdown
  /\ waiting[g] > 0
  /\ waiting' = [waiting EXCEPT ![g] = @ - 1]
  /\ GoTo(g, "check")
  /\ UNCHANGED <<boardVars, pos, target, seen, ghostVars, pacVars, gameVars>>

\* The ghost's turn has come: the start of every command.
GhostPlays(g) ==
  /\ pc[g] = "loop" /\ ~shutdown
  /\ waiting[g] = 0
  /\ waiting' = [waiting EXCEPT ![g] = Passo[g]]
  /\ UNCHANGED <<boardVars, pos, seen, pacVars, gameVars>>

GhostCharges(g) ==
  /\ GhostPlays(g)
  /\ Command(g).op = "C"
  /\ charged' = [charged EXCEPT ![g] = TRUE]
  /\ NextCommand(g)
  /\ GoTo(g, "check")
  /\ UNCHANGED <<target, left, dir>>

\* 'T': turns_left is set back to turns, which parseMonster makes 1.
GhostPauses(g) ==
  /\ GhostPlays(g)
  /\ Command(g).op = "T"
  /\ LET s == <<g, cur[g] + 1>>
     IN \/ /\ left[s] = 1
           /\ NextCommand(g)
           /\ left' = [left EXCEPT ![s] = 1]
        \/ /\ left[s] # 1
           /\ left' = [left EXCEPT ![s] = @ - 1]
           /\ UNCHANGED cur
  /\ GoTo(g, "check")
  /\ UNCHANGED <<target, charged, dir>>

\* An unknown letter is INVALID_MOVE and current_move stays on it.
GhostStumbles(g) ==
  /\ GhostPlays(g)
  /\ Command(g).op = "other"
  /\ GoTo(g, "check")
  /\ UNCHANGED <<target, ghostVars>>

GhostAims(g) ==
  /\ GhostPlays(g)
  /\ ~charged[g]
  /\ \E d \in DirsOf(Command(g).op) : Aim(g, d, "lock1")
  /\ NextCommand(g)
  /\ UNCHANGED <<left, charged, dir>>

\* move_ghost_charged: INVALID_MOVE at the edge of the board, else look ahead.
GhostRushes(g) ==
  /\ GhostPlays(g)
  /\ charged[g]
  /\ charged' = [charged EXCEPT ![g] = FALSE]
  /\ \E d \in DirsOf(Command(g).op) :
       /\ Aim(g, d, "scan")
       /\ dir' = [dir EXCEPT ![g] = IF Beside(pos[g], d) \in Cells THEN d ELSE "none"]
  /\ NextCommand(g)
  /\ UNCHANGED left

\* find_and_kill_pacman finds an alive pacman at c
PacAt(c) == alive /\ pos[Pac] = c

\* move_ghost_charged_direction looks at one cell, under that cell's lock.
Scanning(g) == pc[g] = "scan" /\ Free(target[g])

\* Nothing there: on to the next cell, or rush to the edge of the board.
GhostScansOn(g) ==
  /\ Scanning(g)
  /\ content[target[g]] = "o"
  /\ LET next == Beside(target[g], dir[g])
     IN \/ /\ next \in Cells
           /\ target' = [target EXCEPT ![g] = next]
           /\ UNCHANGED pc
        \/ /\ next \notin Cells
           /\ GoTo(g, "lock1")
           /\ UNCHANGED target
  /\ UNCHANGED <<boardVars, pos, seen, waiting, ghostVars, pacVars, gameVars>>

\* Mutant of GhostStopsShort: stops on the obstacle, *new_y = i.
GhostStopsOnIt(g) ==
  /\ Scanning(g)
  /\ content[target[g]] \in {"X", "M"}
  /\ GoTo(g, "lock1")
  /\ UNCHANGED <<boardVars, moveVars, ghostVars, pacVars, gameVars>>

GhostStopsShort(g) ==
  /\ Scanning(g)
  /\ content[target[g]] \in {"X", "M"}
  /\ target' = [target EXCEPT ![g] = Behind(@, dir[g])]
  /\ GoTo(g, "lock1")
  /\ UNCHANGED <<boardVars, pos, seen, waiting, ghostVars, pacVars, gameVars>>

GhostSpotsPac(g) ==
  /\ Scanning(g)
  /\ content[target[g]] = "P"
  /\ IF PacAt(target[g])
       THEN alive' = FALSE /\ content' = [content EXCEPT ![target[g]] = "o"]
       ELSE UNCHANGED <<alive, content>>
  /\ GoTo(g, "lock1")
  /\ UNCHANGED <<dots, lock, corrupt, moveVars, ghostVars, points, won, result,
                 gameVars>>

\* Mutant of GhostMeetsObstacle: only walls stop a ghost; the M is overwritten.
GhostMeetsWallOnly(g) ==
  /\ pc[g] = "act" /\ dir[g] = "none"
  /\ seen[g] \in {"X", "M"}
  /\ IF seen[g] = "X" THEN EndMove(g, pos[g]) /\ UNCHANGED content
     ELSE /\ EndMove(g, target[g])
          /\ content' = [content EXCEPT ![pos[g]] = "o", ![target[g]] = "M"]
  /\ GoTo(g, "check")
  /\ UNCHANGED <<dots, waiting, ghostVars, pacVars, gameVars>>

GhostMeetsObstacle(g) ==
  /\ pc[g] = "act" /\ dir[g] = "none"
  /\ seen[g] \in {"X", "M"}
  /\ EndMove(g, pos[g])
  /\ GoTo(g, "check")
  /\ UNCHANGED <<content, dots, waiting, ghostVars, pacVars, gameVars>>

\* The end of a plain and of a charged move; only the plain one, which has
\* looked at the target under the locks, may kill here.
GhostMoves(g) ==
  /\ pc[g] = "act"
  /\ dir[g] = "none" => seen[g] \notin {"X", "M"}
  /\ alive' = (alive /\ ~(dir[g] = "none" /\ seen[g] = "P" /\ PacAt(target[g])))
  /\ content' = [content EXCEPT ![pos[g]] = "o", ![target[g]] = "M"]
  /\ dir' = [dir EXCEPT ![g] = "none"]
  /\ EndMove(g, target[g])
  /\ GoTo(g, "check")
  /\ UNCHANGED <<dots, waiting, cur, left, charged, points, won,
                 result, gameVars>>

GhostChecks(g) ==
  /\ pc[g] = "check"
  /\ GoTo(g, IF active THEN "loop" ELSE "done")
  /\ UNCHANGED <<boardVars, moveVars, ghostVars, pacVars, gameVars>>

----------------------------------------------------------------------------
(* game_thread, the signal and the specification. *)

\* Mutant of GameStops: active is not cleared.
GameLeavesActive ==
  /\ game = "join pacman"
  /\ pc[Pac] = "done"
  /\ game' = "join ghosts"
  /\ UNCHANGED <<boardVars, pc, moveVars, ghostVars, pacVars, active, shutdown, serverVars>>

\* pthread_join(pacTid), then active = 0 under board_lock
GameStops ==
  /\ game = "join pacman"
  /\ pc[Pac] = "done"
  /\ active' = FALSE
  /\ game' = "join ghosts"
  /\ UNCHANGED <<boardVars, pc, moveVars, ghostVars, pacVars, shutdown, serverVars>>

\* pthread_join(serverId) and stop_ghost_threads, then the switch on the result
\* unloads the level
GameUnloads ==
  /\ game = "join ghosts"
  /\ st = "over"
  /\ \A g \in Ghosts : pc[g] = "done"
  /\ game' = "over"
  /\ UNCHANGED <<boardVars, pc, moveVars, ghostVars, pacVars, active, shutdown, serverVars>>

handle_shutdown ==
  /\ ~shutdown
  /\ shutdown' = TRUE
  /\ UNCHANGED <<boardVars, pc, moveVars, ghostVars, pacVars, active, game, serverVars>>

\* play_board once a command has been read; reading is up to the client
PacReads ==
  \E cmd \in Commands : \/ PacQuits(cmd)
                        \/ PacFindsItselfDead(cmd)
                        \/ PacWaits(cmd)
                        \/ PacAims(cmd)
PacRuns ==
  \/ PacChecks
  \/ LockFirst(Pac) \/ LockSecond(Pac)
  \/ PacEntersPortal \/ PacMeetsWall \/ PacMeetsGhost \/ PacMoves
  \/ PacLeavesByPortal
GhostRuns(g) ==
  \/ GhostLeaves(g) \/ GhostWaits(g) \/ GhostCharges(g) \/ GhostPauses(g)
  \/ GhostStumbles(g) \/ GhostAims(g) \/ GhostRushes(g)
  \/ GhostScansOn(g) \/ GhostStopsShort(g) \/ GhostSpotsPac(g)
  \/ LockFirst(g) \/ LockSecond(g)
  \/ GhostMeetsObstacle(g) \/ GhostMoves(g)
  \/ GhostChecks(g)
GameRuns == GameStops \/ GameUnloads

\* The level has been unloaded: nothing of it is left to run.
LevelOver == game = "over" /\ UNCHANGED vars

Next ==
  \/ PacReads \/ PacRuns
  \/ \E g \in Ghosts : GhostRuns(g)
  \/ \E t \in Threads : HangOnLock(t)
  \/ GameRuns
  \/ handle_shutdown
  \/ LevelOver

\* The scheduler runs every thread that can run; the client and the user who
\* sends SIGINT need not do anything.
Fairness ==
  /\ WF_vars(PacRuns)
  /\ \A g \in Ghosts : WF_vars(GhostRuns(g))
  /\ WF_vars(GameRuns)

Spec == Init /\ [][Next]_vars /\ Fairness

----------------------------------------------------------------------------
(* What must hold. *)

Contents == {"X", "o", "P", "M"}
Labels == {"check", "read", "loop", "scan", "lock1", "lock2", "act", "portal",
           "done", "hung"}

BoardType ==
  /\ content \in [Cells -> Contents]
  /\ dots \subseteq Dots
  /\ lock \in [Cells -> Threads \cup {NoThread}]
  /\ corrupt \subseteq Cells
MoveType ==
  /\ pos \in [Threads -> Cells]
  /\ target \in [Threads -> Cells]
  /\ seen \in [Threads -> Contents]
  /\ waiting \in [Threads -> Nat]
GhostType ==
  /\ cur \in [Ghosts -> Nat]
  /\ \A g \in Ghosts : cur[g] < Len(Moves[g])
  /\ left \in [Slots -> Nat \ {0}]
  /\ charged \in [Ghosts -> BOOLEAN]
  /\ dir \in [Ghosts -> Dirs \cup {"none"}]
PacType ==
  /\ alive \in BOOLEAN /\ points \in Nat /\ won \in BOOLEAN
  /\ result \in {"CONTINUE_PLAY", "NEXT_LEVEL", "QUIT_GAME"}
GameType ==
  /\ active \in BOOLEAN /\ shutdown \in BOOLEAN
  /\ game \in {"join pacman", "join ghosts", "over"}

\* Every variable has its type; positions and targets stay on the board, and a
\* ghost's next command is one of its file.
TypeOK ==
  /\ pc \in [Threads -> Labels]
  /\ BoardType /\ MoveType /\ GhostType /\ PacType /\ GameType

\* What a thread read of its target is still there when it acts on it: no
\* other thread wrote the cell between the look and the move.
FreshLook == \A t \in Threads : pc[t] = "act" => seen[t] = content[target[t]]

\* No move, charged or not, takes a wall away or puts anybody on one.
WallsStand ==
  /\ \A c \in Cells : content[c] = "X" <=> c \in Walls
  /\ \A t \in Threads : pos[t] \notin Walls

\* The pacman plays on: alive, and not yet through the portal.
InPlay == alive /\ pc[Pac] \notin {"portal", "done"}

NoCharge == \A g \in Ghosts : \A i \in 1 .. Len(Moves[g]) : Moves[g][i].op # "C"

\* While the pacman plays, and if no ghost of the level charges, the matrix and
\* the positions agree: one P, under the pacman, an M under each ghost and
\* nowhere else, and no two on one cell - whatever moves are in progress.
BoardConsistent ==
  NoCharge /\ InPlay =>
    /\ \A c \in Cells : content[c] = "P" <=> c = pos[Pac]
    /\ \A c \in Cells : content[c] = "M" <=> \E g \in Ghosts : pos[g] = c
    /\ \A g, h \in Ghosts : g # h => pos[g] # pos[h]

\* A dot is worth one point, once: points and dots left always add up, also
\* when the pacman is killed in the middle of the move that collects one.
PointsConserved == points = AccPoints + Cardinality(Dots \ dots)

\* t waits for a lock that u holds.
WaitsFor(t, u) == u # t /\ \E c \in Cells : WantsLock(t, c) /\ lock[c] = u

\* No threads wait for each other in a circle, however many move towards or past
\* each other, charge, or hold one lock while they wait for the next: in every
\* group of threads there is one that no other of the group keeps from its lock.
NobodyWaitsInACircle ==
  \A S \in SUBSET Threads : S # {} => \E t \in S : \A u \in S : ~WaitsFor(t, u)

\* A pacman found dead outside a move begins no other, and neither collects a
\* dot nor wins: a kill is overtaken by at most the one move in progress.
Moving == {"lock1", "lock2", "act", "portal"}
DeathIsFinal ==
  [][~alive /\ pc[Pac] \notin Moving =>
       pc'[Pac] \notin Moving /\ UNCHANGED <<pos[Pac], points, dots, won>>]_vars

\* Once the pacman has entered the portal no ghost can kill it any more,
\* although the ghosts still run and its pos_x, pos_y are those of the old cell.
PortalIsSafe ==
  [][pc[Pac] = "portal" \/ result = "NEXT_LEVEL" => alive' = alive]_vars

\* When the pacman's thread has returned, the ghosts' threads end too and
\* game_thread can unload the level.
LevelEnds == pc[Pac] = "done" ~> game = "over"

\* SIGINT ends every ghost's thread, even if the client sends nothing more.
ShutdownStopsGhosts == shutdown ~> \A g \in Ghosts : pc[g] = "done"

\* README.md:24, "dies when colliding with a ghost": a pacman in play shares
\* its cell with no ghost.
CollisionKills == InPlay => \A g \in Ghosts : pos[g] # pos[Pac]

\* README.md:24 again: a pacman that a ghost has killed does not advance to the
\* next level.
NoPosthumousAdvance == result = "NEXT_LEVEL" => alive

\* levels/1.m:12, "T (espera um numero de jogadas)": whenever a ghost is not at
\* a T n, the count of that T is n for the next time round.
WaitRestored ==
  \A s \in Slots : cur[s[1]] # s[2] - 1 => left[s] = Moves[s[1]][s[2]].turns

\* What a level is to Chase: how the pacman fares, and which cells are near.
Fate ==
  IF InPlay THEN "playing"
  ELSE IF alive THEN "escaped"
  ELSE IF pc[Pac] \in {"lock1", "lock2", "act"} THEN "dying" ELSE "lost"
Near == [c \in Cells |-> {Beside(c, d) : d \in Dirs} \cap Cells]
Rules == INSTANCE Chase WITH fate <- Fate, Neighbours <- Near

\* The threads, their locks and the looks under them add up to the game of Chase:
\* every move of the pacman or of a ghost takes effect in one step, on the cells as
\* they are at that step, with README.md:24 as its rules.
PlaysByTheRules == Rules!Spec
=============================================================================
