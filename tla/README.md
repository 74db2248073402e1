# PacmanIST in TLA+

TLA+ modules for the client/server Pacman of this repository (`Server/`,
`Client/`), the TLC configurations that check them, and proofs that TLAPS
checks. File and line references are to the sources of this commit; `board.c`,
`game.c`, `api2.c` and `parse.c` are in `Server/src`, `api.c` and
`client_main.c` in `Client/src/client`.

## 1. Inventory

One server process plays many games, one client process each. They talk over
three kinds of FIFO: the server's (registration, 81-byte requests from every
client), and per client a request pipe (2-byte commands to the server, 1 byte to
say goodbye) and a notification pipe (board updates to the client).

| Component | State | Operations | Interacts with |
|---|---|---|---|
| **Level** (`board.c`, `game.c:81-204`) | `board[]` cells with `content`, `has_dot`, `has_portal` and a rwlock each; position, `waiting`, commands of ghosts; the pacman's `alive`, `points`, `won` under `pac->lock`; `active` under `board_lock`; `result` | `move_pacman`, `move_ghost`, `move_ghost_charged`, `play_board`, `ghost_thread`, `locksOrder`/`unlockOrder` | threads share the board; the session's pipe gives the commands; `game_thread` joins |
| **Lobby** (`game.c:36-70, 307-368, 411-415, 508-678`) | request queue `p2c` and its mutex, `sem_games`, `activeClients` and its mutex, `shutdown`, `SIGUSR1_received`, `servfd` | `host_thread` reads, queues and posts; `game_thread` takes, opens or refuses; the signal handlers; `main` joins | clients by FIFO; host to game threads by queue and semaphore; main by `pthread_join` |
| **Board updates** (`game.c:206-296`) | the header and the cells of the update in the making | `server_thread`, `boardToChar` | reads the level under its locks; `game_thread` joins it |
| **Session** (`api2.c`, `game.c:238-296, 339-411`) | `session_t`, the two pipes, the level index, the last snapshot | `innit_session`, `get_pacman_command`, `server_thread`, level loop, `disconnect_session` | client's threads by the pipes, the level's threads by `alive`, `won`, `active` |
| **Client** (`client_main.c`, `api.c`) | `board_ready`, `stop_execution`, `SIGINT_received`, last `board` | `pacman_connect`, `pacman_play`, `pacman_disconnect`, `receive_board_update`, main and receiver threads | the server by the pipes, its two threads by mutexes and one condition |
| **Leaderboard** (`game.c:438-485`) | `leaderboard.txt` | `leaderBoard` on SIGUSR1 | reads the sessions of `activeClients` |
| **Level files** (`parse.c`, `board.c:410-470, 547-577`) | the directory, `levels[]`, the level being parsed | `handle_files`, `parseLvl`, `parseMonster`, `parsePacman`, `userPacman`, `level_copy`, `load_level` | read once, before the threads start; each game copies a level from it |
| **Displays, debug log** | the screen | drawing | none |

What is hard, and what makes each component correct:

* *Level.* One thread per actor on a board with a lock per cell. A plain move
  locks two cells in index order, a charge looks along its row cell by cell and
  locks only afterwards; life and death of the pacman are under yet another lock
  and are read before the cell locks are waited for. Correct means: what a thread
  decides on is still true when it acts; matrix and positions agree; no dot is
  counted twice; death is final; the portal is an escape; the level ends.
* *Lobby.* A semaphore and a queue that must stay in step though different
  critical sections change them, and a shutdown that ends threads by permits
  *without* requests while there may be permits *with* requests. Correct means:
  nobody forgotten, first come first served, no thread ends too early, everything
  freed only when unused, the shutdown completes.
* *Board updates.* A picture put together from a header and cells that are locked one
  by one while the level goes on, so never one of a single instant. Correct means: it does not
  contradict itself (no dot both shown and counted), and the level it is made of still comes to its end.
* *Session and client.* Five threads in two processes, each side able to vanish
  or be interrupted, blocking opens, reads and writes in both directions, and a last
  update that may be stale. Correct means: the handshake returns; both sides notice the end;
  victory is true; a killed client frees its slot.
* *Level files.* Sequential, but with the order of `readdir`, lines in any order, memory
  that `malloc` leaves undefined, arrays nobody compares a count with, and failures half way. Correct
  means: the values are those the files say; all levels or none; every game starts from a playable copy.

`PROJECT.json` lists the hazards with their lines and the property that watches
each of them.

## 2. Plan

1. `Level` with its runs and proofs, and its abstract specification `Chase`, which it refines when
   no ghost charges. **Done.**
2. `Lobby`, its abstract specification `Admission`, and the proofs of its invariants and of the
   refinement. **Done.**
3. `Session`: both processes' threads, from the handshake on, and the proofs of its
   invariants. **Done.**
4. `Frames`: `boardToChar` cell by cell against the moves of `Level`, with proofs. **Done.**
5. `LevelFiles`: the parser line by line, the list of levels and the copy a game gets, and the
   proofs of all its properties. **Done.**
6. `Leaderboard`: the rows of `leaderboard.txt` for fewer and more than five games. **Not done**:
   with fewer, the code writes what the stack holds (section 6).

## 3. Modules

| Module | Content |
|---|---|
| `Level` | one level while it is played; refines `Chase` |
| `MCLevel` | boards of 3 x 2 cells, ghost programs and client commands for TLC |
| `Chase` | abstract: the rules of a level without charges, a move being one step |
| `LevelProofs` | eight theorems on `Level` |
| `ChaseProofs` | one more, the refinement of `Chase`; built on `LevelProofs` |
| `Frames`, `MCFrames` | `Level` with the server thread that copies the board; 2 x 2 cells for TLC |
| `FramesProofs` | two theorems on `Frames`, built on `LevelProofs` |
| `LevelFiles`, `MCLevelFiles` | from the directory to the copy a game plays; directories for TLC |
| `LevelFilesProofs` | four theorems on `LevelFiles` |
| `Admission` | abstract: what the server promises registering clients |
| `Lobby` | registration, queue, game threads, shutdown; refines `Admission` |
| `MCLobby` | three clients, two game threads |
| `LobbyProofs` | four theorems on `Lobby` |
| `AdmissionProofs` | two more, with the refinement; built on `LobbyProofs` |
| `Session`, `MCSession` | a client and its session |
| `SessionProofs` | two theorems on `Session` |

The definitions written as mutants ("Mutant of ...", "A mutant: ...") are plausible
wrong versions of the definition they name or stand before; no specification uses them. They
show that each property can fail.

### 3.1 Level

*State.* `content`, `dots`, `lock` are the fields of `board[i]`; `pos`, `waiting`,
`cur` (`current_move % n_moves`), `left` (`turns_left`), `charged` are those of
`pacman_t` and `ghost_t`; `target`, `seen`, `dir` are locals of a move (`new_x,
new_y`, `target_content`, `direction`); `alive`, `points`, `won`, `active`, `result`,
`shutdown` keep their names. `Spec` leaves `server_thread` out, it is `"over"` from the start; `Frames`
has it. `corrupt` is the set of cells whose lock was released
once too often.

*Steps.* A move is three steps: `LockFirst`, `LockSecond` (which reads the target
cell), and the one that acts and releases. Between them other threads run, so the
target can change if the locks do not prevent it; that they do is a property
(`FreshLook`), not an assumption. A critical section on `pac->lock` or `board_lock`
is part of the step around it, because nothing is awaited inside. A charge is
`GhostRushes`, one scanning step per cell, the two locks, `GhostMoves`. The pacman's step
after `get_pacman_command` tests the command, `shutdown`, `alive` and `waiting` together:
they are each read once, and what another thread does in between commutes with the reads.

*Lock order.* `locksOrder` is `First` and `Second`, which share the comparison of the indices
(`HigherFirst`). The property is not that order but what it is for: `NobodyWaitsInACircle` says that in any
group of threads there is one that waits for a lock none of the group holds. A wrong comparison, the target
first say, breaks it.

*Undefined behaviour.* A charge that is blocked at once locks its own cell twice
(glibc: `EDEADLK`, not looked at) and unlocks it twice. What a doubly released rwlock does
is undefined: from then on a thread that wants it either gets it when nobody else
has it, or is hung (`HangOnLock`). In the runs with charges the level may thus stop, and deadlock is
not checked there.

*Chase* is what a player may expect of a level: everybody moves to a neighbouring cell, never into a
wall, ghosts never share a cell, the pacman and a ghost share one only as it is caught, it escapes only
from beside a portal, and keeps what it has won. A whole move is one step, and there are no locks, no
looks and no matrix: the state is where everybody is, the dots, the points and the pacman's `fate`. In
`Level` that is `Fate`: `InPlay` is "playing"; alive but out of play is "escaped"; dead is "dying" while a
move is in progress, which may still be made (`PacLastMove`), and "lost" otherwise.
`PlaysByTheRules` says that `Level` implements it: the threads' moves are linearizable, each taking effect at the
step that acts. A charged ghost breaks these rules (`LevelCollision`), so it is stated for levels without charges.

*Assumed of the level files* (`LevelAssumption`): nobody starts on a wall or on
somebody else, a ghost has a command, the count of a T is at least 1. The random
direction R is any of the four (3.5 has what the parser makes of other files); `tempo` and sleeping are left
out, so every
interleaving the sleeps could cause is allowed.

### 3.2 Lobby and Admission

*State.* `pipe` is the server's FIFO; `queue` the list `p2c`; `sem` the semaphore;
`active` the non-NULL entries of `activeClients`; `hostPc`, `pc`, `mainPc` say which
statement a thread is about to execute; `sess` tells a live session from a freed one.
A client is reduced to what the server can notice of it: it has registered, was greeted,
plays, has left, or is dead.

*Steps.* A system call (a read or open that may block, a write), a critical
section, or an access to an unprotected variable. Signals reach the host thread only, every
other thread blocks them; SIGINT makes its read fail, SIGUSR1 interrupts a read that is
blocked and otherwise just sets the flag. `open` of a FIFO returns when the other
side opens it; if the client is dead it never does, or the pipe is gone and it fails (`GameOpenFails`).
`innit_session` frees the session when an open or the greeting fails and the game goes on with it: `sess` is then `"freed"` and the second
free may crash the server (`crashed`). A game is one step per level
(`GameAdvances`, `GameQuits`): what happens in a level is `Level`'s subject.

`Admission` is the promise: a line, slots that call the head of the line, play, finish,
and may turn a client away only while closing. `KeepsItsPromise` is its specification
under the mapping in `Lobby` (`line <- queue`, `called <- req`, and so on).

### 3.3 Session

*State.* Two sequences for the pipes, a program counter for each of the client's two
and the server's three threads, the flags of `client_main.c` and what the server's thread
reads of the pacman. An update is its `game_over` and `victory` fields. Inside a level
the pacman goes on, dies or reaches the portal, and a ghost may kill it at any time. `input`
says whether the client has a player, a commands file, or a commands file without a command in it
(the loop then goes round without sending, `client_main.c:159-170`); `timed` whether the
level has a TEMPO, without which the receiver never sets `board_ready`.

*Steps.* A session starts when a `game_thread` has taken the request from the queue. The handshake
is `pacman_connect` against `game_thread` and `innit_session`: the test of `shutdown`, the two opens,
each of which waits for the other side, and the answer between them. When the answer cannot be
written, `innit_session` frees the session and `game_thread` goes on with it: `gt` is then
`"undefined"` and the server takes no further step (in `Lobby` the game goes on and may crash).
After that, as in the lobby, there is one step per access to a pipe or shared flag. A pipe
without readers makes a write fail, without writers a read return the end. The farewell is one
byte, so `get_pacman_command`, which wants two, sees the end of the pipe. A client may be
killed (`ClientDies`) or interrupted (`handle_SIGINT`, `ConnectIsInterrupted`) at any point.

### 3.4 Frames

`Frames` extends `Level` with `server_thread` (`game.c:238-296`) and `boardToChar`
(`game.c:206-236`). An update is `shown`, the points of its header, and `frame`, the characters
copied so far. After the test of `shutdown` (`ServerLeaves`, `ServerSleeps`) the thread sleeps;
`ServerTakesHeader` is the critical section on `pac->lock` and `ServerWritesHeader` the write of the
header; `ServerReadsCell` copies one cell as soon as nobody holds its lock; every
step of `Level` may come between two of them. The variables `st`, `shown` and `frame`
are declared in `Level`, because the step that unloads a level (`GameUnloads`) first joins `server_thread`: its guard
is `st = "over"`. A lock released twice may
hang the server thread too (`ServerHangs`). The client that is gone makes either write fail.

### 3.5 LevelFiles

*State.* `disk` maps names to sequences of lines, and a line is a record that says what it is
(`DIM`, `TEMPO`, `MON`, `PAC`, a row of the matrix, `PASSO`, `POS`, a command, a comment). `unread`
is what `readdir` has yet to return, in any order; `levels` is the array; `lvl`, `at` and `tok` are the
level being parsed, the line of its file (the `i` of `parseLvl`) and the name `strtok_r` has come to
in a MON line; `actor` and `line` the same for the monster or pacman being parsed; `board` the copy a
game plays. `lvl.filled` is `matrix_index`.

*Steps.* One per directory entry, one per line of a level file, one per line of a monster's or
pacman's file, and one where an actor joins its level (`EndsActor`). `parseMonster` and `parsePacman` share
their steps, as they differ in nothing a level keeps but `won`. What `malloc`
returned and nobody wrote is `Undefined` (fields of an actor, cells of the matrix); a read or write
outside what was allocated, the use of a NULL pointer or a division by zero takes `pc` to `"undefined"`
(`Breaks`): a row too many or before DIM, a command too
many (`MaxMoves`), a monster too many (`MaxGhosts`: its name is written past `ghosts_files`), a directory entry without a dot, a level without DIM, and a `realloc` that fails
after a level was loaded (`unload_allLevels` then looks for a NULL that is not there). A missing file unloads
everything and ends the server (`GiveUp`). `GameLoads` is `level_copy` with `load_level`; only the first
pacman of a level is played.

*Assumed of the directory* (`FilesAssumption`): finitely many names; the lines of a file that ends in
.lvl are lines of a level and those of any other are an actor's; a level does not name another
level file as its monster or pacman (`ActorNames`). Nothing is assumed of the order and number of the
lines, of positions, sizes or missing files. `Letters` stands for the
characters of a matrix and the commands.

A POS line has a first and a second number. `ReadActorLine` stores them as the parser does, the first in
`pos_x`. The comments of the level files have it otherwise (`FilesPos`), so `LoadedAsWritten` says nothing
of positions, and `GoodLevel`, for `Playable`, takes a position as impossible where the
parser's reading of it is.

Two things the module makes visible and its properties except: a level with a PAC file leaves
`won` as `malloc` returned it (`parse.c:155`), and `findFirstFreeSpot` (`board.c:421`) does not know where
the ghosts are, so a ghost may be drawn over the pacman (`FirstDotIsFree`).

## 4. Runs

| Run | Instance | Shows |
|---|---|---|
| `LevelPlain` | 3 x 2 cells, a wall, a portal; one ghost roams (R), one has T 2, W and an unknown letter; the pacman has PASSO 1; the client sends anything | `TypeOK`, `FreshLook`, `BoardConsistent`, `NobodyWaitsInACircle`, `PointsConserved`, `DeathIsFinal`, `PortalIsSafe`, and that the level ends (`LevelEnds`) and SIGINT stops the ghosts of a silent client (`ShutdownStopsGhosts`); that all of it is a game of `Chase` (`PlaysByTheRules`); no deadlock |
| `Frames` | 2 x 2 cells with a dot and a wall, a ghost with PASSO 1 that charges and roams, a pacman that takes the dot or quits, the server thread copying | an update never shows a dot it has counted (`NoDotCountedTwice`) and shows the walls where they are (`FramesTypeOK`); `WallsStand`, `FreshLook`, `PointsConserved` survive charges; the ghost, the server thread and the joins come to their end, unless a thread hangs on a lock released twice or a write blocks for ever (`LevelEndsWithServer`) |
| `Files` | a directory with a level of any lines (at most two, or DIM and four more, from 13 different ones), a good level, three monsters, a pacman, files that are missing, and a directory with a name without a dot | `TypeOK`, `LoadedAsWritten`, `AllOrNothing`, `Playable` |
| `LobbySafe` | 3 clients, one mortal, 2 game threads, 2 levels, SIGUSR1, SIGINT, failing host | the safety properties and the refinement of `Admission` |
| `LobbyLive` | 3 clients, 1 game thread, 1 level, nobody dies | `QueuedIsAnswered`, `ShutdownCompletes`, both as long as nobody plays for ever |
| `SessionEnds` | the handshake, 2 levels, pipes of capacity 1, all kinds of client and both of level | `VictoryIsTrue`, that the handshake returns (`ConnectReturns`) and four liveness properties on how the session ends |

and six runs that find the code at odds with what the repository says of it:

| Run | Property | What the code does |
|---|---|---|
| `LevelCollision` | `CollisionKills` | a charging ghost lands on a living pacman: the scan releases each cell before the target is locked (`board.c:197-210, 304-312`); `README.md:24` |
| `LevelPosthumous` | `NoPosthumousAdvance` | `alive` is not read again under the cell locks (`board.c:81-89, 143-152`): a killed pacman goes through the portal; `README.md:24` |
| `LevelWait` | `WaitRestored` | `turns` is always 1 (`parse.c:113`), so T n waits n plays only once; `levels/1.m:12` |
| `FilesPos` | `PosAsDocumented` | the first number of POS is taken as the column (`parse.c:106, 166`), where `levels/1.m:5` and `levels/1.p:3` have the row |
| `LobbyLeaderBoard` | `LeaderBoardReadsLiveSessions` | the session is freed before it leaves `activeClients` (`game.c:411-414`); `game.h:188` |
| `SessionStuck` | `MainIsWoken` | a receiver that stops before its first drawing leaves main waiting (`client_main.c:45-51, 140`), and one whose updates have no tempo never wakes it (`:56`); `client_main.c:61` |

*Bounds.* The board of `LevelPlain` has two rows, so that ghosts can pass each other and the pacman, and
rows of three cells; two ghosts give ghost-ghost and pacman-ghost-ghost interleavings of the locks and
circles of two and three threads. In `Frames` the server thread is the third one that wants the cells' locks; on
2 x 2 cells a charge passes over one cell, meets the wall, the pacman or an edge, or is blocked
at once, and the dot may be taken before its cell is copied and after. A charge that comes over a free cell to a
wall needs three and is not reached; the proofs have it, for a board of any size. Three
clients over two game threads give a queue behind busy threads and a thread that is idle at
shutdown; with one game thread there are still two clients to queue.
`LobbySafe` identifies states that differ by exchanging the two immortal clients, which the
module treats alike; `LobbyLive` checks liveness and uses no symmetry. In `LobbySafe` and
`SessionEnds` every branch of every action of their module is taken, `Files` takes every action of
`LevelFiles`, and the two passing runs of `Level` and `Frames` take every one of theirs
between them. In `Files` two lines reach every order of two kinds of line, DIM and four more a
complete level of 2 x 2 cells with a monster and lines to spare, or a second DIM of another size;
`MaxMoves` and `MaxGhosts` are 2, so that a third command and a third monster overflow (1.2 million states).
`ReqCap` and `NotifCap` are 1: a pipe that is often full is the harder case for the session's
end; the run also passed with 2 and 2. `ReqCap` bounds a pipe that in the program
does not fill (32768 commands, one per `tempo`): at the bound a command is not
recorded. `NotifCap` is a real capacity, writes block at it.

*Deadlock* is checked in `LevelPlain`, `Files` and `LobbyLive`. Elsewhere the system may stop:
corrupt locks, clients that do not come, a session with a dead client,
a host that failed (`main` then waits for ever, `game.c:525-528, 651-661`). In `Session` the loop of a
client whose commands file is empty is no step, so a session that waits for it looks stopped too.

*Fairness.* Weak fairness for each thread, as the operating system runs every thread that
can run. In `Level` a thread's wait for a command is not fair (`PacReads`): the client need not send. In `Frames`
the writes of the update are not fair either (`ServerWrites`): the client need not read. In `Lobby`
`GameWaits` is strongly fair, since several threads compete for the semaphore; a client need not do
anything, and only when it has left must its game end; SIGINT, SIGUSR1, deaths,
registrations and farewells are never forced. In `Session` the client's main is fair because it sends a
command each `tempo` (an idle player's input is the NUL command: `getch` does not
block), the opens and the answer of the handshake are fair as a whole (`HandshakeRuns`: they alternate), and
signals, deaths, ghosts and portals are left to chance.

*Assumptions and exceptions stated in the properties.* `QueuedIsAnswered` and `ShutdownCompletes` assume that nobody
plays for ever (`EveryoneLeaves`), which nothing in the code sees to: a client that falls silent (below) keeps its game
thread, and with it a shutdown, waiting. They also hold only as long as
no client dies: the server's `open` for a dead client need never return. `LevelEndsWithServer` assumes that
`server_thread` is not in one write for ever, and excuses a thread that hangs on a lock released twice,
which really may happen; where no ghost charges `LevelEnds` holds without either. `QuitEndsBoth` and
`ShutdownEndsSession` except `FallsSilent`: a client whose commands file has no command never sends
one, and a player who interrupts an interactive client
leaves its loop without telling the server (`client_main.c:179-181`) and waits for the receiver,
while the server may wait for the client's byte (`api2.c:84`) before it closes the pipe the receiver
reads. They also start from `ready`, because of what `SessionStuck` shows. `ClientGoneFreesGame`
speaks of sessions whose handshake was completed: a client that dies before leaves its
`game_thread` in `open`. `LoadedAsWritten` and `Playable` speak of well-formed levels
(`GoodLevel`, `GoodActor`), what the comments in `levels/1.lvl` and `levels/1.m` ask for.

## 5. Proofs

`tlapm` on `LevelProofs.tla`, `ChaseProofs.tla`, `FramesProofs.tla`, `LobbyProofs.tla`, `AdmissionProofs.tla`,
`SessionProofs.tla` and `LevelFilesProofs.tla` checks everything below, for every value of the
constants that satisfies `LevelAssumption`, `LobbyAssumption` (finite `Slots` being one of its
conjuncts), `SessionAssumption` or `FilesAssumption`. Nothing else is assumed, unless the table says so.

| Theorem | States |
|---|---|
| `TypeCorrect` | `Spec => []TypeOK` of `Level` |
| `LooksStayFresh` | `[]FreshLook`, charges included |
| `WallsAlwaysStand` | `[]WallsStand`, charges included |
| `BoardAlwaysConsistent` | `[]BoardConsistent` |
| `NoCircleOfWaiters` | `[]NobodyWaitsInACircle`, charges included, for any number of ghosts |
| `DeathStaysFinal`, `PortalStaysSafe` | the action properties |
| `PointsAlwaysConserved` | `[]PointsConserved` |
| `LevelPlaysByTheRules` | `Spec => PlaysByTheRules`: `Level` implements `Chase`, if no ghost of the level charges |
| `LobbyTypeCorrect` | `Spec => []TypeOK` of `Lobby` |
| `PermitsStayBalanced` | `[]PermitBalance` |
| `NoThreadExitsEarly` | `[]NoEarlyExit` |
| `ExitIsOrderly` | `[]OrderlyExit`, if there is a game thread at all |
| `NobodyIsForgotten` | `[]NobodyForgotten` |
| `LobbyKeepsItsPromise` | `Spec => KeepsItsPromise`: `Lobby` implements `Admission` |
| `FramesTypeCorrect`, `NoUpdateCountsTwice` | `[]FramesTypeOK`, `[]NoDotCountedTwice`, charges included |
| `SessionTypeCorrect`, `VictoryStaysTrue` | `[]TypeOK` and `[]VictoryIsTrue` of `Session` |
| `FilesTypeCorrect` | `Spec => []TypeOK` of `LevelFiles`: with it, the client's pacman stands on a cell whatever the files hold |
| `LoadedFaithfully` | `[]LoadedAsWritten`, for levels and files of any length: one with more monsters or commands than `MaxGhosts` and `MaxMoves` is not loaded, its outcome is undefined |
| `LoadsAllOrNothing` | `[]AllOrNothing`, for any directory and any order of reading it |
| `GamesStartPlayable` | `[]Playable`, within the same limits |

*Level.* The inductive invariant `IInv` adds to `TypeOK`, `WallsStand` and
`BoardConsistent`: `LocksHeld` (a thread at `lock2` holds its first lock, at `act` both; this
is what makes a look fresh and keeps others away from the actor's own cell), `ChargeKnown` (a
direction is set only while a charged move is in progress, the cell a scan has come over is not a
wall, nor is the cell it settles on), `PlainMovesMove` (the target of a plain move is another cell, so its two
locks differ),
`NobodyCharges` (without a C in the files nobody is ever charged) and `LeftTheBoard` (the
cell from which the pacman entered the portal shows no P, so no ghost takes it for the pacman's). `FreshLook` follows
from `LocksHeld`: all that writes a cell holds its lock. A charge may leave an actor in a corrupt state, which
is why `BoardConsistent` speaks of levels without charges, and `WallsStand` and `FreshLook` of all.

For `NoCircleOfWaiters` the invariant has `OnlyMoversHold`: who holds a lock is between its two locks and
holds the first, or acts and holds one it needs, or is hung. So a thread that holds one lock and waits for another
is at `lock2`, and waits for a lower index than it holds (`WaitsDownwards`). In a group in which each
waits for another of the group, consider those that are waited for, and of them the one
that wants the lowest lock (`LeastNumber`): whoever holds that lock wants a still lower one
(`NoCircle`). Releasing a lock twice frees it, but gives it to nobody, so charges do not matter here.

*Chase.* The refinement adds to `IInv` that the target of a move in progress is next to the cell it
started from (`NearTargets`), and that the pacman's thread ends alive only by the portal
(`EndsDeadOrGone`). `MoveIsKnown` and `FreeIsFree` say what a thread knows as it acts: its look still
stands, and a cell that shows nobody has nobody on it. `FateSettled` keeps a fate that is settled (from
`DeadForGood`, `GoneIsSafe` and `DeadRest`, the lemmas of the action properties). `SimPacMoves`,
`SimGhostMoves` and `SimQuiet` then map every step to one of `Chase`'s or a stutter.

*Lobby.* `IInv` is `TypeOK`, `PermitBalance`, `NoEarlyExit` and: `MainFollowsHost` (main posts and
joins the game threads only after the host is done, and is over only when they have all exited),
`ActiveIsPlaying` (registered slots are those whose thread is between the two
critical sections), `WaitingIsSomewhere` and `ServedHasAnswer` (a waiting client is in
the pipe, with the host, in the queue or with a thread). `OrderlyExit` then is arithmetic: when all
have exited, `PermitBalance` leaves no permit and no request.

*Admission.* The refinement needs more: `OncePlaced` (pipe and queue have no duplicates, a client is in at
most one of the places pipe, host, queue, game thread, and an idle one in none) and
`RefusedAtShutdown`. With it, `SimInit`, `SimClient`, `SimHost`, `SimGame` map
the initial states and each step of a client, the host and a game thread to a step
of `Admission` or a stutter, and `NobodyForgotten` is the same fact counted.

*Frames.* `FInv` is `Level`'s `IInv`, `PointsConserved`, the types, and `HeaderHolds`: there is a
set H of dots, those left when the header was read, that contains every dot still there and every
dot shown, and whose size is what the header's points leave over. Dots only ever disappear, so H outlives every
step of the level, and a cell that is copied as a dot is one of H. `WallsShown` rests on
`WallsStand`. That two places of an update are two cells is arithmetic of div and mod
(`PlacesDiffer`).

*Session.* `IInv` is `TypeOK`, `RoomForBye` (a client that has not ended has left room for its last byte),
`PlaysInTime` (the pacman plays only while `game_thread` waits for it) and `WonForGood`: once `won` or an
update that says so exists, the last level is over and won, and no level is
started after it.

*LevelFiles.* No property speaks of a file that is half read, so the inductive invariant says at every line
what the lines *before* it have made of the level. `ActorRead(a, n)`: after the lines before `n`, the
commands of actor `a` are those lines that are commands, in their order (command number
`Before(...) + 1` is the one of that line), PASSO and POS are there if their only line has been passed, and no more.
`MonstersRead(name, ghosts, a, t)`: the ghosts are the mentions before line `a` and word `t`,
each in the place that the number of mentions before it gives it, each read to the end of its file.
`PacmenRead`: the files of the PAC lines passed could be opened. `TempoRead`: the level's tempo is that
of its only TEMPO line, once passed. `MatrixRead(l, a)`: after DIM, in a
well-formed level, `filled` is the width times the number of rows passed, and each of their characters is in
its cell. `InLevel` and `InActor` put them together for the positions of the two loops, and `IInv`
adds `Counted` (levels loaded plus level files pending are the level files of the directory, in number
and by name), `LevelsLoaded` and `BoardLoaded` (each level is one that was read to its end and then given
its pacman; the board is the copy of such a level).

The places of monsters, commands and cells are cardinalities of sets of earlier lines, not positions
that a recursion computes: a step from one line to the next adds at most one element to such a set
(`BeforeNext`, `MonsterJoins`, `OneRowMore`), which is a fact of `FiniteSetTheorems` and needs no
induction over the file. From `IInv` at the end of the file, `LoadedIsWritten` gives `AsWritten`, and
`LoadedCanStart` gives `CanStart`: `FirstFreeSpot` is the least cell with a dot
(`FirstFreeSpotIsFirst`, by well-founded choice of a least number), `FirstDotIsFree` keeps monsters
off it, `div` and `mod` take it to the pacman's position and back (`DivMod`), and
`LoadLevel` draws each actor over a cell that is no wall. `AllOrNothing` is `Counted` when nothing is pending.
A form of `IInv` that TLC can evaluate was an invariant of `Files` before it was proved.

*Only model-checked.* All liveness properties, as liveness under fairness is beyond the prover: `LevelEnds` and
`ShutdownStopsGhosts` of `Level`, `LevelEndsWithServer` of `Frames`, `QueuedIsAnswered` and
`ShutdownCompletes` of `Lobby`, and `ConnectReturns`, `ClientGoneFreesGame`, `QuitEndsBoth`,
`SigintEndsClient` and `ShutdownEndsSession` of `Session`. The
violations are TLC's traces.

## 6. Not modelled

* The failing of an open for a client that lives (no descriptor left, say): `api2.c:48-51, 60-64` and
  `game.c:343`. `Lobby` has the failing open for a client that is gone, `Session` none.
* Messages to the server's pipe that are no connect request, which `host_thread` reads and discards
  (`game.c:539`): no program of the repository writes one.
* Pointers: levels are values, so what `level_copy` (`board.c:547-577`) shares with the original or does not is
  no subject of a property.
* The slips that one of the four hand-written directions of a charge could have
  (`board.c:196-280`): `GhostScansOn` is one scan for all four.
* The rows and the order of the leaderboard: with fewer than five games the code writes
  rows nobody filled, and the sort is the C library's.
* The characters of the files: `sscanf`, `strtok_r`, `strchr` are what the kinds of line say of
  them; negative sizes in DIM and read errors inside a file are left out,
  and so is a `closedir` that fails.
* Memory that is leaked, names longer than their arrays, descriptor numbers that are
  reused.
* Drawing, the debug log, `Server/src/display.c` (no thread of the server calls it).
* The quicksave by `fork` of `README.md` (Exercise 2): no code for it in this commit.
