------------------------------- MODULE Frames -------------------------------
(***************************************************************************)
(* The updates of a level: server_thread and boardToChar (Server/src/      *)
(* game.c) beside the threads of module Level.                             *)
(*                                                                         *)
(* An update is a header, read under the pacman's lock, and the cells,     *)
(* copied one after the other, each under its own lock, while the pacman   *)
(* and the ghosts go on.  It is thus no picture of one instant.  Of the    *)
(* header the points are kept here; module Session has the rest.           *)
(***************************************************************************)
EXTENDS Level

FramesInit ==
  /\ LevelInit
  /\ st = "loop"
  /\ shown \in 0 .. AccPoints  \* what the level before has left
  /\ frame = <<>>

----------------------------------------------------------------------------

\* get_board_index backwards: the cell in place i of the matrix
CellAt(i) == <<i % Width, i \div Width>>
NextCell == CellAt(Len(frame))

\* Mutant of Char: the walls fall into the case of the empty cells.
CharOfTenants(c) == IF content[c] \in {"P", "M"} THEN content[c]
                    ELSE IF c \in Portals THEN "@"
                    ELSE IF c \in dots THEN "." ELSE " "

\* cell.content == 'o' is shown as a portal, a dot or nothing
Char(c) == IF content[c] # "o" THEN content[c]
           ELSE IF c \in Portals THEN "@"
           ELSE IF c \in dots THEN "." ELSE " "

\* server_thread returns; nothing is left of the update it worked on.
ServerReturns == st' = "over" /\ frame' = <<>>

ServerLeaves ==
  /\ st = "loop"
  /\ shutdown
  /\ ServerReturns
  /\ UNCHANGED <<levelVars, shown>>

\* Past the test of shutdown the thread sleeps for a tempo.
ServerSleeps ==
  /\ st = "loop" /\ ~shutdown
  /\ st' = "asleep"
  /\ UNCHANGED <<levelVars, shown, frame>>

ServerTakesHeader ==
  /\ st = "asleep"
  /\ shown' = points
  /\ st' = "header"
  /\ UNCHANGED <<levelVars, frame>>

\* A write goes through, or fails when the client is gone.
ServerWritesHeader ==
  /\ st = "header"
  /\ \/ st' = "cells" /\ UNCHANGED frame
     \/ ServerReturns
  /\ UNCHANGED <<levelVars, shown>>

\* boardToChar: the next cell, once nobody holds its lock
ServerReadsCell ==
  /\ st = "cells" /\ Len(frame) < Width * Height
  /\ Free(NextCell)
  /\ frame' = Append(frame, Char(NextCell))
  /\ UNCHANGED <<levelVars, st, shown>>

\* A mutant: the points are read once more when the cells have been.
ServerSendsLatePoints ==
  /\ st = "cells" /\ Len(frame) = Width * Height
  /\ shown' = points
  /\ \/ st' = "sent" /\ UNCHANGED frame
     \/ ServerReturns
  /\ UNCHANGED levelVars

ServerSends ==
  /\ st = "cells" /\ Len(frame) = Width * Height
  /\ \/ st' = "sent" /\ UNCHANGED frame
     \/ ServerReturns
  /\ UNCHANGED <<levelVars, shown>>

\* Mutant of ServerLooksAtActive: the thread goes on until the next SIGINT.
ServerGoesOn ==
  /\ st = "sent"
  /\ st' = "loop" /\ frame' = <<>>
  /\ UNCHANGED <<levelVars, shown>>

ServerLooksAtActive ==
  /\ st = "sent"
  /\ \/ active /\ st' = "loop" /\ frame' = <<>>
     \/ ~active /\ ServerReturns
  /\ UNCHANGED <<levelVars, shown>>

\* rdlock on a lock that was released once too often
ServerHangs ==
  /\ st = "cells" /\ Len(frame) < Width * Height
  /\ NextCell \in corrupt
  /\ st' = "hung"
  /\ UNCHANGED <<levelVars, shown, frame>>

ServerRuns ==
  ServerLeaves \/ ServerSleeps \/ ServerTakesHeader \/ ServerReadsCell \/ ServerLooksAtActive
ServerWrites == ServerWritesHeader \/ ServerSends

FramesNext == Next \/ ServerRuns \/ ServerWrites \/ ServerHangs

\* As in Level, and server_thread runs when it can; the client need not read.
FramesFairness == Fairness /\ WF_vars(ServerRuns)

FramesSpec == FramesInit /\ [][FramesNext]_vars /\ FramesFairness

----------------------------------------------------------------------------
(* What an update promises. *)

\* The points are those of a pacman and the cells what a cell can show; where a
\* wall is shown there is one and no wall is ever shown as anything else.
FramesTypeOK ==
  /\ st \in {"loop", "asleep", "header", "cells", "sent", "over", "hung"}
  /\ shown \in Nat
  /\ Len(frame) <= Width * Height
  /\ \A i \in DOMAIN frame : /\ frame[i] \in Contents \cup {"@", ".", " "}
                             /\ frame[i] = "X" <=> CellAt(i - 1) \in Walls

ShownDots == {i \in DOMAIN frame : frame[i] = "."}

\* However the pacman runs ahead of or behind the copying, an update never shows
\* a dot whose point it has already counted: the points come first, and a dot is
\* taken and counted under the lock of its cell (game.c:257-283, board.c:153-170).
NoDotCountedTwice ==
  st # "over" => shown + Cardinality(ShownDots) <= AccPoints + Cardinality(Dots)

\* server_thread is in a write, which returns when the client reads or is gone.
Writing == st = "header" \/ (st = "cells" /\ Len(frame) = Width * Height)

Hung == st = "hung" \/ \E t \in Threads : pc[t] = "hung"

\* When the pacman's thread has returned, every ghost and server_thread, which go
\* from lock to lock of the same cells, come round to look at active and end, and
\* game_thread's joins with them - charges or not, as long as server_thread is not in
\* one write for ever and nobody hangs on a lock that was released once too often.
LevelEndsWithServer ==
  []<>~Writing => (pc[Pac] = "done" ~> game = "over" \/ Hung)
=============================================================================
