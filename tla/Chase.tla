------------------------------- MODULE Chase -------------------------------
(***************************************************************************)
(* The rules of a level without charges, as a game in which somebody's     *)
(* whole move is one step: there are no locks, no looks that may be stale  *)
(* and no matrix beside the positions.  Everybody moves to a cell next to  *)
(* its own, never into a wall; two ghosts never share a cell; the pacman   *)
(* and a ghost share one only as the ghost catches it; the pacman escapes  *)
(* only from beside a portal, and keeps what it has won.  A pacman that is *)
(* caught may be in the middle of a move: that one it may still make.      *)
(***************************************************************************)
EXTENDS Naturals

CONSTANTS Cells, Neighbours, Walls, Portals, Dots, Pac, Ghosts, Start, AccPoints

VARIABLES
  pos,     \* where everybody is
  dots,    \* the dots that are left
  points,  \* the points of the pacman
  fate     \* "playing", "escaped", "dying" in the middle of a move, or "lost"

Init ==
  /\ pos = Start
  /\ dots = Dots
  /\ points = AccPoints
  /\ fate = "playing"

Playing == fate = "playing"
Open(t) == Neighbours[pos[t]] \ Walls
Goes(t, c) == pos' = [pos EXCEPT ![t] = c]
Nobody(c) == c # pos[Pac] /\ \A g \in Ghosts : c # pos[g]

\* The pacman comes to a cell and eats the dot that is there.
PacComes(c) ==
  /\ c \in Open(Pac) \ Portals
  /\ Goes(Pac, c)
  /\ dots' = dots \ {c}
  /\ points' = points + (IF c \in dots THEN 1 ELSE 0)

PacMoves(c) == Playing /\ Nobody(c) /\ PacComes(c) /\ UNCHANGED fate

PacEscapes ==
  /\ Playing
  /\ Open(Pac) \cap Portals # {}
  /\ fate' = "escaped"
  /\ UNCHANGED <<pos, dots, points>>

\* Its client gives up, or it runs into a ghost.
PacIsLost ==
  /\ Playing
  /\ fate' = "lost"
  /\ UNCHANGED <<pos, dots, points>>

GhostMoves(g, c) ==
  /\ Playing
  /\ c \in Open(g) /\ Nobody(c)
  /\ Goes(g, c)
  /\ UNCHANGED <<dots, points, fate>>

GhostCatches(g) ==
  /\ Playing
  /\ pos[Pac] \in Open(g)
  /\ Goes(g, pos[Pac])
  /\ fate' \in {"dying", "lost"}
  /\ UNCHANGED <<dots, points>>

\* The one move that overtakes its death, or the end of it without a move.
PacLastMove ==
  /\ fate = "dying"
  /\ fate' = "lost"
  /\ \/ \E c \in Cells : PacComes(c)
     \/ UNCHANGED <<pos, dots, points>>

\* Until they are stopped the ghosts go on, one cell at a time.
GhostRoams(g, c) ==
  /\ ~Playing
  /\ c \in Open(g)
  /\ Goes(g, c)
  /\ UNCHANGED <<dots, points, fate>>

Next ==
  \/ \E c \in Cells : PacMoves(c)
  \/ PacEscapes \/ PacIsLost \/ PacLastMove
  \/ \E g \in Ghosts : GhostCatches(g)
  \/ \E g \in Ghosts, c \in Cells : GhostMoves(g, c) \/ GhostRoams(g, c)

Spec == Init /\ [][Next]_<<pos, dots, points, fate>>
=============================================================================
